--------------------------- MODULE AdmissionProofs ---------------------------
(***************************************************************************)
(* Admission control, for any number of tenants, sites and concurrent      *)
(* requests and any amount of memory.  The bound on the overshoot is       *)
(* inductive because it counts a tenant from its admission on: inserting   *)
(* the row leaves the count alone, and an admission is granted only when   *)
(* the tables, without the other requests in flight, fit.  SitesProfiled   *)
(* needs that a request past its check carries a key with a profile.       *)
(***************************************************************************)
EXTENDS Admission, FiniteSetTheorems, TLAPS

(* A request that passed its check asks for a key with a profile. *)
CheckedProfiled ==
  \A r \in Requests : create[r].pc = "insertSite" => Profiled(create[r].key)

AdmissionInv == AdmissionTypeOK /\ OvershootBounded /\ SitesProfiled /\ CheckedProfiled

(* The limit is a number. *)
LEMMA MaxAllowedType == MaxAllowedMB \in Nat
<1>1. UsableMB \in Nat
  BY AdmissionAssumption DEF UsableMB, hostOverheadMB
<1> QED BY <1>1 DEF MaxAllowedMB

(* The tenants that the requests of a set R are admitted to insert. *)
LEMMA AdmittedCount ==
  ASSUME NEW R, IsFiniteSet(R), NEW f
  PROVE  /\ IsFiniteSet({f[r].tenant : r \in R})
         /\ Cardinality({f[r].tenant : r \in R}) <= Cardinality(R)
<1> DEFINE T == {f[r].tenant : r \in R}
           g == [r \in R |-> f[r].tenant]
<1>1. g \in Surjection(R, T)
  BY DEF Surjection
<1> QED BY <1>1, FS_Surjection

(* What is promised is finite. *)
LEMMA PromisedFinite ==
  ASSUME AdmissionTypeOK
  PROVE  IsFiniteSet(Promised) /\ Cardinality(Promised) \in Nat
<1> DEFINE R == {q \in Requests : create[q].pc = "insertTenant"}
<1>1. IsFiniteSet(R)
  BY AdmissionAssumption, FS_Subset
<1>2. IsFiniteSet({create[r].tenant : r \in R})
  BY <1>1, AdmittedCount
<1>3. IsFiniteSet(tenants)
  BY AdmissionAssumption, FS_Subset DEF AdmissionTypeOK
<1> HIDE DEF R
<1>4. IsFiniteSet(tenants \cup {create[r].tenant : r \in R})
  BY <1>2, <1>3, FS_Union
<1> QED BY <1>4, FS_CardinalityType DEF Promised, R

(* A step that promises nothing new keeps the bound. *)
LEMMA ShrinkingKeepsBound ==
  ASSUME AdmissionTypeOK, OvershootBounded, Promised' \subseteq Promised
  PROVE  OvershootBounded'
<1>1. /\ Cardinality(Promised') <= Cardinality(Promised)
      /\ Cardinality(Promised') \in Nat /\ Cardinality(Promised) \in Nat
  BY PromisedFinite, FS_Subset, FS_CardinalityType
<1>2. Cardinality(Requests) \in Nat
  BY AdmissionAssumption, FS_CardinalityType
<1>3. OvershootBounded' <=>
        perTenantTSDBMB * Cardinality(Promised')
          <= MaxAllowedMB + perTenantTSDBMB * (Cardinality(Requests) - 1)
  BY DEF OvershootBounded
<1> QED BY <1>1, <1>2, <1>3, MaxAllowedType DEF OvershootBounded, perTenantTSDBMB

(* An admission adds its tenant to tables that fit with it, and at most one *)
(* tenant for each other request.                                           *)
LEMMA AdmissionKeepsBound ==
  ASSUME AdmissionTypeOK, NEW r \in Requests, NEW t \in Tenants, AdmitTenant(r, t)
  PROVE  OvershootBounded'
<1> DEFINE R == {q \in Requests \ {r} : create[q].pc = "insertTenant"}
           O == {create[q].tenant : q \in R}
           T == tenants \cup {t}
<1>1. Promised' \subseteq T \cup O
  BY DEF AdmitTenant, Promised, AdmissionTypeOK
<1>2. /\ IsFiniteSet(Requests \ {r}) /\ Cardinality(Requests) \in Nat
      /\ Cardinality(Requests \ {r}) = Cardinality(Requests) - 1
  BY AdmissionAssumption, FS_RemoveElement, FS_CardinalityType
<1>3. IsFiniteSet(R) /\ Cardinality(R) <= Cardinality(Requests) - 1
  BY <1>2, FS_Subset
<1>4. /\ IsFiniteSet(O) /\ Cardinality(O) <= Cardinality(R)
      /\ Cardinality(R) \in Nat /\ Cardinality(O) \in Nat
  BY <1>3, AdmittedCount, FS_CardinalityType
<1>5. IsFiniteSet(T) /\ Cardinality(T) \in Nat
  BY AdmissionAssumption, FS_Subset, FS_AddElement, FS_CardinalityType DEF AdmissionTypeOK
<1>6. perTenantTSDBMB * Cardinality(T) <= MaxAllowedMB
  BY <1>5 DEF AdmitTenant, Admitted, perTenantTSDBMB
<1> HIDE DEF R, O, T
<1>7. /\ IsFiniteSet(T \cup O) /\ Cardinality(T \cup O) \in Nat
      /\ Cardinality(T \cup O) <= Cardinality(T) + Cardinality(O)
  <2>1. IsFiniteSet(T \cap O) /\ Cardinality(T \cap O) \in Nat
    BY <1>5, FS_Intersection, FS_CardinalityType
  <2>2. /\ IsFiniteSet(T \cup O)
        /\ Cardinality(T \cup O)
             = Cardinality(T) + Cardinality(O) - Cardinality(T \cap O)
    BY <1>4, <1>5, FS_Union
  <2>3. Cardinality(T \cup O) \in Nat
    BY <2>2, FS_CardinalityType
  <2> QED BY <1>4, <1>5, <2>1, <2>2, <2>3
<1>8. Cardinality(Promised') \in Nat /\ Cardinality(Promised') <= Cardinality(T \cup O)
  BY <1>1, <1>7, FS_Subset, FS_CardinalityType
<1>9. OvershootBounded' <=>
        perTenantTSDBMB * Cardinality(Promised')
          <= MaxAllowedMB + perTenantTSDBMB * (Cardinality(Requests) - 1)
  BY DEF OvershootBounded
<1> QED
  BY <1>2, <1>3, <1>4, <1>5, <1>6, <1>7, <1>8, <1>9, MaxAllowedType DEF perTenantTSDBMB

(* Initially nothing is promised. *)
LEMMA InitInv == AdmissionInit => AdmissionInv
<1> SUFFICES ASSUME AdmissionInit PROVE AdmissionInv
  OBVIOUS
<1>1. AdmissionTypeOK
  BY DEF AdmissionInit, AdmissionTypeOK, Creations
<1>2. Promised = {}
  BY DEF AdmissionInit, Promised, Idle
<1>3. Cardinality(Requests) \in Nat /\ Cardinality(Requests) # 0
  BY AdmissionAssumption, FS_CardinalityType, FS_EmptySet
<1>4. OvershootBounded
  BY <1>2, <1>3, MaxAllowedType, FS_EmptySet DEF OvershootBounded, perTenantTSDBMB
<1>5. SitesProfiled /\ CheckedProfiled
  BY DEF AdmissionInit, SitesProfiled, CheckedProfiled, Idle
<1> QED BY <1>1, <1>4, <1>5 DEF AdmissionInv

(* Every step keeps the types and the foreign key. *)
LEMMA StepTypes == AdmissionTypeOK /\ [AdmissionNext]_avars => AdmissionTypeOK'
<1> SUFFICES ASSUME AdmissionTypeOK, [AdmissionNext]_avars PROVE AdmissionTypeOK'
  OBVIOUS
<1> USE DEF AdmissionTypeOK, Creations, Idle, SiteRows
<1>1. ASSUME NEW r \in Requests, NEW t \in Tenants, AdmitTenant(r, t)
      PROVE  AdmissionTypeOK'
  BY <1>1 DEF AdmitTenant
<1>2. ASSUME NEW r \in Requests, NEW t \in Tenants, NEW s \in Sites, NEW key \in Keys,
             RequestSite(r, t, s, key)
      PROVE  AdmissionTypeOK'
  BY <1>2 DEF RequestSite
<1>3. ASSUME NEW r \in Requests, InsertTenant(r)
      PROVE  AdmissionTypeOK'
  <2>1. create[r].tenant \in Tenants
    BY <1>3 DEF InsertTenant
  <2> QED BY <1>3, <2>1 DEF InsertTenant
<1>4. ASSUME NEW r \in Requests, AdmitSite(r)
      PROVE  AdmissionTypeOK'
  <2>1. create[r] \in [pc : {"admitSite", "insertSite"}, tenant : Tenants,
                       site : Sites, key : Keys]
    BY <1>4 DEF AdmitSite
  <2>2. [create[r] EXCEPT !.pc = "insertSite"] \in Creations
    BY <2>1
  <2> QED BY <1>4, <2>2 DEF AdmitSite
<1>5. ASSUME NEW r \in Requests, InsertSite(r)
      PROVE  AdmissionTypeOK'
  <2>1. /\ create[r].tenant \in Tenants /\ create[r].site \in Sites
        /\ create[r].key \in Key
    BY <1>5, AdmissionAssumption DEF InsertSite
  <2> QED BY <1>5, <2>1 DEF InsertSite
<1>6. ASSUME NEW r \in Requests, GiveUp(r)
      PROVE  AdmissionTypeOK'
  BY <1>6 DEF GiveUp
<1>7. ASSUME NEW s \in Sites, NEW d \in {"uni", "bi"}, PatchDirection(s, d)
      PROVE  AdmissionTypeOK'
  BY <1>7 DEF PatchDirection, Key
<1>8. ASSUME NEW s \in Sites, PurgeSite(s)
      PROVE  AdmissionTypeOK'
  BY <1>8 DEF PurgeSite, SitesBut
<1>9. ASSUME NEW t \in Tenants, PurgeTenant(t)
      PROVE  AdmissionTypeOK'
  BY <1>9 DEF PurgeTenant, SitesBut
<1>10. CASE UNCHANGED avars
  BY <1>10 DEF avars
<1> QED
  BY <1>1, <1>2, <1>3, <1>4, <1>5, <1>6, <1>7, <1>8, <1>9, <1>10 DEF AdmissionNext

(* Every step keeps the bound on the overshoot. *)
LEMMA StepBound ==
  AdmissionTypeOK /\ OvershootBounded /\ [AdmissionNext]_avars => OvershootBounded'
<1> SUFFICES ASSUME AdmissionTypeOK, OvershootBounded, [AdmissionNext]_avars
             PROVE  OvershootBounded'
  OBVIOUS
<1> USE DEF Promised, AdmissionTypeOK, Idle
<1>1. ASSUME NEW r \in Requests, NEW t \in Tenants, AdmitTenant(r, t)
      PROVE  OvershootBounded'
  BY <1>1, AdmissionKeepsBound
<1>2. ASSUME NEW r \in Requests, NEW t \in Tenants, NEW s \in Sites, NEW key \in Keys,
             RequestSite(r, t, s, key)
      PROVE  Promised' \subseteq Promised
  BY <1>2 DEF RequestSite
<1>3. ASSUME NEW r \in Requests, InsertTenant(r)
      PROVE  Promised' \subseteq Promised
  BY <1>3 DEF InsertTenant
<1>4. ASSUME NEW r \in Requests, AdmitSite(r)
      PROVE  Promised' \subseteq Promised
  BY <1>4 DEF AdmitSite
<1>5. ASSUME NEW r \in Requests, InsertSite(r) \/ GiveUp(r)
      PROVE  Promised' \subseteq Promised
  BY <1>5 DEF InsertSite, GiveUp
<1>6. ASSUME NEW s \in Sites, PurgeSite(s) \/ \E d \in {"uni", "bi"} : PatchDirection(s, d)
      PROVE  Promised' \subseteq Promised
  BY <1>6 DEF PurgeSite, PatchDirection
<1>7. ASSUME NEW t \in Tenants, PurgeTenant(t)
      PROVE  Promised' \subseteq Promised
  BY <1>7 DEF PurgeTenant
<1>8. CASE UNCHANGED avars
  <2>1. Promised' \subseteq Promised
    BY <1>8 DEF avars
  <2> QED BY <2>1, ShrinkingKeepsBound
<1> QED
  BY <1>1, <1>2, <1>3, <1>4, <1>5, <1>6, <1>7, <1>8, ShrinkingKeepsBound DEF AdmissionNext

(* Every step keeps sites and checked requests on keys with a profile. *)
LEMMA StepProfiled ==
  AdmissionInv /\ [AdmissionNext]_avars => SitesProfiled' /\ CheckedProfiled'
<1> SUFFICES ASSUME AdmissionInv, [AdmissionNext]_avars
             PROVE  SitesProfiled' /\ CheckedProfiled'
  OBVIOUS
<1> USE DEF AdmissionInv, AdmissionTypeOK, SitesProfiled, CheckedProfiled, Idle
<1>1. ASSUME NEW r \in Requests, NEW t \in Tenants, AdmitTenant(r, t)
      PROVE  SitesProfiled' /\ CheckedProfiled'
  BY <1>1 DEF AdmitTenant
<1>2. ASSUME NEW r \in Requests, NEW t \in Tenants, NEW s \in Sites, NEW key \in Keys,
             RequestSite(r, t, s, key)
      PROVE  SitesProfiled' /\ CheckedProfiled'
  BY <1>2 DEF RequestSite
<1>3. ASSUME NEW r \in Requests, InsertTenant(r) \/ GiveUp(r)
      PROVE  SitesProfiled' /\ CheckedProfiled'
  BY <1>3 DEF InsertTenant, GiveUp
<1>4. ASSUME NEW r \in Requests, AdmitSite(r)
      PROVE  SitesProfiled' /\ CheckedProfiled'
  <2>1. create[r] \in [pc : {"admitSite", "insertSite"}, tenant : Tenants,
                       site : Sites, key : Keys]
    BY <1>4 DEF AdmitSite, Creations
  <2>2. [create[r] EXCEPT !.pc = "insertSite"].key = create[r].key
    BY <2>1
  <2> QED BY <1>4, <2>2 DEF AdmitSite
<1>5. ASSUME NEW r \in Requests, InsertSite(r)
      PROVE  SitesProfiled' /\ CheckedProfiled'
  BY <1>5 DEF InsertSite
<1>6. ASSUME NEW s \in Sites, NEW d \in {"uni", "bi"}, PatchDirection(s, d)
      PROVE  SitesProfiled' /\ CheckedProfiled'
  BY <1>6 DEF PatchDirection, Profiled, SiteRows, Key
<1>7. ASSUME NEW s \in Sites, PurgeSite(s)
      PROVE  SitesProfiled' /\ CheckedProfiled'
  BY <1>7 DEF PurgeSite, SitesBut
<1>8. ASSUME NEW t \in Tenants, PurgeTenant(t)
      PROVE  SitesProfiled' /\ CheckedProfiled'
  BY <1>8 DEF PurgeTenant, SitesBut
<1>9. CASE UNCHANGED avars
  BY <1>9 DEF avars
<1> QED
  BY <1>1, <1>2, <1>3, <1>4, <1>5, <1>6, <1>7, <1>8, <1>9 DEF AdmissionNext

(* The invariant holds throughout. *)
LEMMA InvHolds == AdmissionSpec => []AdmissionInv
<1>1. AdmissionInv /\ [AdmissionNext]_avars => AdmissionInv'
  BY StepTypes, StepBound, StepProfiled DEF AdmissionInv
<1> QED BY <1>1, InitInv, PTL DEF AdmissionSpec

(* However many creations race, and whatever is purged or given up in      *)
(* between, the tenants' databases exceed 85 % of the memory by at most    *)
(* one database for every other request in flight (admissionCheck and      *)
(* CreateTenant of handleCreateTenant).                                    *)
THEOREM OvershootBoundedHolds == AdmissionSpec => []OvershootBounded
<1>1. AdmissionInv => OvershootBounded
  BY DEF AdmissionInv
<1> QED BY <1>1, InvHolds, PTL

(* Every site row has a profile, so handleCapacity can always predict. *)
THEOREM SitesProfiledHolds == AdmissionSpec => []SitesProfiled
<1>1. AdmissionInv => SitesProfiled
  BY DEF AdmissionInv
<1> QED BY <1>1, InvHolds, PTL

(* Rows keep their types and every site row has its tenant: purges and     *)
(* racing inserts never leave a site behind (the foreign key of sites,     *)
(* DeleteTenant).                                                          *)
THEOREM AdmissionTyped == AdmissionSpec => []AdmissionTypeOK
<1>1. AdmissionInv => AdmissionTypeOK
  BY DEF AdmissionInv
<1> QED BY <1>1, InvHolds, PTL
====
