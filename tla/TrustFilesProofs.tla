-------------------------- MODULE TrustFilesProofs --------------------------
(***************************************************************************)
(* The certificate files of a site, for any number of concurrent ticks,    *)
(* create requests, domains, changes and faults.                           *)
(*                                                                         *)
(* Two arguments carry the module.  A torn file is owed: whoever truncated *)
(* it still holds a handle on it, and renames move the handle together     *)
(* with the file.  And as long as no two ticks are inside EnsureTrustFiles *)
(* at once, the one inside owns both .tmp files, so that what it renames   *)
(* is what it wrote and what it owes the broker is in its local variables. *)
(***************************************************************************)
EXTENDS TrustFiles, FiniteSetTheorems, TLAPS

(* The server's certificate or key, and its .tmp. *)
Pairs == [dst : Certificate, tmp : Certificate]

(* The program counter and the local variables of a tick. *)
TickRecs == [pc : {"idle", "ca", "stat", "caOpen", "caWrite", "check", "open",
                   "write", "rename", "ingestor", "leaf", "restart"},
             part : Parts, place : Places,
             domain : Domains \cup {NoDomain}, ca : 0 .. caSeq,
             cert : Certificate, rotated : BOOLEAN]

(* The same with the place of every torn .tmp. *)
TornInv ==
  faults = 0 =>
    /\ caFile = -1 => \E t \in Ticks : tick[t].pc = "caWrite"
    /\ \A p \in Parts :
         /\ file[p].dst = Torn =>
              \E t \in Ticks : tick[t].pc = "write" /\ tick[t].place = "dst" /\ tick[t].part = p
         /\ file[p].tmp = Torn =>
              \E t \in Ticks : tick[t].pc = "write" /\ tick[t].place = "tmp" /\ tick[t].part = p

(* What a tick that is alone inside EnsureTrustFiles knows of the files. *)
Owns(t) ==
  /\ tick[t].pc \in {"write", "leaf"} => tick[t].place = "tmp"
  /\ tick[t].pc = "rename" => file[tick[t].part].tmp.serial = tick[t].cert.serial
  /\ tick[t].part = "key" => file["crt"].dst.serial = tick[t].cert.serial

(* The tick inside EnsureTrustFiles is alone there. *)
OneInside == \A t, u \in Ticks : Inside(t) /\ Inside(u) => t = u

(* The pair is intact, but for a key that is still to be written. *)
PairOwed ==
  \/ file["crt"].dst.serial = file["key"].dst.serial
  \/ \E t \in Ticks : tick[t].part = "key"

(* A stale EMQX is still to be restarted. *)
RestartOwed ==
  BrokerKind = "emqx" /\ broker = "stale" =>
    \E t \in Ticks : tick[t].part = "key" \/ tick[t].rotated \/ tick[t].pc = "restart"

(* All this as long as rotations do not overlap and none is cut short. *)
AloneInv == ~disturbed => OneInside /\ (\A t \in Ticks : Owns(t)) /\ PairOwed /\ RestartOwed

-----------------------------------------------------------------------------
(* Types.                                                                  *)

(* The definition of the type invariant, by its sets. *)
LEMMA TypeParts ==
  TypesOK <=>
    /\ domain \in Domains \cup {NoDomain}
    /\ status \in {"absent", "active", "orphaned"}
    /\ caSeq \in Nat /\ caRow \in 0 .. caSeq /\ caFile \in -1 .. caSeq
    /\ create \in [Creators -> [pc : {"idle", "generate", "store"}, ca : 0 .. caSeq]]
    /\ file \in [Parts -> Pairs]
    /\ ingestor \in Certificate
    /\ tick \in [Ticks -> TickRecs]
    /\ broker \in {"none", "current", "stale"}
    /\ disturbed \in BOOLEAN /\ changes \in 0 .. MaxEvents /\ faults \in 0 .. MaxEvents
BY DEF TypesOK, Pairs, TickRecs

(* The type of a certificate grows with the CAs generated, and so do the   *)
(* types built on it.                                                      *)
LEMMA TypesGrow ==
  ASSUME caSeq \in Nat, caSeq' \in Nat, caSeq <= caSeq'
  PROVE  /\ 0 .. caSeq \subseteq (0 .. caSeq)'
         /\ Certificate \subseteq Certificate'
         /\ Pairs \subseteq Pairs'
         /\ TickRecs \subseteq TickRecs'
<1>1. 0 .. caSeq \subseteq 0 .. caSeq'
  OBVIOUS
<1>2. Certificate \subseteq Certificate'
  BY <1>1 DEF Certificate
<1>3. Pairs \subseteq Pairs'
  BY <1>2 DEF Pairs
<1>4. TickRecs \subseteq TickRecs'
  BY <1>1, <1>2 DEF TickRecs
<1> QED BY <1>1, <1>2, <1>3, <1>4

LEMMA TypesSame ==
  ASSUME UNCHANGED caSeq
  PROVE  Certificate' = Certificate /\ Pairs' = Pairs /\ TickRecs' = TickRecs
BY DEF Certificate, Pairs, TickRecs

(* An element more makes a set larger by one at most. *)
LEMMA AddOne ==
  ASSUME NEW S, IsFiniteSet(S), NEW x
  PROVE  /\ IsFiniteSet(S \cup {x}) /\ Cardinality(S \cup {x}) \in Nat
         /\ Cardinality(S) \in Nat /\ Cardinality(S \cup {x}) <= Cardinality(S) + 1
<1>1. Cardinality(S) \in Nat
  BY FS_CardinalityType
<1>2. IsFiniteSet(S \cup {x})
      /\ Cardinality(S \cup {x}) = IF x \in S THEN Cardinality(S) ELSE Cardinality(S) + 1
  BY FS_AddElement
<1> QED BY <1>1, <1>2

(* Four things make a set of at most four. *)
LEMMA FourElements ==
  ASSUME NEW a, NEW b, NEW c, NEW d
  PROVE  /\ IsFiniteSet({a, b, c, d}) /\ Cardinality({a, b, c, d}) \in Nat
         /\ Cardinality({a, b, c, d}) <= 4
<1>1. IsFiniteSet({d}) /\ Cardinality({d}) = 1
  BY FS_Singleton
<1>2. IsFiniteSet({d} \cup {c}) /\ Cardinality({d} \cup {c}) <= Cardinality({d}) + 1
      /\ Cardinality({d} \cup {c}) \in Nat
  BY <1>1, AddOne
<1>3. {d} \cup {c} = {c, d}
  OBVIOUS
<1>4. IsFiniteSet({c, d} \cup {b}) /\ Cardinality({c, d} \cup {b}) <= Cardinality({c, d}) + 1
      /\ Cardinality({c, d} \cup {b}) \in Nat
  BY <1>2, <1>3, AddOne
<1>5. {c, d} \cup {b} = {b, c, d}
  OBVIOUS
<1>6. IsFiniteSet({b, c, d} \cup {a}) /\ Cardinality({b, c, d} \cup {a}) <= Cardinality({b, c, d}) + 1
      /\ Cardinality({b, c, d} \cup {a}) \in Nat
  BY <1>4, <1>5, AddOne
<1>7. {b, c, d} \cup {a} = {a, b, c, d}
  OBVIOUS
<1> QED BY <1>1, <1>2, <1>3, <1>4, <1>5, <1>6, <1>7

(* A step that generates no CA keeps the types by keeping each variable's. *)
LEMMA TypeNext ==
  ASSUME TypesOK, UNCHANGED caSeq,
         domain' \in Domains \cup {NoDomain},
         status' \in {"absent", "active", "orphaned"},
         caRow' \in 0 .. caSeq, caFile' \in -1 .. caSeq,
         create' \in [Creators -> [pc : {"idle", "generate", "store"}, ca : 0 .. caSeq]],
         file' \in [Parts -> Pairs],
         ingestor' \in Certificate,
         tick' \in [Ticks -> TickRecs],
         broker' \in {"none", "current", "stale"},
         disturbed' \in BOOLEAN, changes' \in 0 .. MaxEvents, faults' \in 0 .. MaxEvents
  PROVE  TypesOK'
BY TypeParts, TypesSame DEF TypesOK, Pairs, TickRecs

(* A serial that nobody knows exists, because only finitely many are known. *)
LEMMA FreshIsFresh ==
  ASSUME TypesOK
  PROVE  FreshSerial \in 1 .. MaxSerial /\ FreshSerial \notin InUse
<1> DEFINE F == {file["crt"].dst.serial, file["crt"].tmp.serial,
                 file["key"].dst.serial, file["key"].tmp.serial}
           T == { tick[t].cert.serial : t \in Ticks }
           f == [t \in Ticks |-> tick[t].cert.serial]
<1>1. InUse = F \cup T
  <2>1. { file[p].dst.serial : p \in Parts } \cup { file[p].tmp.serial : p \in Parts } = F
    BY DEF Parts
  <2> HIDE DEF F
  <2> QED BY <2>1 DEF InUse
<1>2. IsFiniteSet(F) /\ Cardinality(F) \in Nat /\ Cardinality(F) <= 4
  BY FourElements
<1>3. IsFiniteSet(Ticks) /\ Cardinality(Ticks) \in Nat /\ Cardinality(Ticks) <= Cardinality(Triggers) + 1
      /\ Cardinality(Triggers) \in Nat
  <2>1. Ticks = Triggers \cup {"loop"}
    BY DEF Ticks
  <2>2. Cardinality(Triggers) \in Nat
    BY SerialAssumption, FS_CardinalityType
  <2> QED BY <2>1, <2>2, SerialAssumption, AddOne
<1>4. IsFiniteSet(T) /\ Cardinality(T) \in Nat /\ Cardinality(T) <= Cardinality(Ticks)
  <2>1. f \in Surjection(Ticks, T)
    BY DEF Surjection
  <2> HIDE DEF f, T
  <2> QED BY <2>1, <1>3, FS_Surjection, FS_CardinalityType
<1> HIDE DEF F, T
<1>5. /\ IsFiniteSet(F \cup T) /\ Cardinality(F \cup T) \in Nat
      /\ Cardinality(F \cup T) <= 4 + Cardinality(T)
  <2>1. IsFiniteSet(F \cap T)
    BY <1>2, FS_Intersection
  <2>2. Cardinality(F \cap T) \in Nat
    BY <2>1, FS_CardinalityType
  <2>3. IsFiniteSet(F \cup T) /\ Cardinality(F \cup T) = Cardinality(F) + Cardinality(T) - Cardinality(F \cap T)
    BY <1>2, <1>4, FS_Union
  <2>4. Cardinality(F \cup T) \in Nat
    BY <2>3, FS_CardinalityType
  <2> QED BY <2>2, <2>3, <2>4, <1>2, <1>4
<1>6. ~(1 .. MaxSerial \subseteq F \cup T)
  <2> SUFFICES ASSUME 1 .. MaxSerial \in SUBSET (F \cup T) PROVE FALSE
    OBVIOUS
  <2>1. Cardinality(1 .. MaxSerial) <= Cardinality(F \cup T)
    BY <1>5, FS_Subset
  <2>2. Cardinality(1 .. MaxSerial) = MaxSerial
    BY FS_Interval, SerialAssumption, <1>3
  <2> QED BY <2>1, <2>2, <1>3, <1>4, <1>5, SerialAssumption
<1>7. \E s \in 1 .. MaxSerial : s \notin InUse
  BY <1>1, <1>6
<1> QED BY <1>7 DEF FreshSerial

(* Replacing one tick's record by a sound one. *)
LEMMA MoveType ==
  ASSUME TrustTypeOK, NEW t \in Ticks, NEW rec \in TickRecs, Sound(rec), Move(t, rec)
  PROVE  /\ tick' \in [Ticks -> TickRecs]
         /\ \A u \in Ticks : Sound(tick'[u])
         /\ tick'[t] = rec /\ \A u \in Ticks \ {t} : tick'[u] = tick[u]
BY TypeParts DEF TrustTypeOK, Move

(* The constant records have their types. *)
LEMMA ConstantTypes ==
  ASSUME caSeq \in Nat
  PROVE  /\ Absent \in Certificate /\ Torn \in Certificate /\ Absent # Torn
         /\ Absent.serial = 0 /\ Torn.serial = -1
         /\ Idle \in TickRecs /\ Sound(Idle) /\ Idle.pc = "idle"
         /\ Idle.part = "crt" /\ ~Idle.rotated
         /\ NoCreate \in [pc : {"idle", "generate", "store"}, ca : 0 .. caSeq]
<1>1. 0 \in -1 .. MaxSerial /\ -1 \in -1 .. MaxSerial /\ 0 \in 0 .. caSeq
  BY SerialAssumption
<1>2. Absent \in Certificate /\ Torn \in Certificate
  BY <1>1 DEF Absent, Torn, Certificate
<1>3. Absent # Torn /\ Absent.serial = 0 /\ Torn.serial = -1
  BY DEF Absent, Torn
<1> QED BY <1>1, <1>2, <1>3 DEF Idle, NoCreate, TickRecs, Sound, Parts, Places

(* The requests, purges and expiries: no tick and no server file but the   *)
(* due mark of a certificate.                                              *)
Request ==
  \/ \E d \in Domains : CreateTenant(d)
  \/ \E c \in Creators : CreateSite(c) \/ GenerateCA(c) \/ StoreCA(c)
  \/ OrphanSite \/ PurgeSite \/ PurgeTenant \/ AgeIngestor

LEMMA RequestType ==
  ASSUME TrustTypeOK, Request
  PROVE  /\ TrustTypeOK'
         /\ UNCHANGED <<file, caFile, tick, broker, disturbed, faults>>
<1>0. UNCHANGED <<file, caFile, tick, broker, disturbed, faults>>
  BY DEF Request, CreateTenant, CreateSite, GenerateCA, StoreCA, OrphanSite, PurgeSite,
         PurgeTenant, AgeIngestor, disk, rows
<1> SUFFICES TypesOK'
  BY <1>0 DEF TrustTypeOK, Sound
<1> USE TypeParts DEF TrustTypeOK
<1> DEFINE Creates == [pc : {"idle", "generate", "store"}, ca : 0 .. caSeq]
<1>1. ASSUME NEW d \in Domains, CreateTenant(d) PROVE TypesOK'
  BY <1>1, TypeNext DEF CreateTenant, disk
<1>2. ASSUME NEW c \in Creators, CreateSite(c) PROVE TypesOK'
  <2>1. create' \in [Creators -> Creates]
    BY <1>2 DEF CreateSite
  <2> QED BY <2>1, <1>2, TypeNext DEF CreateSite, disk
<1>3. ASSUME NEW c \in Creators, GenerateCA(c) PROVE TypesOK'
  <2>1. CASE caRow # 0
    <3>1. create' \in [Creators -> Creates]
      BY <1>3, <2>1, ConstantTypes DEF GenerateCA
    <3> QED BY <3>1, <1>3, <2>1, TypeNext DEF GenerateCA, disk
  <2>2. CASE caRow = 0
    <3>1. caSeq' = caSeq + 1 /\ caSeq' \in Nat /\ caSeq <= caSeq'
      BY <1>3, <2>2 DEF GenerateCA
    <3>2. create' \in [Creators -> [pc : {"idle", "generate", "store"}, ca : 0 .. caSeq']]
      <4>1. create \in [Creators -> [pc : {"idle", "generate", "store"}, ca : 0 .. caSeq']]
        BY <3>1
      <4>2. [pc |-> "store", ca |-> caSeq'] \in [pc : {"idle", "generate", "store"}, ca : 0 .. caSeq']
        BY <3>1
      <4> QED BY <4>1, <4>2, <1>3, <2>2 DEF GenerateCA
    <3>3. file' \in [Parts -> Pairs'] /\ ingestor' \in Certificate' /\ tick' \in [Ticks -> TickRecs']
      BY <3>1, <1>3, TypesGrow DEF GenerateCA, disk
    <3>4. caRow' \in 0 .. caSeq' /\ caFile' \in -1 .. caSeq'
      BY <3>1, <1>3 DEF GenerateCA, disk
    <3> QED BY <3>1, <3>2, <3>3, <3>4, <1>3 DEF GenerateCA, TypesOK, Pairs, TickRecs
  <2> QED BY <2>1, <2>2
<1>4. ASSUME NEW c \in Creators, StoreCA(c) PROVE TypesOK'
  <2>1. create' \in [Creators -> Creates]
    BY <1>4, ConstantTypes DEF StoreCA
  <2>2. caRow' \in 0 .. caSeq
    BY <1>4 DEF StoreCA
  <2> QED BY <2>1, <2>2, <1>4, TypeNext DEF StoreCA, disk
<1>5. CASE OrphanSite \/ PurgeSite \/ PurgeTenant
  <2>1. changes' \in 0 .. MaxEvents
    BY <1>5, EventsAssumption DEF OrphanSite, PurgeSite, PurgeTenant, MoreEvents
  <2>2. caRow' \in 0 .. caSeq
    BY <1>5 DEF OrphanSite, PurgeSite, PurgeTenant
  <2> QED BY <2>1, <2>2, <1>5, TypeNext DEF OrphanSite, PurgeSite, PurgeTenant, disk
<1>6. CASE AgeIngestor
  <2>1. changes' \in 0 .. MaxEvents
    BY <1>6, EventsAssumption DEF AgeIngestor, MoreEvents
  <2>2. ingestor' \in Certificate
    BY <1>6 DEF AgeIngestor, Certificate
  <2> QED BY <2>1, <2>2, <1>6, TypeNext DEF AgeIngestor, rows
<1> QED BY <1>1, <1>2, <1>3, <1>4, <1>5, <1>6 DEF Request

(* What a fault does: it leaves the types, and it is counted. *)
LEMMA FaultType ==
  ASSUME TrustTypeOK,
         \/ \E t \in Ticks : StepFails(t)
         \/ \E c \in Creators : StoreCAFails(c)
         \/ DaemonCrash
  PROVE  TrustTypeOK' /\ disturbed' /\ faults' > 0
<1> USE TypeParts DEF TrustTypeOK
<1>1. Fault /\ UNCHANGED <<domain, status, caRow, caSeq, disk, broker, changes>>
  BY DEF StepFails, StoreCAFails, DaemonCrash, rows
<1>2. faults' \in 0 .. MaxEvents /\ faults' > 0 /\ disturbed' = TRUE
  BY <1>1, EventsAssumption DEF Fault, MoreEvents
<1>3. create' \in [Creators -> [pc : {"idle", "generate", "store"}, ca : 0 .. caSeq]]
  BY ConstantTypes DEF StepFails, StoreCAFails, DaemonCrash, rows
<1>4. tick' \in [Ticks -> TickRecs] /\ \A t \in Ticks : Sound(tick'[t])
  <2>1. ASSUME NEW t \in Ticks, StepFails(t) PROVE tick' \in [Ticks -> TickRecs] /\ \A u \in Ticks : Sound(tick'[u])
    BY <2>1, ConstantTypes, MoveType DEF StepFails
  <2>2. ASSUME NEW c \in Creators, StoreCAFails(c) PROVE tick' = tick
    BY <2>2 DEF StoreCAFails
  <2>3. CASE DaemonCrash
    BY <2>3, ConstantTypes DEF DaemonCrash
  <2> QED BY <2>1, <2>2, <2>3
<1>5. TypesOK'
  BY <1>1, <1>2, <1>3, <1>4, TypeNext DEF disk
<1> QED BY <1>2, <1>4, <1>5 DEF Sound

(* The operations on a file keep its type. *)
LEMMA FileTypes ==
  ASSUME NEW f \in Pairs, NEW c \in Certificate, NEW p
  PROVE  /\ Truncated(f, c) \in Pairs /\ Written(f, p, c) \in Pairs /\ Renamed(f, c) \in Pairs
         /\ Truncated(f, c).dst = f.dst /\ Truncated(f, c).tmp = c
         /\ Renamed(f, c).dst = f.tmp /\ Renamed(f, c).tmp = c
         /\ Written(f, p, c).dst = IF p = "dst" THEN c ELSE f.dst
         /\ Written(f, p, c).tmp = IF p = "tmp" THEN c ELSE f.tmp
BY DEF Truncated, Written, Renamed, Pairs

LEMMA AfterRenameType ==
  ASSUME NEW p \in Places
  PROVE  /\ AfterRename(p) \in Places
         /\ p = "tmp" => AfterRename(p) = "dst"
         /\ p = "closed" => AfterRename(p) = "closed"
BY DEF AfterRename, After, Places

(* What a tick writes: its certificate, or the key that goes with it. *)
Content(t) == IF tick[t].part = "crt" THEN tick[t].cert ELSE KeyOf(tick[t].cert)

LEMMA ContentType ==
  ASSUME TrustTypeOK, NEW t \in Ticks, tick[t].pc \in {"write", "rename"}
  PROVE  /\ Content(t) \in Certificate /\ Content(t).serial = tick[t].cert.serial
         /\ Content(t) # Torn /\ Content(t) # Absent
<1>1. tick[t] \in TickRecs /\ Sound(tick[t]) /\ caSeq \in Nat
  BY TypeParts DEF TrustTypeOK
<1>2. tick[t].cert \in Certificate /\ tick[t].cert.serial > 0
  BY <1>1 DEF TickRecs, Sound
<1>3. KeyOf(tick[t].cert) \in Certificate /\ KeyOf(tick[t].cert).serial = tick[t].cert.serial
  BY <1>1, <1>2, ConstantTypes DEF KeyOf, Certificate, Absent
<1>4. Content(t) \in Certificate /\ Content(t).serial = tick[t].cert.serial
  BY <1>2, <1>3 DEF Content
<1> QED BY <1>1, <1>2, <1>4, ConstantTypes DEF Certificate

(* The records the actions of a tick build. *)
LEMMA TickRecords ==
  ASSUME TrustTypeOK, NEW t \in Ticks
  PROVE  /\ \A r \in BOOLEAN : Ingestor(t, r) \in TickRecs /\ Sound(Ingestor(t, r))
         /\ \A r \in BOOLEAN : /\ Ingestor(t, r).pc = "ingestor" /\ Ingestor(t, r).rotated = r
                               /\ Ingestor(t, r).part = "crt"
         /\ AfterTrustFiles(t) \in TickRecs /\ Sound(AfterTrustFiles(t))
         /\ AfterTrustFiles(t).pc \in {"idle", "restart"}
         /\ AfterTrustFiles(t).part = "crt" /\ ~AfterTrustFiles(t).rotated
         /\ tick[t].rotated /\ BrokerKind = "emqx" => AfterTrustFiles(t).pc = "restart"
<1>1. tick[t] \in TickRecs /\ caSeq \in Nat
  BY TypeParts DEF TrustTypeOK
<1>2. /\ Idle \in TickRecs /\ Sound(Idle) /\ Idle.pc = "idle" /\ Idle.part = "crt" /\ ~Idle.rotated
  BY <1>1, ConstantTypes
<1>3. ASSUME NEW r \in BOOLEAN
      PROVE  /\ Ingestor(t, r) \in TickRecs /\ Sound(Ingestor(t, r))
             /\ Ingestor(t, r).pc = "ingestor" /\ Ingestor(t, r).rotated = r /\ Ingestor(t, r).part = "crt"
  BY <1>1, <1>2 DEF Ingestor, TickRecs, Sound
<1>4. /\ AfterTrustFiles(t) \in TickRecs /\ Sound(AfterTrustFiles(t))
      /\ AfterTrustFiles(t).pc \in {"idle", "restart"}
      /\ AfterTrustFiles(t).part = "crt" /\ ~AfterTrustFiles(t).rotated
      /\ tick[t].rotated /\ BrokerKind = "emqx" => AfterTrustFiles(t).pc = "restart"
  BY <1>2 DEF AfterTrustFiles, TickRecs, Sound
<1> QED BY <1>3, <1>4

(* A step of one tick alone that leaves the disk but ca.crt and the        *)
(* server's files.                                                         *)
LEMMA MoveStep ==
  ASSUME TrustTypeOK, NEW t \in Ticks, NEW rec \in TickRecs, Sound(rec), Move(t, rec),
         UNCHANGED <<rows, ingestor, changes, faults>>,
         caFile' \in -1 .. caSeq, file' \in [Parts -> Pairs],
         broker' \in {"none", "current", "stale"}, disturbed' \in BOOLEAN
  PROVE  TrustTypeOK'
<1>1. tick' \in [Ticks -> TickRecs] /\ \A u \in Ticks : Sound(tick'[u])
  BY MoveType
<1>2. TypesOK'
  BY <1>1, TypeParts, TypeNext DEF TrustTypeOK, rows
<1> QED BY <1>1, <1>2 DEF TrustTypeOK, Sound

LEMMA TickType ==
  ASSUME TrustTypeOK, NEW t \in Ticks, BeginTick(t) \/ Continue(t)
  PROVE  TrustTypeOK'
<1> USE DEF TrustTypeOK
<1>0. /\ tick[t] \in TickRecs /\ Sound(tick[t]) /\ caSeq \in Nat
      /\ domain \in Domains \cup {NoDomain} /\ caRow \in 0 .. caSeq /\ caFile \in -1 .. caSeq
      /\ file \in [Parts -> Pairs] /\ broker \in {"none", "current", "stale"} /\ disturbed \in BOOLEAN
      /\ ingestor \in Certificate
  BY TypeParts
<1>i. Idle \in TickRecs /\ Sound(Idle)
  BY <1>0, ConstantTypes
<1>1. CASE BeginTick(t)
  <2> DEFINE rec == IF status = "active" THEN [Idle EXCEPT !.pc = "ca", !.domain = domain] ELSE Idle
  <2>1. rec \in TickRecs /\ Sound(rec)
    BY <1>0, <1>i, ConstantTypes DEF TickRecs, Sound
  <2>2. Move(t, rec) /\ UNCHANGED <<rows, disk, broker, disturbed, changes, faults>>
    BY <1>1 DEF BeginTick
  <2> HIDE DEF rec
  <2> QED BY <2>1, <2>2, <1>0, MoveStep DEF disk
<1>2. CASE ReadCA(t)
  <2>1. CASE caRow = 0
    BY <1>2, <2>1, <1>0, <1>i, MoveStep DEF ReadCA, disk
  <2>2. CASE caRow # 0
    <3> DEFINE rec == [tick[t] EXCEPT !.pc = "stat", !.ca = caRow]
    <3>1. rec \in TickRecs /\ Sound(rec)
      BY <1>0, <1>2 DEF ReadCA, TickRecs, Sound
    <3>2. Move(t, rec) /\ UNCHANGED <<rows, disk, broker, changes, faults>>
      BY <1>2, <2>2 DEF ReadCA
    <3>3. disturbed' \in BOOLEAN
      BY <1>2, <2>2 DEF ReadCA
    <3> HIDE DEF rec
    <3> QED BY <3>1, <3>2, <3>3, <1>0, MoveStep DEF disk
  <2> QED BY <2>1, <2>2
<1>3. CASE StatCA(t) \/ OpenCA(t) \/ WriteCA(t)
  <2>1. PICK pc \in {"caOpen", "caWrite", "check"} : Move(t, [tick[t] EXCEPT !.pc = pc])
    BY <1>3 DEF StatCA, OpenCA, WriteCA
  <2> DEFINE rec == [tick[t] EXCEPT !.pc = pc]
  <2>2. rec \in TickRecs /\ Sound(rec)
    BY <1>0, <1>3 DEF StatCA, OpenCA, WriteCA, TickRecs, Sound
  <2>3. caFile' \in -1 .. caSeq
    BY <1>0, <1>3 DEF StatCA, OpenCA, WriteCA, TickRecs, disk
  <2> HIDE DEF rec
  <2> QED BY <2>1, <2>2, <2>3, <1>3, <1>0, MoveStep DEF StatCA, OpenCA, WriteCA, rec, disk
<1>4. CASE CheckServer(t)
  <2> DEFINE cert == IssueServerCert(tick[t].ca, tick[t].domain)
             rec == [tick[t] EXCEPT !.pc = "open", !.cert = cert]
  <2>1. cert \in Certificate /\ cert.serial > 0
    BY <1>0, FreshIsFresh, SerialAssumption DEF IssueServerCert, Certificate, TickRecs
  <2>2. rec \in TickRecs /\ Sound(rec)
    <3> HIDE DEF cert
    <3> QED BY <1>0, <1>4, <2>1 DEF CheckServer, TickRecs, Sound
  <2>3. Move(t, rec) \/ Move(t, Ingestor(t, FALSE))
    BY <1>4 DEF CheckServer
  <2> HIDE DEF rec
  <2> QED BY <2>2, <2>3, <1>4, <1>0, TickRecords, MoveStep DEF CheckServer, disk
<1>5. CASE OpenTmp(t)
  <2> DEFINE rec == [tick[t] EXCEPT !.pc = "write", !.place = "tmp"]
  <2>1. rec \in TickRecs /\ Sound(rec)
    BY <1>0, <1>5 DEF OpenTmp, TickRecs, Sound, Places
  <2>2. tick[t].part \in Parts
    BY <1>0 DEF TickRecs
  <2>3. file' \in [Parts -> Pairs]
    BY <1>0, <1>5, <2>2, FileTypes, ConstantTypes DEF OpenTmp
  <2>4. Move(t, rec)
    BY <1>5 DEF OpenTmp
  <2> HIDE DEF rec
  <2> QED BY <2>1, <2>3, <2>4, <1>5, <1>0, MoveStep DEF OpenTmp
<1>6. CASE WriteTmp(t)
  <2> DEFINE rec == [tick[t] EXCEPT !.pc = "rename", !.place = "closed"]
  <2>1. rec \in TickRecs /\ Sound(rec)
    BY <1>0, <1>6 DEF WriteTmp, TickRecs, Sound, Places
  <2>2. tick[t].part \in Parts
    BY <1>0 DEF TickRecs
  <2>3. file' \in [Parts -> Pairs]
    <3>1. file' = [file EXCEPT ![tick[t].part] = Written(file[tick[t].part], tick[t].place, Content(t))]
      BY <1>6 DEF WriteTmp, Content
    <3>2. Content(t) \in Certificate
      BY <1>6, ContentType DEF WriteTmp
    <3> QED BY <1>0, <3>1, <3>2, <2>2, FileTypes
  <2>4. Move(t, rec)
    BY <1>6 DEF WriteTmp
  <2>5. broker' \in {"none", "current", "stale"}
    BY <1>0, <1>6 DEF WriteTmp, KeepLoaded
  <2> HIDE DEF rec
  <2> QED BY <2>1, <2>3, <2>4, <2>5, <1>6, <1>0, MoveStep DEF WriteTmp
<1>7. CASE RenameTmp(t)
  <2>1. broker' \in {"none", "current", "stale"}
    BY <1>0, <1>7 DEF RenameTmp, KeepLoaded
  <2>2. CASE file[tick[t].part].tmp = Absent
    BY <2>1, <2>2, <1>7, <1>0, <1>i, MoveStep DEF RenameTmp
  <2>3. CASE file[tick[t].part].tmp # Absent
    <3>1. file' \in [Parts -> Pairs]
      <4>1. file' = [file EXCEPT ![tick[t].part] = Renamed(file[tick[t].part], Absent)]
        BY <1>7, <2>3 DEF RenameTmp
      <4>2. tick[t].part \in Parts
        BY <1>0 DEF TickRecs
      <4> QED BY <1>0, <4>1, <4>2, FileTypes, ConstantTypes
    <3>2. NextPart(t) \in TickRecs /\ Sound(NextPart(t))
      BY <1>0, <1>7, TickRecords DEF RenameTmp, NextPart, TickRecs, Sound, Parts
    <3>3. ASSUME NEW u \in Ticks \ {t} PROVE tick'[u] \in TickRecs /\ Sound(tick'[u])
      <4>1. tick[u] \in TickRecs /\ Sound(tick[u])
        BY TypeParts
      <4>2. tick[u].place \in Places
        BY <4>1 DEF TickRecs
      <4>3. AfterRename(tick[u].place) \in Places
        BY <4>2, AfterRenameType
      <4>4. tick'[u] = tick[u] \/ tick'[u] = [tick[u] EXCEPT !.place = AfterRename(tick[u].place)]
        BY <1>7, <2>3 DEF RenameTmp
      <4> QED BY <4>1, <4>3, <4>4 DEF TickRecs, Sound
    <3>4. tick'[t] = NextPart(t)
      BY <1>7, <2>3 DEF RenameTmp
    <3>5. tick' = [u \in Ticks |-> tick'[u]]
      BY <1>7, <2>3 DEF RenameTmp
    <3>6. tick' \in [Ticks -> TickRecs] /\ \A u \in Ticks : Sound(tick'[u])
      BY <3>2, <3>3, <3>4, <3>5
    <3>7. TypesOK'
      BY <3>1, <3>6, <2>1, <1>7, TypeParts, TypeNext DEF RenameTmp, rows
    <3> QED BY <3>6, <3>7 DEF Sound
  <2> QED BY <2>2, <2>3
<1>8. CASE CheckIngestor(t)
  <2> DEFINE rec == [tick[t] EXCEPT !.pc = "leaf", !.place = "tmp", !.cert = IssueLeafCert(tick[t].ca)]
  <2>1. IssueLeafCert(tick[t].ca) \in Certificate
    BY <1>0, SerialAssumption, FreshIsFresh DEF IssueLeafCert, Certificate, TickRecs
  <2>2. rec \in TickRecs /\ Sound(rec)
    BY <1>0, <1>8, <2>1 DEF CheckIngestor, TickRecs, Sound, Places
  <2>3. Move(t, rec) \/ Move(t, AfterTrustFiles(t))
    BY <1>8 DEF CheckIngestor
  <2> HIDE DEF rec
  <2> QED BY <2>2, <2>3, <1>8, <1>0, TickRecords, MoveStep DEF CheckIngestor, disk
<1>9. CASE WriteIngestor(t)
  <2>1. ingestor' \in Certificate
    BY <1>0, <1>9 DEF WriteIngestor, TickRecs
  <2>2. ASSUME NEW u \in Ticks PROVE tick'[u] \in TickRecs /\ Sound(tick'[u])
    <3>1. tick[u] \in TickRecs /\ Sound(tick[u])
      BY TypeParts
    <3>2. AfterRename(tick[u].place) \in Places
      BY <3>1, AfterRenameType DEF TickRecs
    <3>3. u # t => tick'[u] = tick[u] \/ tick'[u] = [tick[u] EXCEPT !.place = AfterRename(tick[u].place)]
      BY <1>9 DEF WriteIngestor
    <3>4. u = t => tick'[u] = AfterTrustFiles(t)
      BY <1>9 DEF WriteIngestor
    <3>5. CASE u = t
      BY <3>4, <3>5, TickRecords
    <3>6. CASE u # t
      BY <3>1, <3>2, <3>3, <3>6 DEF TickRecs, Sound
    <3> QED BY <3>5, <3>6
  <2>3. tick' \in [Ticks -> TickRecs]
    BY <2>2, <1>9 DEF WriteIngestor
  <2>4. TypesOK'
    BY <2>1, <2>3, <1>9, TypeParts, TypeNext DEF WriteIngestor, rows
  <2> QED BY <2>2, <2>4 DEF Sound
<1>10. CASE IngestorRace(t) \/ RestartBroker(t)
  BY <1>10, <1>0, <1>i, MoveStep DEF IngestorRace, RestartBroker, disk
<1> QED BY <1>1, <1>2, <1>3, <1>4, <1>5, <1>6, <1>7, <1>8, <1>9, <1>10 DEF Continue

(* The two steps left: an expiry, and a start of the broker. *)
LEMMA EnvironmentType ==
  ASSUME TrustTypeOK, AgeServer \/ BrokerStarts
  PROVE  TrustTypeOK'
<1> USE TypeParts DEF TrustTypeOK
<1>1. CASE AgeServer
  <2>1. changes' \in 0 .. MaxEvents
    BY <1>1, EventsAssumption DEF AgeServer, MoreEvents
  <2>2. file' \in [Parts -> Pairs]
    BY <1>1 DEF AgeServer, Pairs, Certificate, Parts
  <2>3. TypesOK'
    BY <2>1, <2>2, <1>1, TypeNext DEF AgeServer, rows
  <2> QED BY <2>3, <1>1 DEF AgeServer, Sound
<1>2. CASE BrokerStarts
  <2>1. TypesOK'
    BY <1>2, TypeNext DEF BrokerStarts, rows, disk
  <2> QED BY <2>1, <1>2 DEF BrokerStarts, Sound
<1> QED BY <1>1, <1>2

LEMMA TypeStep ==
  ASSUME TrustTypeOK, [Next]_vars
  PROVE  TrustTypeOK'
<1>1. CASE Request
  BY <1>1, RequestType
<1>2. CASE (\E t \in Ticks : StepFails(t)) \/ (\E c \in Creators : StoreCAFails(c)) \/ DaemonCrash
  BY <1>2, FaultType
<1>3. CASE \E t \in Ticks : BeginTick(t) \/ Continue(t)
  BY <1>3, TickType
<1>4. CASE AgeServer \/ BrokerStarts
  BY <1>4, EnvironmentType
<1>5. CASE UNCHANGED vars
  <2>1. TypesOK'
    BY <1>5, TypeParts, TypeNext DEF TrustTypeOK, vars, rows, disk
  <2> QED BY <2>1, <1>5 DEF TrustTypeOK, Sound, vars
<1> QED BY <1>1, <1>2, <1>3, <1>4, <1>5 DEF Next, Request

LEMMA InitType == Init => TrustTypeOK
<1> SUFFICES ASSUME Init PROVE TrustTypeOK
  OBVIOUS
<1>1. caSeq \in Nat /\ caSeq = 0
  BY DEF Init
<1>2. file \in [Parts -> Pairs] /\ ingestor \in Certificate
  BY <1>1, ConstantTypes DEF Init, Pairs
<1>3. tick \in [Ticks -> TickRecs] /\ \A t \in Ticks : Sound(tick[t])
  BY <1>1, ConstantTypes DEF Init
<1>4. create \in [Creators -> [pc : {"idle", "generate", "store"}, ca : 0 .. caSeq]]
  BY <1>1, ConstantTypes DEF Init
<1>5. domain \in Domains \cup {NoDomain} /\ caRow \in 0 .. caSeq /\ caFile \in -1 .. caSeq
  BY <1>1, DomainAssumption DEF Init
<1>6. changes \in 0 .. MaxEvents /\ faults \in 0 .. MaxEvents
  <2>1. changes = 0 /\ faults = 0
    BY DEF Init
  <2> QED BY <2>1, EventsAssumption
<1>7. disturbed \in BOOLEAN
  BY DEF Init
<1>8. TypesOK
  BY <1>1, <1>2, <1>3, <1>4, <1>5, <1>6, <1>7, TypeParts DEF Init
<1> QED BY <1>3, <1>8 DEF TrustTypeOK

-----------------------------------------------------------------------------
(* Torn files.                                                             *)

(* What a successful rename does to the files and to every tick. *)
LEMMA RenameEffect ==
  ASSUME TrustTypeOK, NEW t \in Ticks, RenameTmp(t), file[tick[t].part].tmp # Absent
  PROVE  /\ tick[t].part \in Parts
         /\ file'[tick[t].part] = [dst |-> file[tick[t].part].tmp, tmp |-> Absent]
         /\ \A q \in Parts \ {tick[t].part} : file'[q] = file[q]
         /\ tick'[t] = NextPart(t)
         /\ \A u \in Ticks \ {t} :
              tick'[u] = IF tick[u].pc = "write" /\ tick[u].part = tick[t].part
                           THEN [tick[u] EXCEPT !.place = AfterRename(tick[u].place)] ELSE tick[u]
<1>1. tick[t].part \in Parts /\ file \in [Parts -> Pairs]
  BY TypeParts DEF TrustTypeOK, TickRecs
<1>2. file' = [file EXCEPT ![tick[t].part] = Renamed(file[tick[t].part], Absent)]
  BY DEF RenameTmp
<1> QED BY <1>1, <1>2 DEF RenameTmp, Renamed

(* What a write does. *)
LEMMA WriteEffect ==
  ASSUME TrustTypeOK, NEW t \in Ticks, WriteTmp(t)
  PROVE  /\ tick[t].part \in Parts
         /\ file'[tick[t].part].dst = IF tick[t].place = "dst" THEN Content(t) ELSE file[tick[t].part].dst
         /\ file'[tick[t].part].tmp = IF tick[t].place = "tmp" THEN Content(t) ELSE file[tick[t].part].tmp
         /\ \A q \in Parts \ {tick[t].part} : file'[q] = file[q]
         /\ tick'[t] = [tick[t] EXCEPT !.pc = "rename", !.place = "closed"]
         /\ \A u \in Ticks \ {t} : tick'[u] = tick[u]
<1>1. tick[t].part \in Parts /\ file \in [Parts -> Pairs] /\ tick \in [Ticks -> TickRecs]
  BY TypeParts DEF TrustTypeOK, TickRecs
<1>2. file' = [file EXCEPT ![tick[t].part] = Written(file[tick[t].part], tick[t].place, Content(t))]
  BY DEF WriteTmp, Content
<1>3. Content(t) \in Certificate
  BY ContentType DEF WriteTmp
<1>4. file'[tick[t].part] = Written(file[tick[t].part], tick[t].place, Content(t))
  BY <1>1, <1>2
<1>5. \A q \in Parts \ {tick[t].part} : file'[q] = file[q]
  BY <1>1, <1>2
<1>6. /\ tick'[t] = [tick[t] EXCEPT !.pc = "rename", !.place = "closed"]
      /\ \A u \in Ticks \ {t} : tick'[u] = tick[u]
  BY <1>1 DEF WriteTmp, Move
<1> QED BY <1>1, <1>3, <1>4, <1>5, <1>6, FileTypes

(* Who owes the content of a torn file stays, when nobody writes. *)
LEMMA TornKept ==
  ASSUME TornInv, UNCHANGED <<caFile, file, faults>>,
         \A u \in Ticks : tick[u].pc \in {"write", "caWrite"} => tick'[u] = tick[u]
  PROVE  TornInv'
BY DEF TornInv

LEMMA TornStep ==
  ASSUME TrustTypeOK, TornInv, [Next]_vars
  PROVE  TornInv'
<1>t. tick \in [Ticks -> TickRecs] /\ file \in [Parts -> Pairs] /\ caSeq \in Nat
  BY TypeParts DEF TrustTypeOK
<1>1. CASE Request \/ UNCHANGED vars \/ BrokerStarts
  <2>1. UNCHANGED <<file, caFile, tick, faults>>
    BY <1>1, RequestType DEF vars, disk, BrokerStarts
  <2> QED BY <2>1, TornKept
<1>2. CASE (\E t \in Ticks : StepFails(t)) \/ (\E c \in Creators : StoreCAFails(c)) \/ DaemonCrash
  BY <1>2, FaultType DEF TornInv
<1>3. CASE AgeServer
  <2>1. file'["crt"].dst.serial > 0 /\ file'["crt"].tmp = file["crt"].tmp /\ file'["key"] = file["key"]
    BY <1>3, <1>t DEF AgeServer, Parts, Pairs
  <2>2. file'["crt"].dst # Torn
    BY <2>1, <1>t, ConstantTypes
  <2>3. UNCHANGED <<tick, caFile, faults>>
    BY <1>3 DEF AgeServer
  <2> QED BY <2>1, <2>2, <2>3 DEF TornInv, Parts
<1>4. ASSUME NEW t \in Ticks,
             BeginTick(t) \/ ReadCA(t) \/ StatCA(t) \/ CheckServer(t) \/ CheckIngestor(t)
               \/ IngestorRace(t) \/ RestartBroker(t)
      PROVE  TornInv'
  <2>1. UNCHANGED <<caFile, file, faults>> /\ tick[t].pc \notin {"write", "caWrite"}
    BY <1>4 DEF BeginTick, ReadCA, StatCA, CheckServer, CheckIngestor, IngestorRace, RestartBroker, disk
  <2>2. \E rec : Move(t, rec)
    BY <1>4 DEF BeginTick, ReadCA, StatCA, CheckServer, CheckIngestor, IngestorRace, RestartBroker
  <2> QED BY <2>1, <2>2, <1>t, TornKept DEF Move
<1>5. ASSUME NEW t \in Ticks, OpenCA(t) PROVE TornInv'
  <2>1. tick'[t].pc = "caWrite" /\ tick[t].pc = "caOpen"
    BY <1>5, <1>t DEF OpenCA, Move, TickRecs
  <2>2. \A u \in Ticks \ {t} : tick'[u] = tick[u]
    BY <1>5, <1>t DEF OpenCA, Move
  <2>3. UNCHANGED <<file, faults>>
    BY <1>5 DEF OpenCA
  <2>4. \A u \in Ticks : tick[u].pc = "write" => tick'[u] = tick[u]
    BY <2>1, <2>2
  <2> QED BY <2>1, <2>3, <2>4 DEF TornInv
<1>6. ASSUME NEW t \in Ticks, WriteCA(t) PROVE TornInv'
  <2>1. caFile' # -1
    BY <1>6, <1>t DEF WriteCA, TickRecs
  <2>2. \A u \in Ticks : tick[u].pc = "write" => tick'[u] = tick[u]
    BY <1>6, <1>t DEF WriteCA, Move
  <2>3. UNCHANGED <<file, faults>>
    BY <1>6 DEF WriteCA
  <2> QED BY <2>1, <2>2, <2>3 DEF TornInv
<1>7. ASSUME NEW t \in Ticks, OpenTmp(t) PROVE TornInv'
  <2>1. tick[t].pc = "open" /\ tick[t].part \in Parts
    BY <1>7, <1>t DEF OpenTmp, TickRecs
  <2>2. tick'[t].pc = "write" /\ tick'[t].place = "tmp" /\ tick'[t].part = tick[t].part
    BY <1>7, <1>t DEF OpenTmp, Move, TickRecs
  <2>3. \A u \in Ticks \ {t} : tick'[u] = tick[u]
    BY <1>7, <1>t DEF OpenTmp, Move
  <2>4. /\ \A q \in Parts : file'[q].dst = file[q].dst
        /\ \A q \in Parts \ {tick[t].part} : file'[q] = file[q]
    BY <1>7, <1>t, <2>1 DEF OpenTmp, Truncated, Pairs
  <2>5. UNCHANGED <<caFile, faults>>
    BY <1>7 DEF OpenTmp
  <2> QED BY <2>1, <2>2, <2>3, <2>4, <2>5 DEF TornInv
<1>8. ASSUME NEW t \in Ticks, WriteTmp(t) PROVE TornInv'
  <2>1. UNCHANGED <<caFile, faults>> /\ tick[t].pc = "write"
    BY <1>8 DEF WriteTmp
  <2>2. Content(t) # Torn
    BY <2>1, ContentType
  <2> DEFINE p == tick[t].part
             Owed(q) ==
               /\ file'[q].dst = Torn =>
                    \E u \in Ticks : tick'[u].pc = "write" /\ tick'[u].place = "dst" /\ tick'[u].part = q
               /\ file'[q].tmp = Torn =>
                    \E u \in Ticks : tick'[u].pc = "write" /\ tick'[u].place = "tmp" /\ tick'[u].part = q
  <2>3. /\ p \in Parts
        /\ file'[p].dst = IF tick[t].place = "dst" THEN Content(t) ELSE file[p].dst
        /\ file'[p].tmp = IF tick[t].place = "tmp" THEN Content(t) ELSE file[p].tmp
        /\ \A q \in Parts \ {p} : file'[q] = file[q]
        /\ \A u \in Ticks \ {t} : tick'[u] = tick[u]
    BY <1>8, WriteEffect
  <2> SUFFICES ASSUME faults' = 0 PROVE TornInv'
    BY DEF TornInv
  <2>4. ASSUME NEW q \in Parts, q # p PROVE Owed(q)
    BY <2>1, <2>3, <2>4 DEF TornInv
  <2>5. Owed(p)
    <3>1. file'[p].dst = Torn => file[p].dst = Torn /\ tick[t].place # "dst"
      BY <2>2, <2>3
    <3>2. file'[p].tmp = Torn => file[p].tmp = Torn /\ tick[t].place # "tmp"
      BY <2>2, <2>3
    <3> QED BY <2>1, <2>3, <3>1, <3>2 DEF TornInv
  <2>6. caFile' = -1 => \E u \in Ticks : tick'[u].pc = "caWrite"
    BY <2>1, <2>3 DEF TornInv
  <2> QED BY <2>4, <2>5, <2>6 DEF TornInv
<1>9. ASSUME NEW t \in Ticks, RenameTmp(t) PROVE TornInv'
  <2>1. UNCHANGED <<caFile, faults>> /\ tick[t].pc = "rename"
    BY <1>9 DEF RenameTmp
  <2>2. CASE file[tick[t].part].tmp = Absent
    <3>1. file' = file /\ \A u \in Ticks \ {t} : tick'[u] = tick[u]
      BY <1>9, <1>t, <2>2 DEF RenameTmp, Move
    <3> QED BY <2>1, <3>1, TornKept
  <2>3. CASE file[tick[t].part].tmp # Absent
    <3> DEFINE p == tick[t].part
    <3>1. /\ p \in Parts /\ file'[p].dst = file[p].tmp /\ file'[p].tmp = Absent
          /\ \A q \in Parts \ {p} : file'[q] = file[q]
      <4>1. /\ p \in Parts /\ file'[p] = [dst |-> file[p].tmp, tmp |-> Absent]
            /\ \A q \in Parts \ {p} : file'[q] = file[q]
        BY <1>9, <2>3, RenameEffect
      <4> QED BY <4>1
    <3>2. Absent # Torn
      BY <1>t, ConstantTypes
    <3>3. ASSUME NEW u \in Ticks \ {t}
          PROVE  /\ tick'[u].pc = tick[u].pc /\ tick'[u].part = tick[u].part
                 /\ tick[u].pc = "write" /\ tick[u].part = p /\ tick[u].place = "tmp" => tick'[u].place = "dst"
                 /\ tick[u].part # p => tick'[u].place = tick[u].place
      <4>1. tick'[u] = IF tick[u].pc = "write" /\ tick[u].part = p
                         THEN [tick[u] EXCEPT !.place = AfterRename(tick[u].place)] ELSE tick[u]
        BY <1>9, <2>3, RenameEffect
      <4>2. tick[u] \in TickRecs /\ tick[u].place \in Places
        BY <1>t DEF TickRecs
      <4>3. tick[u].place = "tmp" => AfterRename(tick[u].place) = "dst"
        BY <4>2, AfterRenameType
      <4> QED BY <4>1, <4>2, <4>3 DEF TickRecs
    <3> HIDE DEF p
    <3> SUFFICES ASSUME faults' = 0 PROVE TornInv'
      BY DEF TornInv
    <3>4. caFile' = -1 => \E u \in Ticks : tick'[u].pc = "caWrite"
      BY <2>1, <3>3 DEF TornInv
    <3>5. ASSUME NEW q \in Parts, q # p
          PROVE  /\ file'[q].dst = Torn =>
                      \E u \in Ticks : tick'[u].pc = "write" /\ tick'[u].place = "dst" /\ tick'[u].part = q
                 /\ file'[q].tmp = Torn =>
                      \E u \in Ticks : tick'[u].pc = "write" /\ tick'[u].place = "tmp" /\ tick'[u].part = q
      <4>1. file'[q] = file[q]
        BY <3>1, <3>5
      <4>2. \A u \in Ticks : tick[u].pc = "write" /\ tick[u].part = q =>
              tick'[u].pc = "write" /\ tick'[u].part = q /\ tick'[u].place = tick[u].place
        BY <2>1, <3>3, <3>5
      <4> QED BY <2>1, <4>1, <4>2 DEF TornInv
    <3>6. file'[p].dst = Torn =>
            \E u \in Ticks : tick'[u].pc = "write" /\ tick'[u].place = "dst" /\ tick'[u].part = p
      <4> SUFFICES ASSUME file'[p].dst = Torn
                   PROVE  \E u \in Ticks : tick'[u].pc = "write" /\ tick'[u].place = "dst" /\ tick'[u].part = p
        OBVIOUS
      <4>1. faults = 0 /\ file[p].tmp = Torn
        BY <2>1, <3>1
      <4>2. PICK u \in Ticks : tick[u].pc = "write" /\ tick[u].place = "tmp" /\ tick[u].part = p
        BY <3>1, <4>1 DEF TornInv
      <4> QED BY <2>1, <3>3, <4>2
    <3> QED BY <2>1, <3>1, <3>2, <3>4, <3>5, <3>6 DEF TornInv
  <2> QED BY <2>2, <2>3
<1>10. ASSUME NEW t \in Ticks, WriteIngestor(t) PROVE TornInv'
  <2>1. UNCHANGED <<caFile, file, faults>> /\ tick[t].pc = "leaf"
    BY <1>10 DEF WriteIngestor
  <2>2. \A u \in Ticks \ {t} : tick[u].pc # "leaf" => tick'[u] = tick[u]
    BY <1>10 DEF WriteIngestor
  <2> QED BY <2>1, <2>2, TornKept
<1> QED BY <1>1, <1>2, <1>3, <1>4, <1>5, <1>6, <1>7, <1>8, <1>9, <1>10 DEF Next, Continue, Request

-----------------------------------------------------------------------------
(* Rotations that do not overlap.                                          *)

(* A step of one tick that is not at the server's files. *)
LEMMA MoveAlone ==
  ASSUME TrustTypeOK, AloneInv, ~disturbed, NEW t \in Ticks, NEW rec \in TickRecs, Move(t, rec),
         UNCHANGED <<file, broker, disturbed>>,
         tick[t].part = "crt", rec.part = "crt",
         rec.pc \notin {"write", "rename"}, rec.pc = "leaf" => rec.place = "tmp",
         \/ rec.pc \in {"idle", "ca", "restart"}
         \/ \A u \in Ticks \ {t} : ~Inside(u),
         BrokerKind = "emqx" /\ (tick[t].rotated \/ tick[t].pc = "restart")
           => rec.rotated \/ rec.pc = "restart"
  PROVE  AloneInv'
<1>1. tick'[t] = rec /\ \A u \in Ticks \ {t} : tick'[u] = tick[u]
  BY TypeParts DEF TrustTypeOK, Move
<1>2. OneInside'
  BY <1>1 DEF AloneInv, OneInside, Inside
<1>3. ASSUME NEW u \in Ticks PROVE Owns(u)'
  <2>1. CASE u = t
    BY <1>1, <2>1 DEF Owns
  <2>2. CASE u # t
    BY <1>1, <2>2 DEF AloneInv, Owns
  <2> QED BY <2>1, <2>2
<1>4. PairOwed'
  BY <1>1 DEF AloneInv, PairOwed
<1>5. RestartOwed'
  BY <1>1 DEF AloneInv, RestartOwed
<1> QED BY <1>2, <1>3, <1>4, <1>5 DEF AloneInv

(* The others are outside while one tick is inside. *)
LEMMA OthersOutside ==
  ASSUME TrustTypeOK, AloneInv, ~disturbed, NEW t \in Ticks, Inside(t), NEW u \in Ticks \ {t}
  PROVE  ~Inside(u) /\ tick[u].part = "crt" /\ tick[u].pc \notin {"write", "rename", "leaf"}
<1>1. ~Inside(u)
  BY DEF AloneInv, OneInside
<1>2. Sound(tick[u])
  BY DEF TrustTypeOK
<1> QED BY <1>1, <1>2 DEF Inside, Sound

LEMMA AloneStep ==
  ASSUME TrustTypeOK, AloneInv, [Next]_vars
  PROVE  AloneInv'
<1>t. tick \in [Ticks -> TickRecs] /\ file \in [Parts -> Pairs] /\ caSeq \in Nat
  BY TypeParts DEF TrustTypeOK
<1>0. SUFFICES ASSUME ~disturbed' PROVE AloneInv'
  BY DEF AloneInv
<1>1. CASE Request \/ UNCHANGED vars
  <2>1. UNCHANGED <<file, tick, broker, disturbed>>
    BY <1>1, RequestType DEF vars, disk
  <2> QED BY <2>1 DEF AloneInv, OneInside, Inside, Owns, PairOwed, RestartOwed
<1>2. CASE (\E t \in Ticks : StepFails(t)) \/ (\E c \in Creators : StoreCAFails(c)) \/ DaemonCrash
  BY <1>0, <1>2, FaultType
<1>3. CASE AgeServer \/ BrokerStarts
  <2>1. UNCHANGED <<tick, disturbed>> /\ (broker' = broker \/ broker' = "current")
    BY <1>3 DEF AgeServer, BrokerStarts
  <2>2. \A p \in Parts : file'[p].dst.serial = file[p].dst.serial /\ file'[p].tmp = file[p].tmp
    BY <1>3, <1>t DEF AgeServer, BrokerStarts, disk, Parts, Pairs, Certificate
  <2>3. OneInside' /\ RestartOwed'
    BY <1>0, <2>1 DEF AloneInv, OneInside, Inside, RestartOwed
  <2>4. PairOwed'
    BY <1>0, <2>1, <2>2 DEF AloneInv, PairOwed, Parts
  <2>5. ASSUME NEW t \in Ticks PROVE Owns(t)'
    <3>1. tick[t].part \in Parts /\ "crt" \in Parts
      BY <1>t DEF TickRecs, Parts
    <3> QED BY <1>0, <2>1, <2>2, <3>1 DEF AloneInv, Owns
  <2> QED BY <2>3, <2>4, <2>5 DEF AloneInv
<1>4. ASSUME NEW t \in Ticks, BeginTick(t) \/ Continue(t) PROVE AloneInv'
  <2>0. ~disturbed
    BY <1>0, <1>4 DEF BeginTick, Continue, ReadCA, StatCA, OpenCA, WriteCA, CheckServer, OpenTmp, WriteTmp,
          RenameTmp, CheckIngestor, WriteIngestor, IngestorRace, RestartBroker
  <2>i. Idle \in TickRecs /\ Idle.pc = "idle" /\ Idle.part = "crt" /\ ~Idle.rotated
    BY <1>t, ConstantTypes
  <2>s. tick[t] \in TickRecs /\ Sound(tick[t]) /\ tick[t].part \in Parts
    BY <1>t DEF TrustTypeOK, TickRecs
  <2>o. ASSUME Inside(t)
        PROVE  \A u \in Ticks \ {t} : /\ ~Inside(u) /\ tick[u].part = "crt"
                                      /\ tick[u].pc \notin {"write", "rename", "leaf"}
    BY <2>o, <2>0, OthersOutside
  <2>1. CASE BeginTick(t)
    <3> DEFINE rec == IF status = "active" THEN [Idle EXCEPT !.pc = "ca", !.domain = domain] ELSE Idle
    <3>1. rec \in TickRecs /\ rec.pc \in {"idle", "ca"} /\ rec.part = "crt"
      BY <2>i, TypeParts DEF TrustTypeOK, TickRecs
    <3>2. Move(t, rec) /\ UNCHANGED <<file, broker, disturbed>> /\ tick[t].pc = "idle"
      BY <2>1 DEF BeginTick, disk
    <3>3. tick[t].part = "crt" /\ ~tick[t].rotated
      BY <3>2, <2>s DEF Sound
    <3> HIDE DEF rec
    <3> QED BY <2>0, <3>1, <3>2, <3>3, MoveAlone
  <2>2. CASE ReadCA(t)
    <3>1. tick[t].part = "crt" /\ ~tick[t].rotated /\ tick[t].pc = "ca"
      BY <2>2, <2>s DEF ReadCA, Sound
    <3>2. CASE caRow = 0
      <4>1. Move(t, Idle) /\ UNCHANGED <<file, broker, disturbed>>
        BY <2>2, <3>2 DEF ReadCA, disk
      <4> QED BY <2>0, <2>i, <3>1, <4>1, MoveAlone
    <3>3. CASE caRow # 0
      <4> DEFINE rec == [tick[t] EXCEPT !.pc = "stat", !.ca = caRow]
      <4>1. Move(t, rec) /\ UNCHANGED <<file, broker>>
        BY <2>2, <3>3 DEF ReadCA, disk
      <4>2. disturbed' = disturbed /\ \A u \in Ticks \ {t} : ~Inside(u)
        <5>1. disturbed' = (disturbed \/ \E u \in Ticks \ {t} : Inside(u))
          BY <2>2, <3>3 DEF ReadCA
        <5>2. ~\E u \in Ticks \ {t} : Inside(u)
          BY <1>0, <5>1
        <5>3. disturbed \in BOOLEAN
          BY TypeParts DEF TrustTypeOK
        <5> QED BY <2>0, <5>1, <5>2, <5>3, Zenon
      <4>3. rec \in TickRecs /\ rec.pc = "stat" /\ rec.part = "crt"
        BY <2>s, <3>1, TypeParts DEF TrustTypeOK, TickRecs
      <4> HIDE DEF rec
      <4> QED BY <2>0, <3>1, <4>1, <4>2, <4>3, MoveAlone
    <3> QED BY <3>2, <3>3
  <2>3. CASE StatCA(t) \/ OpenCA(t) \/ WriteCA(t)
    <3>1. PICK pc \in {"caOpen", "caWrite", "check"} : Move(t, [tick[t] EXCEPT !.pc = pc])
      BY <2>3 DEF StatCA, OpenCA, WriteCA
    <3> DEFINE rec == [tick[t] EXCEPT !.pc = pc]
    <3>2. /\ UNCHANGED <<file, broker, disturbed>> /\ Inside(t)
          /\ tick[t].part = "crt" /\ ~tick[t].rotated /\ tick[t].pc # "restart"
      BY <2>3, <2>s DEF StatCA, OpenCA, WriteCA, Inside, Sound, disk
    <3>3. rec \in TickRecs /\ rec.pc \in {"caOpen", "caWrite", "check"} /\ rec.part = "crt"
      BY <2>s, <3>2 DEF TickRecs
    <3>4. Move(t, rec)
      BY <3>1
    <3> HIDE DEF rec
    <3> QED BY <2>0, <2>o, <3>2, <3>3, <3>4, MoveAlone
  <2>4. CASE CheckServer(t)
    <3> DEFINE cert == IssueServerCert(tick[t].ca, tick[t].domain)
               rec == [tick[t] EXCEPT !.pc = "open", !.cert = cert]
    <3>1. /\ UNCHANGED <<file, broker, disturbed>> /\ Inside(t)
          /\ tick[t].part = "crt" /\ ~tick[t].rotated /\ tick[t].pc # "restart"
      BY <2>4, <2>s DEF CheckServer, disk, Inside, Sound
    <3>2. cert \in Certificate
      BY <2>s, <1>t, FreshIsFresh, SerialAssumption DEF TrustTypeOK, IssueServerCert, Certificate, TickRecs
    <3>3. rec \in TickRecs /\ rec.pc = "open" /\ rec.part = "crt"
      <4> HIDE DEF cert
      <4> QED BY <2>s, <3>1, <3>2 DEF TickRecs
    <3>4. Move(t, rec) \/ Move(t, Ingestor(t, FALSE))
      BY <2>4 DEF CheckServer
    <3>5. Ingestor(t, FALSE) \in TickRecs /\ Ingestor(t, FALSE).pc = "ingestor" /\ Ingestor(t, FALSE).part = "crt"
      BY TickRecords
    <3> HIDE DEF rec
    <3>6. CASE Move(t, rec)
      BY <2>0, <2>o, <3>1, <3>3, <3>6, MoveAlone
    <3>7. CASE Move(t, Ingestor(t, FALSE))
      BY <2>0, <2>o, <3>1, <3>5, <3>7, MoveAlone
    <3> QED BY <3>4, <3>6, <3>7
  <2>5. CASE OpenTmp(t)
    <3>1. Inside(t) /\ tick[t].pc = "open" /\ UNCHANGED <<broker, disturbed>>
      BY <2>5 DEF OpenTmp, Inside
    <3>2. /\ tick'[t].pc = "write" /\ tick'[t].place = "tmp" /\ tick'[t].part = tick[t].part
          /\ tick'[t].cert = tick[t].cert
      BY <2>5, <1>t, <2>s DEF OpenTmp, Move, TickRecs
    <3>3. \A u \in Ticks \ {t} : tick'[u] = tick[u]
      BY <2>5, <1>t DEF OpenTmp, Move
    <3>4. \A q \in Parts : file'[q].dst = file[q].dst
      BY <2>5, <1>t, <2>s DEF OpenTmp, Truncated, Pairs
    <3>5. OneInside'
      BY <2>o, <3>1, <3>3 DEF OneInside, Inside
    <3>6. ASSUME NEW u \in Ticks PROVE Owns(u)'
      <4>1. CASE u = t
        BY <2>0, <3>2, <3>4, <4>1 DEF AloneInv, Owns, Parts
      <4>2. CASE u # t
        BY <2>o, <3>1, <3>3, <4>2 DEF Owns
      <4> QED BY <4>1, <4>2
    <3>7. PairOwed'
      BY <2>0, <3>2, <3>3, <3>4 DEF AloneInv, PairOwed, Parts
    <3>8. RestartOwed'
      <4>1. ~tick[t].rotated
        BY <2>s, <3>1 DEF Sound
      <4> QED BY <2>0, <3>1, <3>2, <3>3, <4>1 DEF AloneInv, RestartOwed
    <3> QED BY <3>5, <3>6, <3>7, <3>8 DEF AloneInv
  <2>6. CASE WriteTmp(t)
    <3>1. Inside(t) /\ tick[t].pc = "write" /\ UNCHANGED disturbed /\ tick[t].place = "tmp"
      BY <2>0, <2>6 DEF WriteTmp, Inside, AloneInv, Owns
    <3>2. tick'[t] = [tick[t] EXCEPT !.pc = "rename", !.place = "closed"]
          /\ \A u \in Ticks \ {t} : tick'[u] = tick[u]
      BY <2>6, WriteEffect
    <3>3. /\ tick'[t].pc = "rename" /\ tick'[t].part = tick[t].part /\ tick'[t].cert = tick[t].cert
      BY <2>s, <3>2 DEF TickRecs
    <3>4. /\ \A q \in Parts : file'[q].dst = file[q].dst
          /\ file'[tick[t].part].tmp.serial = tick[t].cert.serial
      <4>1. Content(t).serial = tick[t].cert.serial
        BY <3>1, ContentType
      <4> QED BY <2>6, <3>1, <4>1, WriteEffect
    <3>5. broker' = broker
      BY <2>6, <3>4 DEF WriteTmp, KeepLoaded
    <3>6. OneInside'
      BY <2>o, <3>1, <3>2 DEF OneInside, Inside
    <3>7. ASSUME NEW u \in Ticks PROVE Owns(u)'
      <4>1. CASE u = t
        BY <2>0, <3>3, <3>4, <4>1 DEF AloneInv, Owns, Parts
      <4>2. CASE u # t
        BY <2>o, <3>1, <3>2, <4>2 DEF Owns
      <4> QED BY <4>1, <4>2
    <3>8. PairOwed'
      BY <2>0, <3>2, <3>3, <3>4 DEF AloneInv, PairOwed, Parts
    <3>9. RestartOwed'
      <4>1. ~tick[t].rotated
        BY <2>s, <3>1 DEF Sound
      <4>2. SUFFICES ASSUME BrokerKind = "emqx", broker' = "stale"
                     PROVE  \E u \in Ticks : tick'[u].part = "key" \/ tick'[u].rotated \/ tick'[u].pc = "restart"
        BY DEF RestartOwed
      <4>3. PICK u \in Ticks : tick[u].part = "key" \/ tick[u].rotated \/ tick[u].pc = "restart"
        BY <2>0, <3>5, <4>2 DEF AloneInv, RestartOwed
      <4>4. CASE u = t
        BY <3>1, <3>3, <4>1, <4>3, <4>4
      <4>5. CASE u # t
        BY <3>2, <4>3, <4>5
      <4> QED BY <4>4, <4>5
    <3> QED BY <3>6, <3>7, <3>8, <3>9 DEF AloneInv
  <2>7. CASE RenameTmp(t)
    <3> DEFINE p == tick[t].part
    <3>1. Inside(t) /\ tick[t].pc = "rename" /\ UNCHANGED disturbed
      BY <2>7 DEF RenameTmp, Inside
    <3>2. file[p].tmp.serial = tick[t].cert.serial /\ tick[t].cert.serial > 0
      BY <2>0, <2>s, <3>1 DEF AloneInv, Owns, Sound
    <3>3. file[p].tmp # Absent
      BY <3>2, <1>t, ConstantTypes
    <3>4. /\ file'[p].dst = file[p].tmp /\ \A q \in Parts \ {p} : file'[q] = file[q]
          /\ tick'[t] = NextPart(t)
      <4>1. /\ file'[p] = [dst |-> file[p].tmp, tmp |-> Absent] /\ \A q \in Parts \ {p} : file'[q] = file[q]
            /\ tick'[t] = NextPart(t)
        BY <2>7, <3>3, RenameEffect
      <4> QED BY <4>1
    <3>5. \A u \in Ticks \ {t} : tick'[u] = tick[u]
      BY <2>7, <2>o, <3>1, <3>3, RenameEffect
    <3>6. CASE p = "crt"
      <4>1. /\ tick'[t].pc = "open" /\ tick'[t].part = "key" /\ tick'[t].cert = tick[t].cert
        BY <2>s, <3>4, <3>6 DEF NextPart, TickRecs
      <4>2. file'["crt"].dst.serial = tick[t].cert.serial
        BY <3>2, <3>4, <3>6
      <4>3. OneInside'
        BY <2>o, <3>1, <3>5 DEF OneInside, Inside
      <4>4. ASSUME NEW u \in Ticks PROVE Owns(u)'
        <5>1. CASE u = t
          BY <4>1, <4>2, <5>1 DEF Owns
        <5>2. CASE u # t
          BY <2>o, <3>1, <3>5, <5>2 DEF Owns
        <5> QED BY <5>1, <5>2
      <4>5. PairOwed' /\ RestartOwed'
        BY <4>1 DEF PairOwed, RestartOwed
      <4> QED BY <4>3, <4>4, <4>5 DEF AloneInv
    <3>7. CASE p # "crt"
      <4>0. p = "key" /\ "crt" \in Parts \ {p}
        BY <2>s, <3>7 DEF Parts
      <4>1. tick'[t].pc = "ingestor" /\ tick'[t].part = "crt" /\ tick'[t].rotated
        BY <3>4, <3>7, TickRecords DEF NextPart
      <4>2. file'["crt"].dst.serial = file'["key"].dst.serial
        BY <2>0, <3>2, <3>4, <4>0 DEF AloneInv, Owns
      <4>3. OneInside'
        BY <2>o, <3>1, <3>5 DEF OneInside, Inside
      <4>4. ASSUME NEW u \in Ticks PROVE Owns(u)'
        <5>1. CASE u = t
          BY <4>1, <5>1 DEF Owns
        <5>2. CASE u # t
          BY <2>o, <3>1, <3>5, <5>2 DEF Owns
        <5> QED BY <5>1, <5>2
      <4>5. PairOwed' /\ RestartOwed'
        BY <4>1, <4>2 DEF PairOwed, RestartOwed
      <4> QED BY <4>3, <4>4, <4>5 DEF AloneInv
    <3> QED BY <3>6, <3>7
  <2>8. CASE CheckIngestor(t)
    <3> DEFINE rec == [tick[t] EXCEPT !.pc = "leaf", !.place = "tmp", !.cert = IssueLeafCert(tick[t].ca)]
    <3>1. /\ UNCHANGED <<file, broker, disturbed>> /\ Inside(t)
          /\ tick[t].part = "crt" /\ tick[t].pc = "ingestor"
      BY <2>8, <2>s DEF CheckIngestor, disk, Inside, Sound
    <3>2. IssueLeafCert(tick[t].ca) \in Certificate
      BY <2>s, <1>t, SerialAssumption, FreshIsFresh DEF TrustTypeOK, IssueLeafCert, Certificate, TickRecs
    <3>3. /\ rec \in TickRecs /\ rec.pc = "leaf" /\ rec.place = "tmp" /\ rec.part = "crt"
          /\ rec.rotated = tick[t].rotated
      BY <2>s, <3>1, <3>2 DEF TickRecs, Places
    <3>4. Move(t, rec) \/ Move(t, AfterTrustFiles(t))
      BY <2>8 DEF CheckIngestor
    <3>5. /\ AfterTrustFiles(t) \in TickRecs /\ AfterTrustFiles(t).pc \in {"idle", "restart"}
          /\ AfterTrustFiles(t).part = "crt"
          /\ tick[t].rotated /\ BrokerKind = "emqx" => AfterTrustFiles(t).pc = "restart"
      BY TickRecords
    <3> HIDE DEF rec
    <3>6. CASE Move(t, rec)
      BY <2>0, <2>o, <3>1, <3>3, <3>6, MoveAlone
    <3>7. CASE Move(t, AfterTrustFiles(t))
      BY <2>0, <3>1, <3>5, <3>7, MoveAlone
    <3> QED BY <3>4, <3>6, <3>7
  <2>9. CASE WriteIngestor(t)
    <3>1. /\ UNCHANGED <<file, broker, disturbed>> /\ Inside(t)
          /\ tick[t].part = "crt" /\ tick[t].pc = "leaf"
      BY <2>9, <2>s DEF WriteIngestor, Inside, Sound
    <3>2. Move(t, AfterTrustFiles(t))
      <4>1. \A u \in Ticks \ {t} : tick'[u] = tick[u]
        BY <2>9, <2>o, <3>1 DEF WriteIngestor
      <4>2. tick'[t] = AfterTrustFiles(t) /\ tick' = [u \in Ticks |-> tick'[u]]
        BY <2>9 DEF WriteIngestor
      <4> QED BY <4>1, <4>2, <1>t DEF Move
    <3>3. /\ AfterTrustFiles(t) \in TickRecs /\ AfterTrustFiles(t).pc \in {"idle", "restart"}
          /\ AfterTrustFiles(t).part = "crt"
          /\ tick[t].rotated /\ BrokerKind = "emqx" => AfterTrustFiles(t).pc = "restart"
      BY TickRecords
    <3> QED BY <2>0, <3>1, <3>2, <3>3, MoveAlone
  <2>10. CASE IngestorRace(t)
    BY <2>0, <2>10 DEF IngestorRace, AloneInv, Owns
  <2>11. CASE RestartBroker(t)
    <3>1. UNCHANGED <<file, disturbed>> /\ broker' # "stale" /\ tick[t].pc = "restart"
      BY <2>11 DEF RestartBroker, disk
    <3>2. tick'[t] = Idle /\ \A u \in Ticks \ {t} : tick'[u] = tick[u]
      BY <2>11, <1>t DEF RestartBroker, Move
    <3>3. tick[t].part = "crt"
      BY <2>s, <3>1 DEF Sound
    <3>4. OneInside' /\ PairOwed' /\ RestartOwed'
      BY <2>0, <2>i, <3>1, <3>2, <3>3 DEF AloneInv, OneInside, Inside, PairOwed, RestartOwed
    <3>5. ASSUME NEW u \in Ticks PROVE Owns(u)'
      <4>1. CASE u = t
        BY <2>i, <3>2, <4>1 DEF Owns
      <4>2. CASE u # t
        BY <2>0, <3>1, <3>2, <4>2 DEF AloneInv, Owns
      <4> QED BY <4>1, <4>2
    <3> QED BY <3>4, <3>5 DEF AloneInv
  <2> QED BY <1>4, <2>1, <2>2, <2>3, <2>4, <2>5, <2>6, <2>7, <2>8, <2>9, <2>10, <2>11 DEF Continue
<1> QED BY <1>1, <1>2, <1>3, <1>4 DEF Next, Request

-----------------------------------------------------------------------------
(* The results.                                                            *)

LEMMA InitInv == Init => TrustTypeOK /\ TornInv /\ AloneInv
<1> SUFFICES ASSUME Init PROVE TrustTypeOK /\ TornInv /\ AloneInv
  OBVIOUS
<1>1. TrustTypeOK /\ caSeq \in Nat
  BY InitType DEF Init
<1>2. \A p \in Parts : file[p].dst = Absent /\ file[p].tmp = Absent
  BY DEF Init
<1>3. TornInv
  BY <1>1, <1>2, ConstantTypes DEF Init, TornInv
<1>4. \A t \in Ticks : tick[t] = Idle
  BY DEF Init
<1>5. OneInside /\ \A t \in Ticks : Owns(t)
  BY <1>1, <1>4, ConstantTypes DEF OneInside, Inside, Owns
<1>6. PairOwed /\ RestartOwed
  BY <1>2 DEF Init, PairOwed, RestartOwed, Parts
<1> QED BY <1>1, <1>3, <1>5, <1>6 DEF AloneInv

LEMMA TrustInductive == Spec => [](TrustTypeOK /\ TornInv /\ AloneInv)
<1>1. TrustTypeOK /\ TornInv /\ AloneInv /\ [Next]_vars => (TrustTypeOK /\ TornInv /\ AloneInv)'
  BY TypeStep, TornStep, AloneStep
<1> QED BY InitInv, <1>1, PTL DEF Spec

(* Every variable of TrustFiles keeps its type, so that a rotation always  *)
(* finds a serial that no file and no other tick has, and the local        *)
(* variables of every tick of EnsureTrustFiles fit together.               *)
THEOREM TypeCorrect == Spec => []TrustTypeOK
BY TrustInductive, PTL

(* Without a crash or a failed write a torn ca.crt, server.crt or          *)
(* server.key always has a writer that is about to fill it, however many   *)
(* ticks share the .tmp name in writePEM.                                  *)
THEOREM TornFilesHaveWriters == Spec => []TornHasWriter
<1>1. TornInv => TornHasWriter
  BY DEF TornInv, TornHasWriter
<1> QED BY <1>1, TrustInductive, PTL

(* Rotations that do not overlap and are not cut short never leave a       *)
(* server certificate with another certificate's key.                      *)
THEOREM PairStaysIntact == Spec => []PairIntact
<1>1. TrustTypeOK /\ AloneInv => PairIntact
  <2> SUFFICES ASSUME TrustTypeOK, AloneInv, ~disturbed,
                      file["crt"].dst.serial # file["key"].dst.serial
               PROVE  \E t \in Ticks : Inside(t) /\ tick[t].part = "key"
    BY DEF PairIntact
  <2>1. PICK t \in Ticks : tick[t].part = "key"
    BY DEF AloneInv, PairOwed
  <2>2. Sound(tick[t])
    BY DEF TrustTypeOK
  <2> QED BY <2>1, <2>2 DEF Sound, Inside
<1> QED BY <1>1, TrustInductive, PTL

(* Under the same condition an EMQX broker has loaded the pair on disk     *)
(* whenever no tick is running.                                            *)
THEOREM BrokerIsReloaded == Spec => []BrokerReloaded
<1>1. TrustTypeOK /\ AloneInv => BrokerReloaded
  <2> SUFFICES ASSUME TrustTypeOK, AloneInv, ~disturbed, BrokerKind = "emqx", broker = "stale",
                      \A t \in Ticks : tick[t].pc = "idle"
               PROVE  FALSE
    BY DEF BrokerReloaded
  <2>1. PICK t \in Ticks : tick[t].part = "key" \/ tick[t].rotated \/ tick[t].pc = "restart"
    BY DEF AloneInv, RestartOwed
  <2>2. Sound(tick[t]) /\ tick[t].pc = "idle"
    BY DEF TrustTypeOK
  <2> QED BY <2>1, <2>2 DEF Sound
<1> QED BY <1>1, TrustInductive, PTL
====
