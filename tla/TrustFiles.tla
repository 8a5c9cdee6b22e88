----------------------------- MODULE TrustFiles -----------------------------
(***************************************************************************)
(* The certificate files of one site: the CA that handleCreateSite stores, *)
(* the rotation that ensureAllTrustFiles and EnsureTrustFiles run on every *)
(* tick of the reconciler, and the broker that reads the files when its    *)
(* container starts.                                                       *)
(*                                                                         *)
(* Several ticks may run at once: the loop's own and one goroutine per     *)
(* Trigger.  Handlers this module leaves out (start, stop, apply, PATCH)   *)
(* trigger ticks too, so a trigger tick may begin at any time.             *)
(*                                                                         *)
(* A certificate is the record of what NeedsRotation reads of it; its key  *)
(* is known by the serial of the certificate it was generated with.  The   *)
(* server's two files are followed write by write; the ingestor's go       *)
(* through the same writePEM and are replaced in one step, of which only   *)
(* the certificate and the failure of its renames are kept.                *)
(***************************************************************************)
EXTENDS Integers, FiniteSets, TempFile

CONSTANTS
  Triggers,     \* slots for triggered ticks; the loop is one more tick
  Creators,     \* create-site requests that may be in flight together
  Domains,      \* tenant domains
  Domain0,      \* the domain the tenant starts with
  NoDomain,     \* no tenant row
  BrokerKind,   \* "emqx" or "mosquitto"
  MaxSerial,    \* certificates that may be told apart at one time
  MaxEvents     \* changes (purges, removals, expiries) and faults together

ASSUME DomainAssumption == Domain0 \in Domains /\ NoDomain \notin Domains
ASSUME EventsAssumption == MaxEvents \in Nat

(* There is always a serial left: the two files and their .tmp know four,  *)
(* and each tick one.                                                      *)
ASSUME SerialAssumption ==
  /\ IsFiniteSet(Triggers)
  /\ MaxSerial \in Nat /\ MaxSerial > Cardinality(Triggers) + 5

Ticks == {"loop"} \cup Triggers
Parts == {"crt", "key"}

VARIABLES
  domain,       \* tenant row: its domain, or NoDomain
  status,       \* site row: "absent", "active" or "orphaned"
  caRow,        \* cas row: generation of the stored CA, 0 when there is none
  caSeq,        \* generations handed out by GenerateCA
  create,       \* create[c]: a create request between its steps, and its CA
  caFile,       \* ca.crt: 0 missing, -1 torn, else a generation
  file,         \* server.crt and server.key: the file on disk and its .tmp
  ingestor,     \* ingestor.crt
  tick,         \* tick[t]: where a tick is, and its local variables
  broker,       \* "none", or the pair it has loaded is "current" or "stale"
  disturbed,    \* ticks overlapped in EnsureTrustFiles, or one was cut short
  changes,      \* purges, removals and expiries so far
  faults        \* crashes, failed writes and failed restarts so far

rows == <<domain, status, caRow, caSeq, create>>
disk == <<caFile, file, ingestor>>
vars == <<rows, disk, tick, broker, disturbed, changes, faults>>

Absent == [serial |-> 0,  ca |-> 0, san |-> NoDomain, due |-> FALSE]
Torn   == [serial |-> -1, ca |-> 0, san |-> NoDomain, due |-> FALSE]
KeyOf(cert) == [Absent EXCEPT !.serial = cert.serial]

Idle == [pc |-> "idle", part |-> "crt", place |-> "closed",
         domain |-> NoDomain, ca |-> 0, cert |-> Absent, rotated |-> FALSE]
NoCreate == [pc |-> "idle", ca |-> 0]

Init ==
  /\ domain = Domain0 /\ status = "absent" /\ caRow = 0 /\ caSeq = 0
  /\ create = [c \in Creators |-> NoCreate]
  /\ caFile = 0
  /\ file = [p \in Parts |-> [dst |-> Absent, tmp |-> Absent]]
  /\ ingestor = Absent
  /\ tick = [t \in Ticks |-> Idle]
  /\ broker = "none"
  /\ disturbed = FALSE /\ changes = 0 /\ faults = 0

MoreEvents == changes + faults < MaxEvents

-----------------------------------------------------------------------------
(* The registry rows and the handlers that change them.                    *)

(* handleCreateTenant; the domain is never updated afterwards.             *)
CreateTenant(d) ==
  /\ domain = NoDomain
  /\ domain' = d
  /\ UNCHANGED <<status, caRow, caSeq, create, disk, tick, broker, disturbed, changes, faults>>

(* handleCreateSite: the row is inserted ... *)
CreateSite(c) ==
  /\ create[c] = NoCreate /\ domain # NoDomain /\ status = "absent"
  /\ status' = "active"
  /\ create' = [create EXCEPT ![c].pc = "generate"]
  /\ UNCHANGED <<domain, caRow, caSeq, disk, tick, broker, disturbed, changes, faults>>

(* ... GenerateCA when GetCACert finds none ... *)
GenerateCA(c) ==
  /\ create[c].pc = "generate"
  /\ IF caRow # 0
       THEN create' = [create EXCEPT ![c] = NoCreate] /\ UNCHANGED caSeq
       ELSE /\ caSeq' = caSeq + 1
            /\ create' = [create EXCEPT ![c] = [pc |-> "store", ca |-> caSeq']]
  /\ UNCHANGED <<domain, status, caRow, disk, tick, broker, disturbed, changes, faults>>

(* ... StoreCACert: an upsert, refused by the foreign key when the site row is *)
(* gone.  A failure is only logged.                                        *)
StoreCA(c) ==
  /\ create[c].pc = "store"
  /\ create' = [create EXCEPT ![c] = NoCreate]
  /\ caRow' = IF status = "absent" THEN 0 ELSE create[c].ca
  /\ UNCHANGED <<domain, status, caSeq, disk, tick, broker, disturbed, changes, faults>>

(* handleDeleteSite without purge. *)
OrphanSite ==
  /\ status = "active" /\ MoreEvents
  /\ status' = "orphaned" /\ changes' = changes + 1
  /\ UNCHANGED <<domain, caRow, caSeq, create, disk, tick, broker, disturbed, faults>>

(* DeleteSite(purge): the CA row goes with the site row, the files stay. *)
PurgeSite ==
  /\ status # "absent" /\ MoreEvents
  /\ status' = "absent" /\ caRow' = 0 /\ changes' = changes + 1
  /\ UNCHANGED <<domain, caSeq, create, disk, tick, broker, disturbed, faults>>

(* DeleteTenant(purge): one transaction over its sites and the tenant. *)
PurgeTenant ==
  /\ domain # NoDomain /\ MoreEvents
  /\ domain' = NoDomain /\ status' = "absent" /\ caRow' = 0 /\ changes' = changes + 1
  /\ UNCHANGED <<caSeq, create, disk, tick, broker, disturbed, faults>>

(* A certificate on disk comes within renewWindowDays of its end. *)
AgeServer ==
  /\ file["crt"].dst.serial > 0 /\ ~file["crt"].dst.due /\ MoreEvents
  /\ file' = [file EXCEPT !["crt"].dst.due = TRUE]
  /\ changes' = changes + 1
  /\ UNCHANGED <<rows, caFile, ingestor, tick, broker, disturbed, faults>>

AgeIngestor ==
  /\ ingestor.serial > 0 /\ ~ingestor.due /\ MoreEvents
  /\ ingestor' = [ingestor EXCEPT !.due = TRUE]
  /\ changes' = changes + 1
  /\ UNCHANGED <<rows, caFile, file, tick, broker, disturbed, faults>>

-----------------------------------------------------------------------------
(* Issuing and judging certificates.                                       *)

(* ExtKeyUsage of IssueServerCert and IssueLeafCert. *)
Usages(k) == IF k = "server" THEN {"ServerAuth", "ClientAuth"} ELSE {"ClientAuth"}

(* cert.Verify with no KeyUsages asks for ServerAuth. *)
Verifies(k, cert, ca) == cert.ca = ca /\ "ServerAuth" \in Usages(k)

(* Mutant: without the comparison of the names. *)
NeedsRotationNoSAN(k, cert, ca, san) ==
  cert.serial <= 0 \/ ~Verifies(k, cert, ca) \/ cert.due

NeedsRotation(k, cert, ca, san) ==
  \/ cert.serial <= 0                    \* missing, or not a certificate
  \/ ~Verifies(k, cert, ca)
  \/ cert.due
  \/ k = "server" /\ cert.san # san

(* A random serial: one that no server file and no tick still knows. *)
InUse == { file[p].dst.serial : p \in Parts } \cup { file[p].tmp.serial : p \in Parts }
           \cup { tick[t].cert.serial : t \in Ticks }
FreshSerial == CHOOSE s \in 1 .. MaxSerial : s \notin InUse

(* loadCA of the tick's snapshot, then IssueServerCert ... *)
IssueServerCert(ca, san) == [serial |-> FreshSerial, ca |-> ca, san |-> san, due |-> FALSE]

(* ... or IssueLeafCert, whose serial nobody compares. *)
IssueLeafCert(ca) == [serial |-> 1, ca |-> ca, san |-> NoDomain, due |-> FALSE]

-----------------------------------------------------------------------------
(* One tick.                                                               *)

Inside(t) == tick[t].pc \in {"stat", "caOpen", "caWrite", "check", "open", "write", "rename",
                             "ingestor", "leaf"}

Move(t, rec) == tick' = [tick EXCEPT ![t] = rec]

(* The broker keeps what it has loaded when a server file is replaced. *)
KeepLoaded(old, new) ==
  IF broker = "current" /\ \E p \in Parts : old[p].dst # new[p].dst
    THEN "stale" ELSE broker

(* ListAllSites, the status test and GetTenant: only active sites count. *)
BeginTick(t) ==
  /\ tick[t].pc = "idle"
  /\ Move(t, IF status = "active" THEN [Idle EXCEPT !.pc = "ca", !.domain = domain] ELSE Idle)
  /\ UNCHANGED <<rows, disk, broker, disturbed, changes, faults>>

(* GetCACert; a site without a CA is skipped. *)
ReadCA(t) ==
  /\ tick[t].pc = "ca"
  /\ IF caRow = 0
       THEN Move(t, Idle) /\ UNCHANGED disturbed
       ELSE /\ Move(t, [tick[t] EXCEPT !.pc = "stat", !.ca = caRow])
            /\ disturbed' = (disturbed \/ \E u \in Ticks \ {t} : Inside(u))
  /\ UNCHANGED <<rows, disk, broker, changes, faults>>

(* os.Stat(ca.crt): whether it is missing, at this moment. *)
StatCA(t) ==
  /\ tick[t].pc = "stat"
  /\ Move(t, [tick[t] EXCEPT !.pc = IF caFile = 0 THEN "caOpen" ELSE "check"])
  /\ UNCHANGED <<rows, disk, broker, disturbed, changes, faults>>

(* When it was, os.WriteFile creates it, or truncates what another tick     *)
(* has written since ...                                                    *)
OpenCA(t) ==
  /\ tick[t].pc = "caOpen"
  /\ Move(t, [tick[t] EXCEPT !.pc = "caWrite"])
  /\ caFile' = -1
  /\ UNCHANGED <<rows, file, ingestor, broker, disturbed, changes, faults>>

(* ... and fills it. *)
WriteCA(t) ==
  /\ tick[t].pc = "caWrite"
  /\ Move(t, [tick[t] EXCEPT !.pc = "check"])
  /\ caFile' = tick[t].ca
  /\ UNCHANGED <<rows, file, ingestor, broker, disturbed, changes, faults>>

(* Mutant: the result does not say that the server was rotated. *)
IngestorForgets(t, rotated) == [Idle EXCEPT !.pc = "ingestor", !.ca = tick[t].ca]

(* Once the server's files are as they should be: the ingestor's. *)
Ingestor(t, rotated) == [Idle EXCEPT !.pc = "ingestor", !.ca = tick[t].ca, !.rotated = rotated]

(* NeedsRotation of the certificate now on disk, judged by the snapshot. *)
CheckServer(t) ==
  /\ tick[t].pc = "check"
  /\ Move(t, IF NeedsRotation("server", file["crt"].dst, tick[t].ca, tick[t].domain)
               THEN [tick[t] EXCEPT !.pc = "open",
                                    !.cert = IssueServerCert(tick[t].ca, tick[t].domain)]
               ELSE Ingestor(t, FALSE))
  /\ UNCHANGED <<rows, disk, broker, disturbed, changes, faults>>

(* writePEM, first half of os.WriteFile: open and truncate the .tmp file. *)
OpenTmp(t) ==
  /\ tick[t].pc = "open"
  /\ file' = [file EXCEPT ![tick[t].part] = Truncated(@, Torn)]
  /\ Move(t, [tick[t] EXCEPT !.pc = "write", !.place = "tmp"])
  /\ UNCHANGED <<rows, caFile, ingestor, broker, disturbed, changes, faults>>

(* Mutant: the content is written to whatever has the temporary name. *)
WriteByName(t) ==
  LET p == tick[t].part
      content == IF p = "crt" THEN tick[t].cert ELSE KeyOf(tick[t].cert) IN
  /\ tick[t].pc = "write"
  /\ file' = [file EXCEPT ![p] = Written(@, "tmp", content)]
  /\ Move(t, [tick[t] EXCEPT !.pc = "rename", !.place = "closed"])
  /\ broker' = KeepLoaded(file, file')
  /\ UNCHANGED <<rows, caFile, ingestor, disturbed, changes, faults>>

(* Second half: one write, through the handle.  Two PEM files written from *)
(* offset 0 leave the last one to be decoded.                              *)
WriteTmp(t) ==
  LET p == tick[t].part
      content == IF p = "crt" THEN tick[t].cert ELSE KeyOf(tick[t].cert) IN
  /\ tick[t].pc = "write"
  /\ file' = [file EXCEPT ![p] = Written(@, tick[t].place, content)]
  /\ Move(t, [tick[t] EXCEPT !.pc = "rename", !.place = "closed"])
  /\ broker' = KeepLoaded(file, file')
  /\ UNCHANGED <<rows, caFile, ingestor, disturbed, changes, faults>>

(* Mutant: ServerRotated is set before the key is written. *)
NextPartEarly(t) ==
  IF tick[t].part = "crt" THEN [tick[t] EXCEPT !.pc = "open", !.part = "key", !.rotated = TRUE]
                          ELSE Ingestor(t, TRUE)

(* Mutant: an existing key is kept. *)
NextPartKeepsKey(t) ==
  IF tick[t].part = "crt" /\ file["key"].dst = Absent
    THEN [tick[t] EXCEPT !.pc = "open", !.part = "key"]
    ELSE Ingestor(t, TRUE)

(* After the certificate comes the key, then the ingestor. *)
NextPart(t) ==
  IF tick[t].part = "crt" THEN [tick[t] EXCEPT !.pc = "open", !.part = "key"]
                          ELSE Ingestor(t, TRUE)

(* os.Rename; an error (the .tmp is gone) ends EnsureTrustFiles, and the   *)
(* site, for this tick.                                                    *)
RenameTmp(t) ==
  LET p == tick[t].part
      moved(u) == IF tick[u].pc = "write" /\ tick[u].part = p
                    THEN [tick[u] EXCEPT !.place = AfterRename(@)] ELSE tick[u] IN
  /\ tick[t].pc = "rename"
  /\ IF file[p].tmp = Absent
       THEN Move(t, Idle) /\ UNCHANGED file
       ELSE /\ file' = [file EXCEPT ![p] = Renamed(@, Absent)]
            /\ tick' = [u \in Ticks |-> IF u = t THEN NextPart(t) ELSE moved(u)]
  /\ broker' = KeepLoaded(file, file')
  /\ UNCHANGED <<rows, caFile, ingestor, disturbed, changes, faults>>

(* After EnsureTrustFiles: EMQX is restarted when the server was rotated. *)
AfterTrustFiles(t) ==
  IF tick[t].rotated /\ BrokerKind = "emqx" THEN [Idle EXCEPT !.pc = "restart"] ELSE Idle

(* NeedsRotation of the ingestor's certificate, without names. *)
CheckIngestor(t) ==
  /\ tick[t].pc = "ingestor"
  /\ Move(t, IF NeedsRotation("ingestor", ingestor, tick[t].ca, NoDomain)
               THEN [tick[t] EXCEPT !.pc = "leaf", !.place = "tmp", !.cert = IssueLeafCert(tick[t].ca)]
               ELSE AfterTrustFiles(t))
  /\ UNCHANGED <<rows, disk, broker, disturbed, changes, faults>>

(* Both writePEM of the ingestor's pair; another tick that is at it loses  *)
(* the .tmp it has open.                                                   *)
WriteIngestor(t) ==
  /\ tick[t].pc = "leaf"
  /\ ingestor' = tick[t].cert
  /\ tick' = [u \in Ticks |->
       CASE u = t -> AfterTrustFiles(t)
         [] u # t /\ tick[u].pc = "leaf" -> [tick[u] EXCEPT !.place = AfterRename(@)]
         [] OTHER -> tick[u]]
  /\ UNCHANGED <<rows, caFile, file, broker, disturbed, changes, faults>>

(* One of its renames finds no .tmp: EnsureTrustFiles fails, although the  *)
(* server's files may have been replaced.                                  *)
IngestorRace(t) ==
  /\ tick[t].pc = "leaf" /\ tick[t].place # "tmp"
  /\ Move(t, Idle)
  /\ UNCHANGED <<rows, disk, broker, disturbed, changes, faults>>

(* runner.Restart(..., "broker"), for EMQX after the server was rotated. *)
RestartBroker(t) ==
  /\ tick[t].pc = "restart"
  /\ broker' = IF broker = "none" THEN "none" ELSE "current"
  /\ Move(t, Idle)
  /\ UNCHANGED <<rows, disk, disturbed, changes, faults>>

(* docker compose up, a container restart, or restartBroker after a        *)
(* revocation: the broker reads what is on disk.                           *)
BrokerStarts ==
  /\ status = "active" /\ \A p \in Parts : file[p].dst.serial > 0
  /\ broker' = "current"
  /\ UNCHANGED <<rows, disk, tick, disturbed, changes, faults>>

-----------------------------------------------------------------------------
(* What may fail.                                                          *)

Fault == MoreEvents /\ faults' = faults + 1 /\ disturbed' = TRUE

(* An open, a write or a restart fails: the error is logged and the site skipped. *)
StepFails(t) ==
  /\ tick[t].pc \in {"caOpen", "caWrite", "open", "write", "leaf", "restart"} /\ Fault
  /\ Move(t, Idle)
  /\ UNCHANGED <<rows, disk, broker, changes>>

(* StoreCACert fails: a warning, and the site stays without a CA. *)
StoreCAFails(c) ==
  /\ create[c].pc = "store" /\ Fault
  /\ create' = [create EXCEPT ![c] = NoCreate]
  /\ UNCHANGED <<domain, status, caRow, caSeq, disk, tick, broker, changes>>

(* The daemon dies; nothing but the rows and the files survives. *)
DaemonCrash ==
  /\ (\E t \in Ticks : tick[t] # Idle) \/ (\E c \in Creators : create[c] # NoCreate)
  /\ Fault
  /\ tick' = [t \in Ticks |-> Idle] /\ create' = [c \in Creators |-> NoCreate]
  /\ UNCHANGED <<domain, status, caRow, caSeq, disk, broker, changes>>

-----------------------------------------------------------------------------
Continue(t) ==
  \/ ReadCA(t) \/ StatCA(t) \/ OpenCA(t) \/ WriteCA(t)
  \/ CheckServer(t) \/ OpenTmp(t) \/ WriteTmp(t) \/ RenameTmp(t)
  \/ CheckIngestor(t) \/ WriteIngestor(t) \/ IngestorRace(t)
  \/ RestartBroker(t)

Next ==
  \/ \E d \in Domains : CreateTenant(d)
  \/ \E c \in Creators : CreateSite(c) \/ GenerateCA(c) \/ StoreCA(c) \/ StoreCAFails(c)
  \/ OrphanSite \/ PurgeSite \/ PurgeTenant
  \/ AgeServer \/ AgeIngestor
  \/ \E t \in Ticks : BeginTick(t) \/ Continue(t) \/ StepFails(t)
  \/ BrokerStarts
  \/ DaemonCrash

(* A goroutine that is running goes on; the loop ticks for ever. *)
Fairness == WF_vars(BeginTick("loop")) /\ \A t \in Ticks : WF_vars(Continue(t))

Spec == Init /\ [][Next]_vars /\ Fairness

-----------------------------------------------------------------------------
Certificate == [serial : -1 .. MaxSerial, ca : 0 .. caSeq,
                san : Domains \cup {NoDomain}, due : BOOLEAN]

TypesOK ==
  /\ domain \in Domains \cup {NoDomain}
  /\ status \in {"absent", "active", "orphaned"}
  /\ caSeq \in Nat /\ caRow \in 0 .. caSeq /\ caFile \in -1 .. caSeq
  /\ create \in [Creators -> [pc : {"idle", "generate", "store"}, ca : 0 .. caSeq]]
  /\ file \in [Parts -> [dst : Certificate, tmp : Certificate]]
  /\ ingestor \in Certificate
  /\ tick \in [Ticks -> [pc : {"idle", "ca", "stat", "caOpen", "caWrite", "check", "open",
                               "write", "rename", "ingestor", "leaf", "restart"},
                         part : Parts, place : Places,
                         domain : Domains \cup {NoDomain}, ca : 0 .. caSeq,
                         cert : Certificate, rotated : BOOLEAN]]
  /\ broker \in {"none", "current", "stale"}
  /\ disturbed \in BOOLEAN /\ changes \in 0 .. MaxEvents /\ faults \in 0 .. MaxEvents

(* A tick's local variables fit together: it writes a certificate it has   *)
(* issued, is at the key only while it writes, and reports ServerRotated   *)
(* only once both files are replaced.                                      *)
Sound(rec) ==
  /\ IF rec.pc \in {"open", "write", "rename"} THEN rec.cert.serial > 0 ELSE rec.part = "crt"
  /\ rec.rotated => rec.pc \in {"ingestor", "leaf"}

(* Every variable keeps its type, and the local variables of every tick of *)
(* EnsureTrustFiles fit together.                                          *)
TrustTypeOK == TypesOK /\ \A t \in Ticks : Sound(tick[t])

(* Without a crash or a failed write, a truncated file is never left       *)
(* behind: whenever ca.crt, server.crt or server.key is torn, the tick     *)
(* that is about to fill it is still running, however many ticks share the *)
(* .tmp name.                                                              *)
TornHasWriter ==
  faults = 0 =>
    /\ caFile = -1 => \E t \in Ticks : tick[t].pc = "caWrite"
    /\ \A p \in Parts : file[p].dst = Torn =>
         \E t \in Ticks : tick[t].pc = "write" /\ tick[t].place = "dst" /\ tick[t].part = p

(* As long as rotations do not overlap and none is cut short, the server's *)
(* certificate and key on disk belong together whenever no tick is between *)
(* the two renames.                                                        *)
PairIntact ==
  ~disturbed => \/ file["crt"].dst.serial = file["key"].dst.serial
                \/ \E t \in Ticks : Inside(t) /\ tick[t].part = "key"

(* As long as rotations have not overlapped and none was cut short or      *)
(* failed, an EMQX broker does not keep serving a replaced certificate:    *)
(* between ticks it has loaded the pair that is on disk, whenever it was   *)
(* started in the middle of a rotation or not.  (After an overlap or a     *)
(* failed restart it may keep the old one for good: the next tick finds    *)
(* nothing to rotate and so restarts nothing.)                             *)
BrokerReloaded ==
  (BrokerKind = "emqx" /\ ~disturbed /\ \A t \in Ticks : tick[t].pc = "idle")
    => broker # "stale"

(* The reasons NeedsRotation and EnsureTrustFiles list for a rotation:     *)
(* missing, other CA, expiring and, for the server, another name.          *)
Reason(k, cert, ca, san) ==
  cert.serial <= 0 \/ cert.ca # ca \/ cert.due \/ (k = "server" /\ cert.san # san)

(* Nobody touches the site: it has a CA, and only the loop ticks. *)
Quiet == status = "active" /\ caRow # 0 /\ \A t \in Triggers : tick[t].pc = "idle"
ServerGood == ~Reason("server", file["crt"].dst, caRow, domain)

(* An active site with a CA that is left alone ends up with a server       *)
(* certificate of that CA for the tenant's domain, and keeps it: whatever  *)
(* stale snapshots, overlapping rotations, crashes and failed writes have  *)
(* left on disk, the loop repairs it and then stops replacing it.          *)
ServerConverges == <>[]Quiet => <>[]ServerGood

(* A tick issues a certificate only for one of the reasons NeedsRotation   *)
(* lists.                                                                  *)
RotationHasReason ==
  [][\A t \in Ticks :
       /\ tick[t].pc = "check" /\ tick'[t].pc = "open" =>
            Reason("server", file["crt"].dst, tick[t].ca, tick[t].domain)
       /\ tick[t].pc = "ingestor" /\ tick'[t].pc = "leaf" =>
            Reason("ingestor", ingestor, tick[t].ca, NoDomain)]_vars
====
