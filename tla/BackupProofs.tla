---------------------------- MODULE BackupProofs ----------------------------
(***************************************************************************)
(* The backups of a tenant, for any number of concurrent runs, any number  *)
(* of archives to keep and any number of days.  Pruning is safe because of *)
(* what a listing guarantees long after it was read: every archive on it   *)
(* that is to go has Keep newer ones now, since archives that disappear    *)
(* meanwhile were themselves pruned, and left Keep newer ones behind.      *)
(* Retention is bounded because every archive beyond Keep is owed: by a    *)
(* run that has listed it, or by one that has still to read the directory. *)
(***************************************************************************)
EXTENDS Backup, FiniteSetTheorems, WellFoundedInduction, TLAPS

(* Every archive a run still means to remove has Keep newer ones. *)
OldIsOld ==
  \A r \in Runs : \A d \in run[r].old : Cardinality({e \in Archives : e > d}) >= Keep

(* A run between the opening and the renaming of its .tmp. *)
Writing(r) == run[r].pc \in {"write", "finish", "publish"}

(* While runs do not meet, each has the .tmp of its day to itself and it   *)
(* holds what the run has written so far.                                  *)
OwnTmp(r) ==
  LET f == file[run[r].day] IN
  /\ run[r].pc = "write"  => run[r].place = "tmp" /\ f.tmp = Empty
  /\ run[r].pc = "finish" => run[r].place = "tmp" /\ f.tmp = Part(r)
  /\ run[r].pc = "publish" /\ run[r].ok => f.tmp = Whole

WholeInv ==
  ~overlapped =>
    /\ \A d \in Days : file[d].dst \in {Absent, Whole}
    /\ \A r \in Runs : OwnTmp(r)
    /\ \A r, q \in Runs : r # q /\ Writing(r) /\ Writing(q) => run[r].day # run[q].day

(* A handle is open only while a run writes, and one on an archive is on   *)
(* an archive that exists.                                                 *)
HandleInv ==
  \A r \in Runs :
    /\ run[r].pc \notin {"write", "finish"} => run[r].place = "closed"
    /\ run[r].place = "dst" => run[r].day \in Archives

(* Runs that have published and are still to prune, the ones of them that  *)
(* have a listing, and what a set of listings will remove.                 *)
Owing == {r \in Runs : run[r].pc \in {"readdir", "prune"}}
Pruners == {r \in Runs : run[r].pc = "prune"}
Listed(S) == UNION {run[r].old : r \in S}

(* Whatever listings are worked off first, the archives they leave are     *)
(* owed by the runs that are left.                                         *)
OwedInv ==
  ~cut => \A S \in SUBSET Pruners :
            Cardinality(Archives \ Listed(S)) <= Keep + Cardinality(Owing \ S)

(* A run's record keeps its type when another run moves its handle. *)
LEMMA OthersType ==
  ASSUME BackupTypeOK, NEW r \in Runs, NEW d \in Days,
         NEW tmpTo \in Places, NEW dstTo \in Places, NEW rec,
         rec \in [pc : {"idle", "open", "write", "finish", "publish", "readdir", "prune"},
                  day : Days, place : Places, ok : BOOLEAN, old : SUBSET Days],
         rec.pc = "prune" => rec.old # {},
         run' = Others(r, d, tmpTo, dstTo, rec)
  PROVE  /\ run' \in [Runs -> [pc : {"idle", "open", "write", "finish", "publish", "readdir", "prune"},
                       day : Days, place : Places, ok : BOOLEAN, old : SUBSET Days]]
         /\ \A q \in Runs : run'[q].pc = "prune" => run'[q].old # {}
         /\ \A q \in Runs \ {r} : run'[q].old = run[q].old
         /\ run'[r] = rec
<1> DEFINE R == [pc : {"idle", "open", "write", "finish", "publish", "readdir", "prune"},
                 day : Days, place : Places, ok : BOOLEAN, old : SUBSET Days]
<1>1. \A p \in Places : After(p, tmpTo, dstTo) \in Places
  BY DEF After, Places
<1>2. ASSUME NEW q \in Runs
      PROVE  run'[q] \in R /\ (run'[q].pc = "prune" => run'[q].old # {})
  <2>1. run[q] \in R /\ (run[q].pc = "prune" => run[q].old # {})
    BY DEF BackupTypeOK
  <2>2. CASE q = r
    BY <2>2 DEF Others
  <2>3. CASE q # r /\ run[q].day = d
    <3>1. run'[q] = [run[q] EXCEPT !.place = After(run[q].place, tmpTo, dstTo)]
      BY <2>3 DEF Others
    <3> QED BY <3>1, <2>1, <1>1
  <2>4. CASE q # r /\ run[q].day # d
    BY <2>1, <2>4 DEF Others
  <2> QED BY <2>2, <2>3, <2>4
<1>3. \A q \in Runs \ {r} : run'[q].old = run[q].old
  BY DEF Others, BackupTypeOK
<1>4. run'[r] = rec
  BY DEF Others
<1>5. run' \in [Runs -> R]
  BY <1>2 DEF Others
<1> QED BY <1>2, <1>3, <1>4, <1>5

(* The records the actions build have the type of a run. *)
LEMMA RecordTypes ==
  ASSUME NEW old \in SUBSET Days
  PROVE  /\ Idle \in [pc : {"idle", "open", "write", "finish", "publish", "readdir", "prune"},
                      day : Days, place : Places, ok : BOOLEAN, old : SUBSET Days]
         /\ Idle.pc = "idle" /\ Idle.old = {}
         /\ Pruning(old) \in [pc : {"idle", "open", "write", "finish", "publish", "readdir", "prune"},
                              day : Days, place : Places, ok : BOOLEAN, old : SUBSET Days]
         /\ Pruning(old).pc = "prune" => Pruning(old).old # {}
         /\ Pruning(old).old = old
         /\ Pruning(old).pc \in {"idle", "prune"}
<1>1. 1 \in Days
  BY MaxDayAssumption DEF Days
<1> QED BY <1>1 DEF Idle, Pruning, Places

(* The things a file may hold have its type. *)
LEMMA ContentsTypes ==
  /\ Absent \in Contents /\ Empty \in Contents /\ Whole \in Contents /\ Bad \in Contents
  /\ \A r \in Runs : Part(r) \in Contents
  /\ Absent # Empty /\ Absent # Whole /\ Absent # Bad /\ Empty # Whole /\ Empty # Bad /\ Whole # Bad
  /\ \A r \in Runs : Part(r) \notin {Absent, Empty, Whole, Bad}
BY DEF Absent, Empty, Whole, Bad, Part, Contents

(* The operations on a file keep its type. *)
LEMMA FileTypes ==
  ASSUME NEW f \in [dst : Contents, tmp : Contents], NEW c \in Contents, NEW p
  PROVE  /\ Truncated(f, c) \in [dst : Contents, tmp : Contents]
         /\ Written(f, p, c) \in [dst : Contents, tmp : Contents]
         /\ Renamed(f, c) \in [dst : Contents, tmp : Contents]
         /\ Unlinked(f, c) \in [dst : Contents, tmp : Contents]
         /\ [f EXCEPT !.dst = c] \in [dst : Contents, tmp : Contents]
         /\ Truncated(f, c).dst = f.dst /\ Unlinked(f, c).dst = f.dst
         /\ Truncated(f, c).tmp = c /\ Unlinked(f, c).tmp = c
         /\ Renamed(f, c).dst = f.tmp /\ Renamed(f, c).tmp = c
         /\ [f EXCEPT !.dst = c].dst = c /\ [f EXCEPT !.dst = c].tmp = f.tmp
         /\ Written(f, p, c).dst = IF p = "dst" THEN c ELSE f.dst
         /\ Written(f, p, c).tmp = IF p = "tmp" THEN c ELSE f.tmp
BY DEF Truncated, Written, Renamed, Unlinked

(* Replacing one day's files. *)
LEMMA FileUpdate ==
  ASSUME BackupTypeOK, NEW d \in Days, NEW g \in [dst : Contents, tmp : Contents],
         file' = [file EXCEPT ![d] = g]
  PROVE  /\ file' \in [Days -> [dst : Contents, tmp : Contents]]
         /\ file'[d] = g /\ \A e \in Days \ {d} : file'[e] = file[e]
         /\ (g.dst = file[d].dst \/ g.dst # Absent) => Archives \subseteq Archives'
BY DEF BackupTypeOK, Archives

(* Replacing one run's record. *)
LEMMA MoveType ==
  ASSUME BackupTypeOK, NEW r \in Runs, NEW rec, Move(r, rec),
         rec \in [pc : {"idle", "open", "write", "finish", "publish", "readdir", "prune"},
                  day : Days, place : Places, ok : BOOLEAN, old : SUBSET Days],
         rec.pc = "prune" => rec.old # {}
  PROVE  /\ run' \in [Runs -> [pc : {"idle", "open", "write", "finish", "publish", "readdir", "prune"},
                       day : Days, place : Places, ok : BOOLEAN, old : SUBSET Days]]
         /\ \A q \in Runs : run'[q].pc = "prune" => run'[q].old # {}
         /\ \A q \in Runs \ {r} : run'[q] = run[q]
         /\ run'[r] = rec
BY DEF BackupTypeOK, Move

(* What a failed rename does to the runs: it only notes the failure. *)
LEMMA FailedRename ==
  ASSUME BackupTypeOK, NEW r \in Runs, PublishFails(r)
  PROVE  /\ UNCHANGED <<today, file, overlapped, cut>>
         /\ run' \in [Runs -> [pc : {"idle", "open", "write", "finish", "publish", "readdir", "prune"},
                       day : Days, place : Places, ok : BOOLEAN, old : SUBSET Days]]
         /\ \A q \in Runs : run'[q].pc = "prune" => run'[q].old # {}
         /\ \A q \in Runs \ {r} : run'[q] = run[q]
         /\ run[r].pc = "publish" /\ run'[r].pc = "publish" /\ run'[r].ok = FALSE
         /\ run'[r].day = run[r].day /\ run'[r].place = run[r].place /\ run'[r].old = run[r].old
<1> DEFINE rec == [run[r] EXCEPT !.ok = FALSE]
<1>1. /\ Move(r, rec) /\ run[r].pc = "publish"
      /\ UNCHANGED <<today, file, overlapped, cut>>
  BY DEF PublishFails
<1>2. /\ rec \in [pc : {"idle", "open", "write", "finish", "publish", "readdir", "prune"},
                  day : Days, place : Places, ok : BOOLEAN, old : SUBSET Days]
      /\ rec.pc = "publish" /\ rec.ok = FALSE
      /\ rec.day = run[r].day /\ rec.place = run[r].place /\ rec.old = run[r].old
  BY <1>1 DEF BackupTypeOK
<1> HIDE DEF rec
<1> QED BY <1>1, <1>2, MoveType

(* A step keeps every variable in its type. *)
LEMMA TypeStep ==
  ASSUME BackupTypeOK, [Next]_vars
  PROVE  BackupTypeOK'
<1> USE DEF BackupTypeOK
<1>1. ASSUME NEW r \in Runs PROVE run[r].day \in Days /\ file[run[r].day] \in [dst : Contents, tmp : Contents]
  OBVIOUS
<1>2. CASE Midnight
  BY <1>2, MaxDayAssumption DEF Midnight, Days
<1>3. ASSUME NEW r \in Runs, Start(r) PROVE BackupTypeOK'
  <2> DEFINE rec == [Idle EXCEPT !.pc = "open", !.day = today]
  <2>1. Move(r, rec)
    BY <1>3 DEF Start
  <2>2. rec \in [pc : {"idle", "open", "write", "finish", "publish", "readdir", "prune"},
                  day : Days, place : Places, ok : BOOLEAN, old : SUBSET Days] /\ rec.pc # "prune"
    BY DEF Idle, Places
  <2> HIDE DEF rec
  <2> QED BY <2>1, <2>2, <1>3, MoveType DEF Start
<1>4. ASSUME NEW r \in Runs, Open(r) PROVE BackupTypeOK'
  <2> DEFINE rec == [run[r] EXCEPT !.pc = "write", !.place = "tmp"]
  <2>1. file' = [file EXCEPT ![run[r].day] = Truncated(file[run[r].day], Empty)]
    BY <1>4 DEF Open
  <2>2. file' \in [Days -> [dst : Contents, tmp : Contents]]
    BY <2>1, <1>1, ContentsTypes, FileTypes, FileUpdate
  <2>3. Move(r, rec)
    BY <1>4 DEF Open
  <2>4. rec \in [pc : {"idle", "open", "write", "finish", "publish", "readdir", "prune"},
                  day : Days, place : Places, ok : BOOLEAN, old : SUBSET Days] /\ rec.pc # "prune"
    BY DEF Places
  <2> HIDE DEF rec
  <2> QED BY <2>2, <2>3, <2>4, <1>4, MoveType DEF Open
<1>5. ASSUME NEW r \in Runs, Write(r) PROVE BackupTypeOK'
  <2> DEFINE rec == [run[r] EXCEPT !.pc = "finish"]
  <2>1. PICK c \in Contents : file' = [file EXCEPT ![run[r].day] = Written(file[run[r].day], run[r].place, c)]
    BY <1>5, ContentsTypes DEF Write
  <2>2. file' \in [Days -> [dst : Contents, tmp : Contents]]
    BY <2>1, <1>1, FileTypes, FileUpdate
  <2>3. Move(r, rec)
    BY <1>5 DEF Write
  <2>4. rec \in [pc : {"idle", "open", "write", "finish", "publish", "readdir", "prune"},
                  day : Days, place : Places, ok : BOOLEAN, old : SUBSET Days] /\ rec.pc # "prune"
    OBVIOUS
  <2> HIDE DEF rec
  <2> QED BY <2>2, <2>3, <2>4, <1>5, MoveType DEF Write
<1>6. ASSUME NEW r \in Runs, Finish(r) PROVE BackupTypeOK'
  <2>0. PICK ok \in BOOLEAN : Move(r, [run[r] EXCEPT !.pc = "publish", !.place = "closed", !.ok = ok])
    BY <1>6 DEF Finish
  <2> DEFINE rec == [run[r] EXCEPT !.pc = "publish", !.place = "closed", !.ok = ok]
  <2>1. PICK c \in Contents : file' = [file EXCEPT ![run[r].day] = Written(file[run[r].day], run[r].place, c)]
    BY <1>6, ContentsTypes DEF Finish
  <2>2. file' \in [Days -> [dst : Contents, tmp : Contents]]
    BY <2>1, <1>1, FileTypes, FileUpdate
  <2>3. Move(r, rec)
    BY <2>0
  <2>4. rec \in [pc : {"idle", "open", "write", "finish", "publish", "readdir", "prune"},
                  day : Days, place : Places, ok : BOOLEAN, old : SUBSET Days] /\ rec.pc # "prune"
    BY DEF Places
  <2> HIDE DEF rec
  <2> QED BY <2>2, <2>3, <2>4, <1>6, MoveType DEF Finish
<1>7. ASSUME NEW r \in Runs, Discard(r) PROVE BackupTypeOK'
  <2>1. file' \in [Days -> [dst : Contents, tmp : Contents]]
    <3>1. file' = [file EXCEPT ![run[r].day] = Unlinked(file[run[r].day], Absent)]
      BY <1>7 DEF Discard
    <3> QED BY <3>1, <1>1, ContentsTypes, FileTypes, FileUpdate
  <2>2. /\ "gone" \in Places /\ "dst" \in Places
        /\ run' = Others(r, run[r].day, "gone", "dst", Idle)
    BY <1>7 DEF Places, Discard
  <2>3. Idle.pc # "prune"
    BY DEF Idle
  <2>4. run' \in [Runs -> [pc : {"idle", "open", "write", "finish", "publish", "readdir", "prune"},
                       day : Days, place : Places, ok : BOOLEAN, old : SUBSET Days]]
        /\ \A q \in Runs : run'[q].pc = "prune" => run'[q].old # {}
    BY <2>2, <2>3, <1>1, OthersType, RecordTypes
  <2> QED BY <2>1, <2>4, <1>7 DEF Discard
<1>8. ASSUME NEW r \in Runs, Publish(r) PROVE BackupTypeOK'
  <2> DEFINE rec == [run[r] EXCEPT !.pc = "readdir", !.ok = FALSE]
  <2>1. file' \in [Days -> [dst : Contents, tmp : Contents]]
    <3>1. file' = [file EXCEPT ![run[r].day] = Renamed(file[run[r].day], Absent)]
      BY <1>8 DEF Publish
    <3> QED BY <3>1, <1>1, ContentsTypes, FileTypes, FileUpdate
  <2>2. /\ "gone" \in Places /\ "dst" \in Places
        /\ run' = Others(r, run[r].day, "dst", "gone", rec)
    BY <1>8 DEF Places, Publish
  <2>3. rec \in [pc : {"idle", "open", "write", "finish", "publish", "readdir", "prune"},
                  day : Days, place : Places, ok : BOOLEAN, old : SUBSET Days] /\ rec.pc # "prune"
    OBVIOUS
  <2> HIDE DEF rec
  <2>4. run' \in [Runs -> [pc : {"idle", "open", "write", "finish", "publish", "readdir", "prune"},
                       day : Days, place : Places, ok : BOOLEAN, old : SUBSET Days]]
        /\ \A q \in Runs : run'[q].pc = "prune" => run'[q].old # {}
    BY <2>2, <2>3, <1>1, OthersType
  <2> QED BY <2>1, <2>4, <1>8 DEF Publish
<1>9. ASSUME NEW r \in Runs, PublishFails(r) \/ Die(r) PROVE BackupTypeOK'
  <2>1. Idle.pc # "prune"
    BY DEF Idle
  <2>2. Idle \in [pc : {"idle", "open", "write", "finish", "publish", "readdir", "prune"},
                  day : Days, place : Places, ok : BOOLEAN, old : SUBSET Days]
    BY RecordTypes
  <2>3. CASE PublishFails(r)
    BY <2>3, FailedRename
  <2>4. CASE Die(r)
    <3>1. cut' \in BOOLEAN
      BY <2>4 DEF Die
    <3> QED BY <3>1, <2>1, <2>2, <2>4, MoveType DEF Die
  <2> QED BY <1>9, <2>3, <2>4
<1>10. ASSUME NEW r \in Runs, ReadDir(r) PROVE BackupTypeOK'
  <2>1. BeyondKeep(Archives) \in SUBSET Days
    BY DEF BeyondKeep, Archives
  <2> QED BY <2>1, <1>10, RecordTypes DEF ReadDir, Move
<1>11. ASSUME NEW r \in Runs, Remove(r) PROVE BackupTypeOK'
  <2>1. PICK d \in run[r].old :
          /\ file' = [file EXCEPT ![d].dst = Absent]
          /\ run' = Others(r, d, "tmp", "gone", Pruning(run[r].old \ {d}))
          /\ UNCHANGED <<today, overlapped, cut>>
    BY <1>11 DEF Remove
  <2>2. d \in Days /\ run[r].old \ {d} \in SUBSET Days /\ "tmp" \in Places /\ "gone" \in Places
    BY DEF Places
  <2>3. file' \in [Days -> [dst : Contents, tmp : Contents]]
    BY <2>1, <2>2, ContentsTypes
  <2>4. run' \in [Runs -> [pc : {"idle", "open", "write", "finish", "publish", "readdir", "prune"},
                       day : Days, place : Places, ok : BOOLEAN, old : SUBSET Days]]
        /\ \A q \in Runs : run'[q].pc = "prune" => run'[q].old # {}
    BY <2>1, <2>2, OthersType, RecordTypes
  <2> QED BY <2>1, <2>3, <2>4
<1>12. CASE UNCHANGED vars
  BY <1>12 DEF vars
<1> QED BY <1>2, <1>3, <1>4, <1>5, <1>6, <1>7, <1>8, <1>9, <1>10, <1>11, <1>12 DEF Next

(* A step other than Remove takes no archive away, and gives no run        *)
(* anything to remove but the oldest of what it lists.                     *)
LEMMA ArchivesGrow ==
  ASSUME BackupTypeOK, [Next]_vars, \A r \in Runs : ~Remove(r)
  PROVE  /\ Archives \subseteq Archives'
         /\ \A q \in Runs : run'[q].old \subseteq run[q].old
                            \/ run'[q].old \subseteq BeyondKeep(Archives)
<1> USE DEF BackupTypeOK
<1>1. ASSUME NEW r \in Runs PROVE run[r].day \in Days /\ file[run[r].day] \in [dst : Contents, tmp : Contents]
  OBVIOUS
<1>2. CASE Midnight \/ UNCHANGED vars
  BY <1>2 DEF Midnight, vars, Archives
<1>3. ASSUME NEW r \in Runs, Start(r) \/ PublishFails(r) \/ Die(r)
      PROVE  /\ Archives \subseteq Archives'
             /\ \A q \in Runs : run'[q].old \subseteq run[q].old
  <2>1. UNCHANGED file
    BY <1>3 DEF Start, PublishFails, Die
  <2>2. CASE Start(r)
    BY <2>1, <2>2 DEF Start, Move, Idle, Archives
  <2>3. CASE Die(r)
    BY <2>1, <2>3 DEF Die, Move, Idle, Archives
  <2>4. CASE PublishFails(r)
    BY <2>1, <2>4, FailedRename DEF Archives
  <2> QED BY <1>3, <2>2, <2>3, <2>4
<1>4. ASSUME NEW r \in Runs, Open(r)
      PROVE  /\ Archives \subseteq Archives'
             /\ \A q \in Runs : run'[q].old \subseteq run[q].old
  <2>1. file' = [file EXCEPT ![run[r].day] = Truncated(file[run[r].day], Empty)]
    BY <1>4 DEF Open
  <2>2. Archives \subseteq Archives'
    <3> DEFINE g == Truncated(file[run[r].day], Empty)
    <3>1. g \in [dst : Contents, tmp : Contents] /\ g.dst = file[run[r].day].dst
      BY <1>1, ContentsTypes, FileTypes
    <3>2. file' = [file EXCEPT ![run[r].day] = g]
      BY <2>1
    <3> HIDE DEF g
    <3> QED BY <3>1, <3>2, <1>1, FileUpdate
  <2>3. \A q \in Runs : run'[q].old \subseteq run[q].old
    BY <1>4 DEF Open, Move
  <2> QED BY <2>2, <2>3
<1>5. ASSUME NEW r \in Runs, Write(r) \/ Finish(r)
      PROVE  /\ Archives \subseteq Archives'
             /\ \A q \in Runs : run'[q].old \subseteq run[q].old
  <2>1. PICK c \in Contents \ {Absent} :
          file' = [file EXCEPT ![run[r].day] = Written(file[run[r].day], run[r].place, c)]
    BY <1>5, ContentsTypes DEF Write, Finish
  <2>2. Archives \subseteq Archives'
    <3> DEFINE g == Written(file[run[r].day], run[r].place, c)
    <3>1. g \in [dst : Contents, tmp : Contents] /\ (g.dst = file[run[r].day].dst \/ g.dst # Absent)
      <4>1. /\ g \in [dst : Contents, tmp : Contents]
            /\ g.dst = IF run[r].place = "dst" THEN c ELSE file[run[r].day].dst
        <5>1. c \in Contents
          OBVIOUS
        <5>2. file[run[r].day] \in [dst : Contents, tmp : Contents]
          BY <1>1
        <5> HIDE DEF BackupTypeOK
        <5> QED BY <5>1, <5>2 DEF Written
      <4> QED BY <4>1
    <3>2. file' = [file EXCEPT ![run[r].day] = g]
      BY <2>1
    <3> HIDE DEF g
    <3> QED BY <3>1, <3>2, <1>1, FileUpdate
  <2>3. \A q \in Runs : run'[q].old \subseteq run[q].old
    <3>1. CASE Write(r)
      BY <3>1 DEF Write, Move
    <3>2. CASE Finish(r)
      BY <3>2 DEF Finish, Move
    <3> QED BY <1>5, <3>1, <3>2
  <2> QED BY <2>2, <2>3
<1>6. ASSUME NEW r \in Runs, Discard(r)
      PROVE  /\ Archives \subseteq Archives'
             /\ \A q \in Runs : run'[q].old \subseteq run[q].old
  <2>1. Archives \subseteq Archives'
    <3> DEFINE g == Unlinked(file[run[r].day], Absent)
    <3>1. g \in [dst : Contents, tmp : Contents] /\ g.dst = file[run[r].day].dst
      BY <1>1, ContentsTypes, FileTypes
    <3>2. file' = [file EXCEPT ![run[r].day] = g]
      BY <1>6 DEF Discard
    <3> HIDE DEF g
    <3> QED BY <3>1, <3>2, <1>1, FileUpdate
  <2>2. \A q \in Runs : run'[q].old \subseteq run[q].old
    BY <1>6 DEF Discard, Others, Idle
  <2> QED BY <2>1, <2>2
<1>7. ASSUME NEW r \in Runs, Publish(r)
      PROVE  /\ Archives \subseteq Archives'
             /\ \A q \in Runs : run'[q].old \subseteq run[q].old
  <2>1. Archives \subseteq Archives'
    <3> DEFINE g == Renamed(file[run[r].day], Absent)
    <3>1. g \in [dst : Contents, tmp : Contents] /\ g.dst # Absent
      <4>1. file[run[r].day].tmp # Absent
        BY <1>7 DEF Publish
      <4>2. g \in [dst : Contents, tmp : Contents] /\ g.dst = file[run[r].day].tmp
        BY <1>1, ContentsTypes, FileTypes
      <4> QED BY <4>1, <4>2
    <3>2. file' = [file EXCEPT ![run[r].day] = g]
      BY <1>7 DEF Publish
    <3> HIDE DEF g
    <3> QED BY <3>1, <3>2, <1>1, FileUpdate
  <2>2. \A q \in Runs : run'[q].old \subseteq run[q].old
    BY <1>7 DEF Publish, Others
  <2> QED BY <2>1, <2>2
<1>8. ASSUME NEW r \in Runs, ReadDir(r)
      PROVE  /\ Archives \subseteq Archives'
             /\ \A q \in Runs : run'[q].old \subseteq run[q].old
                                \/ run'[q].old \subseteq BeyondKeep(Archives)
  <2>1. BeyondKeep(Archives) \in SUBSET Days
    BY DEF BeyondKeep, Archives
  <2> QED BY <2>1, <1>8, RecordTypes DEF ReadDir, Move, Archives
<1> QED BY <1>2, <1>3, <1>4, <1>5, <1>6, <1>7, <1>8 DEF Next

(* More archives, more of them newer than a given day. *)
LEMMA MoreNewer ==
  ASSUME NEW S \in SUBSET Days, NEW T \in SUBSET Days, NEW d, NEW x,
         \A e \in S : e > d => e \in T /\ e > x,
         Cardinality({e \in S : e > d}) >= Keep
  PROVE  Cardinality({e \in T : e > x}) >= Keep
<1> DEFINE A == {e \in S : e > d}  B == {e \in T : e > x}
<1>1. IsFiniteSet(Days)
  BY MaxDayAssumption, FS_Interval DEF Days
<1>2. A \in SUBSET B /\ B \in SUBSET Days
  OBVIOUS
<1>3. IsFiniteSet(B)
  BY <1>1, <1>2, FS_Subset
<1>4. IsFiniteSet(A) /\ Cardinality(A) <= Cardinality(B)
  BY <1>2, <1>3, FS_Subset
<1>5. Cardinality(A) \in Nat /\ Cardinality(B) \in Nat
  BY <1>3, <1>4, FS_CardinalityType
<1>6. Cardinality(A) >= Keep
  OBVIOUS
<1> HIDE DEF A, B
<1>7. Cardinality(B) >= Keep
  BY <1>4, <1>5, <1>6, KeepAssumption
<1> QED BY <1>7 DEF B

(* What a listing promised stays true until it is worked off. *)
LEMMA OldIsOldStep ==
  ASSUME BackupTypeOK, OldIsOld, [Next]_vars
  PROVE  OldIsOld'
<1> SUFFICES ASSUME NEW q \in Runs, NEW x \in run'[q].old
             PROVE  Cardinality({e \in Archives' : e > x}) >= Keep
  BY DEF OldIsOld
<1>1. Archives \in SUBSET Days /\ Archives' \in SUBSET Days
  BY DEF Archives, Days
<1>2. CASE \A r \in Runs : ~Remove(r)
  <2>1. Archives \subseteq Archives'
    BY <1>2, ArchivesGrow
  <2>2. Cardinality({e \in Archives : e > x}) >= Keep
    <3>1. x \in run[q].old \/ x \in BeyondKeep(Archives)
      BY <1>2, ArchivesGrow
    <3> QED BY <3>1 DEF BeyondKeep, OldIsOld
  <2> QED BY <1>1, <2>1, <2>2, MoreNewer
<1>3. ASSUME NEW r \in Runs, Remove(r)
      PROVE  Cardinality({e \in Archives' : e > x}) >= Keep
  <2>1. PICK d \in run[r].old :
          /\ file' = [file EXCEPT ![d].dst = Absent]
          /\ run' = Others(r, d, "tmp", "gone", Pruning(run[r].old \ {d}))
    BY <1>3 DEF Remove
  <2>2. d \in Days /\ x \in Days /\ x \in run[q].old /\ \A n \in Days : n \in Int
    <3>1. d \in Days /\ run[r].old \ {d} \in SUBSET Days /\ "tmp" \in Places /\ "gone" \in Places
      BY DEF Places, BackupTypeOK
    <3>2. /\ \A p \in Runs \ {r} : run'[p].old = run[p].old
          /\ run'[r].old = run[r].old \ {d}
      <4> DEFINE rec == Pruning(run[r].old \ {d})
      <4>1. rec \in [pc : {"idle", "open", "write", "finish", "publish", "readdir", "prune"},
                        day : Days, place : Places, ok : BOOLEAN, old : SUBSET Days]
            /\ (rec.pc = "prune" => rec.old # {}) /\ rec.old = run[r].old \ {d}
        BY <3>1, RecordTypes
      <4>2. run' = Others(r, d, "tmp", "gone", rec)
        BY <2>1
      <4> HIDE DEF rec
      <4> QED BY <4>1, <4>2, <3>1, OthersType
    <3> QED BY <3>1, <3>2 DEF Days, BackupTypeOK
  <2>3. \A e \in Archives : e # d => e \in Archives'
    BY <2>1 DEF Archives, BackupTypeOK
  <2>4. CASE x < d
    <3>1. Cardinality({e \in Archives : e > d}) >= Keep
      BY DEF OldIsOld
    <3>2. \A e \in Archives : e > d => e \in Archives' /\ e > x
      BY <1>1, <2>2, <2>3, <2>4
    <3> QED BY <1>1, <3>1, <3>2, MoreNewer
  <2>5. CASE ~(x < d)
    <3>1. Cardinality({e \in Archives : e > x}) >= Keep
      BY <2>2 DEF OldIsOld
    <3>2. \A e \in Archives : e > x => e \in Archives' /\ e > x
      BY <1>1, <2>2, <2>3, <2>5
    <3> QED BY <1>1, <3>1, <3>2, MoreNewer
  <2> QED BY <2>4, <2>5
<1> QED BY <1>2, <1>3

(* A step in which the runs still have not met keeps WholeInv. *)
LEMMA WholeStep ==
  ASSUME BackupTypeOK, BackupTypeOK', WholeInv, [Next]_vars
  PROVE  WholeInv'
<1> SUFFICES ASSUME ~overlapped'
             PROVE  /\ \A d \in Days : file'[d].dst \in {Absent, Whole}
                    /\ \A r \in Runs : OwnTmp(r)'
                    /\ \A r, q \in Runs :
                         r # q /\ Writing(r)' /\ Writing(q)' => run'[r].day # run'[q].day
  BY DEF WholeInv
<1>1. ASSUME NEW r \in Runs
      PROVE  run[r].day \in Days /\ file[run[r].day] \in [dst : Contents, tmp : Contents]
  BY DEF BackupTypeOK
<1>2. ~overlapped
  BY DEF Next, vars, Midnight, Start, Open, Write, Finish, Discard, Publish, PublishFails,
         ReadDir, Remove, Die, BackupTypeOK
<1>3. /\ \A d \in Days : file[d].dst \in {Absent, Whole}
      /\ \A r \in Runs : OwnTmp(r)
      /\ \A r, q \in Runs : r # q /\ Writing(r) /\ Writing(q) => run[r].day # run[q].day
  BY <1>2 DEF WholeInv
<1>4. CASE Midnight \/ UNCHANGED vars
  BY <1>3, <1>4 DEF Midnight, vars, OwnTmp, Writing
<1>5. ASSUME NEW r \in Runs, NEW rec, Move(r, rec), UNCHANGED file,
             rec.pc \notin {"write", "finish", "publish"}
      PROVE  /\ \A d \in Days : file'[d].dst \in {Absent, Whole}
             /\ \A q \in Runs : OwnTmp(q)'
             /\ \A p, q \in Runs :
                  p # q /\ Writing(p)' /\ Writing(q)' => run'[p].day # run'[q].day
  <2>1. run'[r] = rec /\ \A q \in Runs \ {r} : run'[q] = run[q]
    BY <1>5 DEF Move, BackupTypeOK
  <2> QED BY <2>1, <1>3, <1>5 DEF OwnTmp, Writing
<1>6. ASSUME NEW r \in Runs, Start(r) \/ PublishFails(r) \/ Die(r) \/ ReadDir(r)
      PROVE  /\ \A d \in Days : file'[d].dst \in {Absent, Whole}
             /\ \A q \in Runs : OwnTmp(q)'
             /\ \A p, q \in Runs :
                  p # q /\ Writing(p)' /\ Writing(q)' => run'[p].day # run'[q].day
  <2>1. CASE Start(r)
    <3>1. [Idle EXCEPT !.pc = "open", !.day = today].pc = "open"
      BY DEF Idle
    <3> QED BY <3>1, <2>1, <1>5 DEF Start
  <2>2. CASE Die(r)
    BY <2>2, <1>5, RecordTypes DEF Die
  <2>4. CASE PublishFails(r)
    <3>1. /\ file' = file
          /\ \A q \in Runs \ {r} : run'[q] = run[q]
          /\ run[r].pc = "publish" /\ run'[r].pc = "publish" /\ run'[r].ok = FALSE
          /\ run'[r].day = run[r].day
      BY <2>4, FailedRename
    <3>2. \A q \in Runs : run'[q].day = run[q].day /\ Writing(q)' = Writing(q)
      BY <3>1 DEF Writing
    <3>3. \A q \in Runs : OwnTmp(q)'
      BY <3>1, <1>3 DEF OwnTmp
    <3> QED BY <3>1, <3>2, <3>3, <1>3
  <2>3. CASE ReadDir(r)
    <3>1. BeyondKeep(Archives) \in SUBSET Days
      BY DEF BeyondKeep, Archives
    <3>2. Pruning(BeyondKeep(Archives)).pc \in {"idle", "prune"}
      BY <3>1, RecordTypes
    <3> QED BY <3>2, <2>3, <1>5 DEF ReadDir
  <2> QED BY <1>6, <2>1, <2>2, <2>3, <2>4
<1>7. ASSUME NEW r \in Runs, Open(r)
      PROVE  /\ \A d \in Days : file'[d].dst \in {Absent, Whole}
             /\ \A q \in Runs : OwnTmp(q)'
             /\ \A p, q \in Runs :
                  p # q /\ Writing(p)' /\ Writing(q)' => run'[p].day # run'[q].day
  <2> DEFINE g == Truncated(file[run[r].day], Empty)
  <2>1. g \in [dst : Contents, tmp : Contents] /\ g.dst = file[run[r].day].dst /\ g.tmp = Empty
    <3>1. file[run[r].day] \in [dst : Contents, tmp : Contents] /\ Empty \in Contents
      BY <1>1, ContentsTypes
    <3> QED BY <3>1 DEF Truncated
  <2>2. file' = [file EXCEPT ![run[r].day] = g]
    BY <1>7 DEF Open
  <2> HIDE DEF g
  <2>3. file'[run[r].day] = g /\ \A e \in Days \ {run[r].day} : file'[e] = file[e]
    BY <2>1, <2>2, <1>1, FileUpdate
  <2>4. \A q \in Runs \ {r} : Writing(q) => run[q].day # run[r].day
    BY <1>7 DEF Open, Writing
  <2>5. /\ run'[r].pc = "write" /\ run'[r].place = "tmp" /\ run'[r].day = run[r].day
        /\ \A q \in Runs \ {r} : run'[q] = run[q]
    BY <1>7 DEF Open, Move, BackupTypeOK
  <2>6. \A d \in Days : file'[d].dst \in {Absent, Whole}
    BY <1>3, <1>1, <2>1, <2>3
  <2>7. \A q \in Runs : OwnTmp(q)'
    BY <1>3, <1>1, <2>1, <2>3, <2>4, <2>5 DEF OwnTmp, Writing
  <2>8. \A p, q \in Runs : p # q /\ Writing(p)' /\ Writing(q)' => run'[p].day # run'[q].day
    BY <1>3, <2>4, <2>5 DEF Writing
  <2> QED BY <2>6, <2>7, <2>8
<1>8. ASSUME NEW r \in Runs, Write(r) \/ Finish(r)
      PROVE  /\ \A d \in Days : file'[d].dst \in {Absent, Whole}
             /\ \A q \in Runs : OwnTmp(q)'
             /\ \A p, q \in Runs :
                  p # q /\ Writing(p)' /\ Writing(q)' => run'[p].day # run'[q].day
  <2>1. Writing(r) /\ run[r].place = "tmp"
    BY <1>3, <1>8 DEF Write, Finish, Writing, OwnTmp
  <2>2. PICK c \in Contents :
          /\ file' = [file EXCEPT ![run[r].day] = Written(file[run[r].day], run[r].place, c)]
          /\ Write(r) => c = Part(r)
          /\ Finish(r) /\ run'[r].ok => c = Whole
    <3>1. CASE Write(r)
      <4>1. AtHandle(r) = Empty /\ ~Finish(r)
        BY <1>3, <2>1, <3>1 DEF AtHandle, OwnTmp, Write, Finish
      <4> QED BY <3>1, <4>1, ContentsTypes DEF Write
    <3>2. CASE Finish(r)
      <4>1. AtHandle(r) = Part(r) /\ ~Write(r)
        BY <1>3, <2>1, <3>2 DEF AtHandle, OwnTmp, Finish, Write
      <4>2. PICK ok \in BOOLEAN :
              /\ file' = [file EXCEPT ![run[r].day] =
                   Written(file[run[r].day], run[r].place, IF ok THEN Whole ELSE Bad)]
              /\ Move(r, [run[r] EXCEPT !.pc = "publish", !.place = "closed", !.ok = ok])
        BY <3>2, <4>1 DEF Finish
      <4>3. run'[r].ok = ok
        BY <4>2 DEF Move, BackupTypeOK
      <4> QED BY <4>1, <4>2, <4>3, ContentsTypes
    <3> QED BY <1>8, <3>1, <3>2
  <2> DEFINE g == Written(file[run[r].day], run[r].place, c)
  <2>3. g \in [dst : Contents, tmp : Contents] /\ g.dst = file[run[r].day].dst /\ g.tmp = c
    BY <2>1, <1>1 DEF Written
  <2>4. file' = [file EXCEPT ![run[r].day] = g]
    BY <2>2
  <2> HIDE DEF g
  <2>5. file'[run[r].day] = g /\ \A e \in Days \ {run[r].day} : file'[e] = file[e]
    BY <2>3, <2>4, <1>1, FileUpdate
  <2>6. \A q \in Runs \ {r} : Writing(q) => run[q].day # run[r].day
    BY <1>3, <2>1
  <2>7. /\ run'[r].day = run[r].day /\ \A q \in Runs \ {r} : run'[q] = run[q]
        /\ Write(r) => run'[r].pc = "finish" /\ run'[r].place = "tmp"
        /\ Finish(r) => run'[r].pc = "publish"
    <3>1. CASE Write(r)
      BY <2>1, <3>1 DEF Write, Finish, Move, BackupTypeOK
    <3>2. CASE Finish(r)
      BY <3>2 DEF Write, Finish, Move, BackupTypeOK
    <3> QED BY <1>8, <3>1, <3>2
  <2>8. \A d \in Days : file'[d].dst \in {Absent, Whole}
    BY <1>3, <1>1, <2>3, <2>5
  <2>9. \A q \in Runs : OwnTmp(q)'
    <3>1. OwnTmp(r)'
      BY <1>8, <2>2, <2>3, <2>5, <2>7 DEF OwnTmp
    <3>2. ASSUME NEW q \in Runs \ {r} PROVE OwnTmp(q)'
      BY <1>3, <1>1, <2>5, <2>6, <2>7 DEF OwnTmp, Writing
    <3> QED BY <3>1, <3>2
  <2>10. \A p, q \in Runs : p # q /\ Writing(p)' /\ Writing(q)' => run'[p].day # run'[q].day
    BY <1>3, <2>6, <2>7 DEF Writing
  <2> QED BY <2>8, <2>9, <2>10
<1>9. ASSUME NEW r \in Runs, Discard(r) \/ Publish(r)
      PROVE  /\ \A d \in Days : file'[d].dst \in {Absent, Whole}
             /\ \A q \in Runs : OwnTmp(q)'
             /\ \A p, q \in Runs :
                  p # q /\ Writing(p)' /\ Writing(q)' => run'[p].day # run'[q].day
  <2>1. Writing(r)
    BY <1>9 DEF Discard, Publish, Writing
  <2>2. \A q \in Runs \ {r} : Writing(q) => run[q].day # run[r].day
    BY <1>3, <2>1
  <2>3. PICK g \in [dst : Contents, tmp : Contents] :
          file' = [file EXCEPT ![run[r].day] = g] /\ g.dst \in {Absent, Whole}
    <3>1. CASE Discard(r)
      <4> DEFINE h == Unlinked(file[run[r].day], Absent)
      <4>1. h \in [dst : Contents, tmp : Contents] /\ h.dst = file[run[r].day].dst
        BY <1>1, ContentsTypes, FileTypes
      <4>2. file' = [file EXCEPT ![run[r].day] = h]
        BY <3>1 DEF Discard
      <4> HIDE DEF h
      <4> QED BY <4>1, <4>2, <1>1, <1>3
    <3>2. CASE Publish(r)
      <4> DEFINE h == Renamed(file[run[r].day], Absent)
      <4>1. h \in [dst : Contents, tmp : Contents] /\ h.dst = file[run[r].day].tmp
        BY <1>1, ContentsTypes, FileTypes
      <4>2. file' = [file EXCEPT ![run[r].day] = h] /\ file[run[r].day].tmp = Whole
        BY <3>2, <1>3 DEF Publish, OwnTmp
      <4> HIDE DEF h
      <4> QED BY <4>1, <4>2
    <3> QED BY <1>9, <3>1, <3>2
  <2>4. file'[run[r].day] = g /\ \A e \in Days \ {run[r].day} : file'[e] = file[e]
    BY <2>3, <1>1, FileUpdate
  <2>5. ASSUME NEW q \in Runs \ {r}
        PROVE  /\ run'[q].pc = run[q].pc /\ run'[q].day = run[q].day
               /\ Writing(q) => run'[q] = run[q]
    BY <1>9, <2>2 DEF Discard, Publish, Others, BackupTypeOK
  <2>6. run'[r].pc \notin {"write", "finish", "publish"}
    <3>1. CASE Discard(r)
      BY <3>1 DEF Discard, Others, Idle
    <3>2. CASE Publish(r)
      <4> DEFINE rec == [run[r] EXCEPT !.pc = "readdir", !.ok = FALSE]
      <4>1. rec.pc = "readdir"
        BY DEF BackupTypeOK
      <4>2. run'[r] = rec
        BY <3>2 DEF Publish, Others
      <4> QED BY <4>1, <4>2
    <3> QED BY <1>9, <3>1, <3>2
  <2>7. \A d \in Days : file'[d].dst \in {Absent, Whole}
    BY <1>3, <2>3, <2>4
  <2>8. \A q \in Runs : OwnTmp(q)'
    BY <1>1, <1>3, <2>2, <2>4, <2>5, <2>6 DEF OwnTmp, Writing
  <2>9. \A p, q \in Runs : p # q /\ Writing(p)' /\ Writing(q)' => run'[p].day # run'[q].day
    BY <1>3, <2>5, <2>6 DEF Writing
  <2> QED BY <2>7, <2>8, <2>9
<1>10. ASSUME NEW r \in Runs, Remove(r)
      PROVE  /\ \A d \in Days : file'[d].dst \in {Absent, Whole}
             /\ \A q \in Runs : OwnTmp(q)'
             /\ \A p, q \in Runs :
                  p # q /\ Writing(p)' /\ Writing(q)' => run'[p].day # run'[q].day
  <2>1. PICK d \in run[r].old :
          /\ file' = [file EXCEPT ![d].dst = Absent]
          /\ run' = Others(r, d, "tmp", "gone", Pruning(run[r].old \ {d}))
    BY <1>10 DEF Remove
  <2>2. d \in Days
    BY DEF BackupTypeOK
  <2>3. \A e \in Days : file'[e].tmp = file[e].tmp /\ file'[e].dst \in {file[e].dst, Absent}
    BY <2>1, <2>2 DEF BackupTypeOK
  <2>4. ASSUME NEW q \in Runs \ {r}
        PROVE  /\ run'[q].pc = run[q].pc /\ run'[q].day = run[q].day /\ run'[q].ok = run[q].ok
               /\ run[q].place = "tmp" => run'[q].place = "tmp"
    BY <2>1 DEF Others, After, BackupTypeOK
  <2>5. run'[r].pc \notin {"write", "finish", "publish"}
    <3>1. run[r].old \ {d} \in SUBSET Days
      BY DEF BackupTypeOK
    <3>2. Pruning(run[r].old \ {d}).pc \in {"idle", "prune"}
      BY <3>1, RecordTypes
    <3> QED BY <2>1, <3>2 DEF Others
  <2>6. \A e \in Days : file'[e].dst \in {Absent, Whole}
    BY <1>3, <2>3
  <2>7. \A q \in Runs : OwnTmp(q)'
    BY <1>1, <1>3, <2>3, <2>4, <2>5 DEF OwnTmp
  <2>8. \A p, q \in Runs : p # q /\ Writing(p)' /\ Writing(q)' => run'[p].day # run'[q].day
    BY <1>3, <2>4, <2>5 DEF Writing
  <2> QED BY <2>6, <2>7, <2>8
<1> QED BY <1>4, <1>6, <1>7, <1>8, <1>9, <1>10 DEF Next

-----------------------------------------------------------------------------
(* Retention.                                                              *)

(* A set of natural numbers has a least element. *)
LEMMA LeastElement ==
  ASSUME NEW N \in SUBSET Nat, N # {}
  PROVE  \E m \in N : \A e \in N : m <= e
<1> DEFINE R == OpToRel(<, Nat)
<1>1. IsWellFoundedOn(R, Nat)
  BY NatLessThanWellFounded
<1>2. R = {ss \in Nat \X Nat : ss[1] < ss[2]}
  BY DEF OpToRel
<1> HIDE DEF R
<1>3. PICK m \in N : \A e \in N : ~(<<e, m>> \in R)
  BY <1>1, WFMin
<1>4. \A e \in N : <<e, m>> \in R <=> e < m
  BY <1>2
<1>5. ASSUME NEW e \in N PROVE m <= e
  <2>1. e \in Nat /\ m \in Nat /\ ~(e < m)
    BY <1>3, <1>4
  <2> QED BY <2>1
<1> QED BY <1>5

(* Days are finitely many, and a part has at most as many as the whole. *)
LEMMA DaySets ==
  ASSUME NEW S \in SUBSET Days, NEW T \in SUBSET S
  PROVE  /\ IsFiniteSet(S) /\ IsFiniteSet(T)
         /\ Cardinality(S) \in Nat /\ Cardinality(T) \in Nat
         /\ Cardinality(T) <= Cardinality(S)
<1>1. IsFiniteSet(Days)
  BY MaxDayAssumption, FS_Interval DEF Days
<1>2. IsFiniteSet(S)
  BY <1>1, FS_Subset
<1>3. IsFiniteSet(T) /\ Cardinality(T) <= Cardinality(S)
  BY <1>2, FS_Subset
<1> QED BY <1>2, <1>3, FS_CardinalityType

(* prune, left alone, leaves at most Keep of the archives it has listed:   *)
(* the oldest one it leaves has fewer than Keep newer ones, and those are  *)
(* all the others.                                                         *)
LEMMA KeepBound ==
  ASSUME NEW L \in SUBSET Days
  PROVE  Cardinality(L \ BeyondKeep(L)) <= Keep
<1> DEFINE N == L \ BeyondKeep(L)
<1>0. N \in SUBSET Nat /\ N \in SUBSET L /\ N \in SUBSET Days
  <2>1. \A d \in Days : d \in Nat
    BY MaxDayAssumption DEF Days
  <2> QED BY <2>1
<1>1. CASE N = {}
  BY <1>1, FS_EmptySet, KeepAssumption
<1>2. CASE N # {}
  <2>1. PICK m \in N : \A e \in N : m <= e
    BY <1>0, <1>2, LeastElement
  <2> DEFINE G == {e \in L : e > m}
  <2>2. Cardinality(G) < Keep
    <3>1. m \in L /\ ~(Cardinality({e \in L : e > m}) >= Keep)
      BY DEF BeyondKeep
    <3>2. Cardinality(G) \in Nat
      <4>1. G \in SUBSET Days /\ {} \in SUBSET G
        OBVIOUS
      <4> QED BY <4>1, DaySets
    <3> QED BY <3>1, <3>2, KeepAssumption
  <2>3. G \in SUBSET Days /\ G \in SUBSET G
    OBVIOUS
  <2>4. N \subseteq G \cup {m}
    BY <1>0, <2>1 DEF Days
  <2> HIDE DEF N, G
  <2>5. IsFiniteSet(G) /\ Cardinality(G) \in Nat
    BY <2>3, DaySets
  <2>6. IsFiniteSet(G \cup {m}) /\ Cardinality(G \cup {m}) <= Cardinality(G) + 1
    <3>1. IsFiniteSet(G \cup {m})
          /\ Cardinality(G \cup {m}) = IF m \in G THEN Cardinality(G) ELSE Cardinality(G) + 1
      BY <2>5, FS_AddElement
    <3> QED BY <2>5, <3>1
  <2>7. Cardinality(N) <= Cardinality(G \cup {m}) /\ Cardinality(G \cup {m}) \in Nat /\ Cardinality(N) \in Nat
    BY <2>4, <2>6, FS_Subset, FS_CardinalityType
  <2>8. Cardinality(N) <= Keep
    BY <2>2, <2>5, <2>6, <2>7, KeepAssumption
  <2> QED BY <2>8 DEF N
<1> QED BY <1>1, <1>2

(* What a rename or a removal does to the other runs. *)
LEMMA OthersEffect ==
  ASSUME BackupTypeOK, NEW r \in Runs, NEW d, NEW tmpTo, NEW dstTo, NEW rec,
         run' = Others(r, d, tmpTo, dstTo, rec)
  PROVE  /\ run'[r] = rec
         /\ \A q \in Runs \ {r} :
              /\ run'[q].pc = run[q].pc /\ run'[q].day = run[q].day /\ run'[q].old = run[q].old
              /\ run'[q].place = IF run[q].day = d THEN After(run[q].place, tmpTo, dstTo) ELSE run[q].place
<1>1. run'[r] = rec
  BY DEF Others
<1>2. ASSUME NEW q \in Runs \ {r}
      PROVE  /\ run'[q].pc = run[q].pc /\ run'[q].day = run[q].day /\ run'[q].old = run[q].old
             /\ run'[q].place = IF run[q].day = d THEN After(run[q].place, tmpTo, dstTo) ELSE run[q].place
  <2>1. run[q] \in [pc : {"idle", "open", "write", "finish", "publish", "readdir", "prune"},
                    day : Days, place : Places, ok : BOOLEAN, old : SUBSET Days]
    BY DEF BackupTypeOK
  <2>2. CASE run[q].day = d
    <3>1. run'[q] = [run[q] EXCEPT !.place = After(run[q].place, tmpTo, dstTo)]
      BY <2>2 DEF Others
    <3> QED BY <2>1, <2>2, <3>1
  <2>3. CASE run[q].day # d
    BY <2>3 DEF Others
  <2> QED BY <2>2, <2>3
<1> QED BY <1>1, <1>2

(* Where a removal leaves the archives and the listings. *)
LEMMA RemoveEffect ==
  ASSUME BackupTypeOK, NEW r \in Runs, Remove(r)
  PROVE  \E d \in run[r].old :
           /\ run[r].pc = "prune" /\ d \in Days
           /\ Archives' = Archives \ {d}
           /\ run'[r] = Pruning(run[r].old \ {d})
           /\ \A q \in Runs \ {r} :
                /\ run'[q].pc = run[q].pc /\ run'[q].day = run[q].day /\ run'[q].old = run[q].old
                /\ run'[q].place = IF run[q].day = d THEN After(run[q].place, "tmp", "gone") ELSE run[q].place
           /\ UNCHANGED cut
<1>1. PICK d \in run[r].old :
        /\ run[r].pc = "prune"
        /\ file' = [file EXCEPT ![d].dst = Absent]
        /\ run' = Others(r, d, "tmp", "gone", Pruning(run[r].old \ {d}))
        /\ UNCHANGED cut
  BY DEF Remove
<1>2. d \in Days
  BY DEF BackupTypeOK
<1>3. Archives' = Archives \ {d}
  <2>1. \A e \in Days : file'[e].dst = IF e = d THEN Absent ELSE file[e].dst
    BY <1>1, <1>2 DEF BackupTypeOK
  <2> QED BY <2>1 DEF Archives
<1>4. /\ run'[r] = Pruning(run[r].old \ {d})
      /\ \A q \in Runs \ {r} :
           /\ run'[q].pc = run[q].pc /\ run'[q].day = run[q].day /\ run'[q].old = run[q].old
           /\ run'[q].place = IF run[q].day = d THEN After(run[q].place, "tmp", "gone") ELSE run[q].place
  <2> DEFINE rec == Pruning(run[r].old \ {d})
  <2>1. run' = Others(r, d, "tmp", "gone", rec)
    BY <1>1
  <2> HIDE DEF rec
  <2>2. /\ run'[r] = rec
        /\ \A q \in Runs \ {r} :
             /\ run'[q].pc = run[q].pc /\ run'[q].day = run[q].day /\ run'[q].old = run[q].old
             /\ run'[q].place = IF run[q].day = d THEN After(run[q].place, "tmp", "gone") ELSE run[q].place
    BY <2>1, OthersEffect
  <2> QED BY <2>2 DEF rec
<1> QED BY <1>1, <1>2, <1>3, <1>4

(* A successful rename adds the archive of the run's day. *)
LEMMA PublishEffect ==
  ASSUME BackupTypeOK, NEW r \in Runs, Publish(r)
  PROVE  /\ run[r].pc = "publish" /\ run[r].day \in Days /\ UNCHANGED cut
         /\ Archives' = Archives \cup {run[r].day}
         /\ run'[r] = [run[r] EXCEPT !.pc = "readdir", !.ok = FALSE]
         /\ \A q \in Runs \ {r} :
              /\ run'[q].pc = run[q].pc /\ run'[q].day = run[q].day /\ run'[q].old = run[q].old
              /\ run'[q].place = IF run[q].day = run[r].day THEN After(run[q].place, "dst", "gone")
                                                            ELSE run[q].place
<1> DEFINE d == run[r].day
<1>1. d \in Days /\ run[r].pc = "publish" /\ UNCHANGED cut
  BY DEF BackupTypeOK, Publish
<1>2. Archives' = Archives \cup {d}
  <2>1. file' = [file EXCEPT ![d] = Renamed(file[d], Absent)] /\ file[d].tmp # Absent
    BY DEF Publish
  <2>2. \A e \in Days : file'[e].dst = IF e = d THEN file[d].tmp ELSE file[e].dst
    BY <1>1, <2>1 DEF BackupTypeOK, Renamed
  <2> QED BY <1>1, <2>1, <2>2 DEF Archives
<1>3. run' = Others(r, d, "dst", "gone", [run[r] EXCEPT !.pc = "readdir", !.ok = FALSE])
  BY DEF Publish
<1> QED BY <1>1, <1>2, <1>3, OthersEffect

(* Writing and discarding a .tmp neither adds nor removes an archive. *)
LEMMA WritersKeep ==
  ASSUME BackupTypeOK, HandleInv, NEW r \in Runs, Open(r) \/ Write(r) \/ Finish(r) \/ Discard(r)
  PROVE  Archives' = Archives
<1> DEFINE d == run[r].day
<1>1. d \in Days /\ file[d] \in [dst : Contents, tmp : Contents] /\ run[r].place \in Places
  BY DEF BackupTypeOK
<1>2. ASSUME NEW g, file' = [file EXCEPT ![d] = g],
             g.dst = file[d].dst \/ (g.dst # Absent /\ d \in Archives)
      PROVE  Archives' = Archives
  <2>1. \A e \in Days : file'[e].dst = IF e = d THEN g.dst ELSE file[e].dst
    BY <1>1, <1>2 DEF BackupTypeOK
  <2> QED BY <1>1, <1>2, <2>1 DEF Archives
<1>3. CASE Open(r)
  <2> DEFINE g == Truncated(file[d], Empty)
  <2>1. file' = [file EXCEPT ![d] = g]
    BY <1>3 DEF Open
  <2>2. g.dst = file[d].dst
    BY <1>1 DEF Truncated
  <2> HIDE DEF g
  <2> QED BY <1>2, <2>1, <2>2
<1>4. CASE Write(r) \/ Finish(r)
  <2>1. PICK c \in Contents \ {Absent} : file' = [file EXCEPT ![d] = Written(file[d], run[r].place, c)]
    BY <1>4, ContentsTypes DEF Write, Finish
  <2> DEFINE g == Written(file[d], run[r].place, c)
  <2>2. g.dst = IF run[r].place = "dst" THEN c ELSE file[d].dst
    BY <1>1 DEF Written
  <2>3. run[r].place = "dst" => d \in Archives
    BY DEF HandleInv
  <2>4. file' = [file EXCEPT ![d] = g]
    BY <2>1
  <2> HIDE DEF g
  <2> QED BY <1>2, <2>2, <2>3, <2>4
<1>5. CASE Discard(r)
  <2> DEFINE g == Unlinked(file[d], Absent)
  <2>1. file' = [file EXCEPT ![d] = g]
    BY <1>5 DEF Discard
  <2>2. g.dst = file[d].dst
    BY <1>1 DEF Unlinked
  <2> HIDE DEF g
  <2> QED BY <1>2, <2>1, <2>2
<1> QED BY <1>3, <1>4, <1>5

(* The handles stay in order. *)
LEMMA HandleStep ==
  ASSUME BackupTypeOK, HandleInv, [Next]_vars
  PROVE  HandleInv'
<1>t. \A q \in Runs : /\ run[q].day \in Days /\ run[q].place \in Places
                      /\ run[q] \in [pc : {"idle", "open", "write", "finish", "publish", "readdir", "prune"},
                                     day : Days, place : Places, ok : BOOLEAN, old : SUBSET Days]
  BY DEF BackupTypeOK
<1>r. run \in [Runs -> [pc : {"idle", "open", "write", "finish", "publish", "readdir", "prune"},
                        day : Days, place : Places, ok : BOOLEAN, old : SUBSET Days]]
  BY DEF BackupTypeOK
<1>1. CASE Midnight \/ UNCHANGED vars
  BY <1>1 DEF Midnight, vars, HandleInv, Archives
<1>2. ASSUME NEW r \in Runs, NEW rec, Move(r, rec), Archives \subseteq Archives',
             rec.place # "dst", rec.pc \notin {"write", "finish"} => rec.place = "closed"
      PROVE  HandleInv'
  <2>1. run'[r] = rec /\ \A q \in Runs \ {r} : run'[q] = run[q]
    BY <1>2, <1>r DEF Move
  <2> QED BY <1>2, <2>1 DEF HandleInv
<1>0. ASSUME NEW r \in Runs, PublishFails(r) PROVE HandleInv'
  <2>1. Archives' = Archives
    BY <1>0 DEF PublishFails, Archives
  <2>2. /\ \A q \in Runs \ {r} : run'[q] = run[q]
        /\ run[r].pc = "publish" /\ run'[r].pc = "publish"
        /\ run'[r].day = run[r].day /\ run'[r].place = run[r].place
    BY <1>0, FailedRename
  <2> QED BY <2>1, <2>2 DEF HandleInv
<1>3. ASSUME NEW r \in Runs, Start(r) \/ Die(r) \/ ReadDir(r) PROVE HandleInv'
  <2>1. Archives' = Archives
    BY <1>3 DEF Start, Die, ReadDir, Archives
  <2>2. Idle.place = "closed" /\ [Idle EXCEPT !.pc = "open", !.day = today].place = "closed"
    BY DEF Idle
  <2>3. Pruning(BeyondKeep(Archives)).place = "closed"
    BY DEF Pruning, Idle
  <2>4. \/ Move(r, Idle) \/ Move(r, [Idle EXCEPT !.pc = "open", !.day = today])
        \/ Move(r, Pruning(BeyondKeep(Archives)))
    BY <1>3 DEF Start, Die, ReadDir
  <2>5. CASE Move(r, Idle)
    BY <1>2, <2>1, <2>2, <2>5
  <2>6. CASE Move(r, [Idle EXCEPT !.pc = "open", !.day = today])
    <3> DEFINE rec == [Idle EXCEPT !.pc = "open", !.day = today]
    <3>1. Move(r, rec) /\ rec.place = "closed"
      BY <2>2, <2>6
    <3> HIDE DEF rec
    <3> QED BY <1>2, <2>1, <3>1
  <2>7. CASE Move(r, Pruning(BeyondKeep(Archives)))
    BY <1>2, <2>1, <2>3, <2>7
  <2> QED BY <2>4, <2>5, <2>6, <2>7
<1>4. ASSUME NEW r \in Runs, Open(r) PROVE HandleInv'
  <2> DEFINE rec == [run[r] EXCEPT !.pc = "write", !.place = "tmp"]
  <2>1. Move(r, rec)
    BY <1>4 DEF Open
  <2>2. rec.place = "tmp" /\ rec.pc = "write"
    BY <1>t
  <2>3. Archives' = Archives
    BY <1>4, WritersKeep
  <2> HIDE DEF rec
  <2> QED BY <1>2, <2>1, <2>2, <2>3
<1>5. ASSUME NEW r \in Runs, Write(r) PROVE HandleInv'
  <2>1. /\ run'[r] = [run[r] EXCEPT !.pc = "finish"] /\ run[r].pc = "write"
        /\ \A q \in Runs \ {r} : run'[q] = run[q]
    BY <1>5, <1>r DEF Write, Move
  <2>2. run'[r].pc = "finish" /\ run'[r].place = run[r].place /\ run'[r].day = run[r].day
    BY <2>1, <1>t
  <2>3. Archives' = Archives
    BY <1>5, WritersKeep
  <2>4. \A q \in Runs : /\ run'[q].place = run[q].place /\ run'[q].day = run[q].day
                        /\ run'[q].pc \in {"write", "finish"} <=> run[q].pc \in {"write", "finish"}
    BY <2>1, <2>2
  <2> QED BY <2>3, <2>4 DEF HandleInv
<1>6. ASSUME NEW r \in Runs, Finish(r) PROVE HandleInv'
  <2>1. PICK ok \in BOOLEAN : Move(r, [run[r] EXCEPT !.pc = "publish", !.place = "closed", !.ok = ok])
    BY <1>6 DEF Finish
  <2> DEFINE rec == [run[r] EXCEPT !.pc = "publish", !.place = "closed", !.ok = ok]
  <2>2. rec.place = "closed"
    BY <1>t
  <2>3. Archives' = Archives
    BY <1>6, WritersKeep
  <2>4. Move(r, rec)
    BY <2>1
  <2> HIDE DEF rec
  <2> QED BY <1>2, <2>2, <2>3, <2>4
<1>7. ASSUME NEW r \in Runs, Discard(r) PROVE HandleInv'
  <2>1. run' = Others(r, run[r].day, "gone", "dst", Idle)
    BY <1>7 DEF Discard
  <2>2. Archives' = Archives
    BY <1>7, WritersKeep
  <2>3. Idle.place = "closed"
    BY DEF Idle
  <2>4. /\ run'[r] = Idle
        /\ \A q \in Runs \ {r} :
             /\ run'[q].pc = run[q].pc /\ run'[q].day = run[q].day
             /\ run'[q].place = IF run[q].day = run[r].day THEN After(run[q].place, "gone", "dst")
                                                           ELSE run[q].place
    BY <2>1, OthersEffect
  <2>5. \A q \in Runs : /\ After(run[q].place, "gone", "dst") = "dst" => run[q].place = "dst"
                        /\ run[q].place = "closed" => After(run[q].place, "gone", "dst") = "closed"
    BY <1>t DEF After, Places
  <2> QED BY <2>2, <2>3, <2>4, <2>5 DEF HandleInv
<1>8. ASSUME NEW r \in Runs, Publish(r) PROVE HandleInv'
  <2>1. /\ run[r].pc = "publish" /\ Archives' = Archives \cup {run[r].day}
        /\ run'[r] = [run[r] EXCEPT !.pc = "readdir", !.ok = FALSE]
        /\ \A q \in Runs \ {r} :
             /\ run'[q].pc = run[q].pc /\ run'[q].day = run[q].day
             /\ run'[q].place = IF run[q].day = run[r].day THEN After(run[q].place, "dst", "gone")
                                                           ELSE run[q].place
    BY <1>8, PublishEffect
  <2>2. run'[r].place = "closed"
    BY <1>t, <2>1 DEF HandleInv
  <2>3. \A q \in Runs : run[q].place = "closed" => After(run[q].place, "dst", "gone") = "closed"
    BY DEF After
  <2> QED BY <2>1, <2>2, <2>3 DEF HandleInv
<1>9. ASSUME NEW r \in Runs, Remove(r) PROVE HandleInv'
  <2>1. PICK d \in run[r].old :
           /\ run[r].pc = "prune" /\ d \in Days
           /\ Archives' = Archives \ {d}
           /\ run'[r] = Pruning(run[r].old \ {d})
           /\ \A q \in Runs \ {r} :
                /\ run'[q].pc = run[q].pc /\ run'[q].day = run[q].day /\ run'[q].old = run[q].old
                /\ run'[q].place = IF run[q].day = d THEN After(run[q].place, "tmp", "gone") ELSE run[q].place
           /\ UNCHANGED cut
    BY <1>9, RemoveEffect
  <2>2. run'[r].place = "closed"
    BY <2>1 DEF Pruning, Idle
  <2>3. \A q \in Runs : /\ After(run[q].place, "tmp", "gone") # "dst"
                        /\ run[q].place = "closed" => After(run[q].place, "tmp", "gone") = "closed"
    BY <1>t DEF After, Places
  <2> QED BY <2>1, <2>2, <2>3 DEF HandleInv
<1> QED BY <1>0, <1>1, <1>3, <1>4, <1>5, <1>6, <1>7, <1>8, <1>9 DEF Next

(* Runs are finitely many. *)
LEMMA RunSets ==
  ASSUME NEW S \in SUBSET Runs
  PROVE  IsFiniteSet(S) /\ Cardinality(S) \in Nat
<1>1. IsFiniteSet(S)
  BY RunsAssumption, FS_Subset
<1> QED BY <1>1, FS_CardinalityType

(* What is owed stays the same when nobody publishes or prunes. *)
LEMMA OwedSame ==
  ASSUME OwedInv, ~cut, Archives' = Archives,
         \A q \in Runs : /\ run'[q].pc \in {"readdir", "prune"} <=> run[q].pc \in {"readdir", "prune"}
                         /\ run'[q].pc = "prune" <=> run[q].pc = "prune"
                         /\ run[q].pc = "prune" => run'[q].old = run[q].old
  PROVE  OwedInv'
<1> SUFFICES ASSUME NEW S \in SUBSET Pruners'
             PROVE  Cardinality(Archives' \ Listed(S)') <= Keep + Cardinality(Owing' \ S)
  BY DEF OwedInv
<1>1. Owing' = Owing
  BY DEF Owing
<1>2. Pruners' = Pruners
  BY DEF Pruners
<1>3. Listed(S)' = Listed(S)
  <2>1. \A q \in S : run'[q].old = run[q].old
    BY <1>2 DEF Pruners
  <2> QED BY <2>1 DEF Listed
<1> QED BY <1>1, <1>2, <1>3 DEF OwedInv

LEMMA OwedStep ==
  ASSUME BackupTypeOK, HandleInv, OwedInv, [Next]_vars
  PROVE  OwedInv'
<1>0. SUFFICES ASSUME ~cut' PROVE OwedInv'
  BY DEF OwedInv
<1>r. run \in [Runs -> [pc : {"idle", "open", "write", "finish", "publish", "readdir", "prune"},
                        day : Days, place : Places, ok : BOOLEAN, old : SUBSET Days]]
  BY DEF BackupTypeOK
<1>a. Archives \in SUBSET Days /\ Owing \in SUBSET Runs /\ Pruners \in SUBSET Owing
  BY DEF Archives, Owing, Pruners
<1>1. CASE Midnight \/ UNCHANGED vars
  <2>1. UNCHANGED <<file, run, cut>>
    BY <1>1 DEF Midnight, vars
  <2> QED BY <1>0, <2>1, OwedSame DEF Archives
<1>2. ASSUME NEW r \in Runs, NEW rec, Move(r, rec), Archives' = Archives, ~cut,
             run[r].pc \notin {"readdir", "prune"}, rec.pc \notin {"readdir", "prune"}
      PROVE  OwedInv'
  <2>1. run'[r] = rec /\ \A q \in Runs \ {r} : run'[q] = run[q]
    BY <1>2, <1>r DEF Move
  <2>2. \A q \in Runs : /\ run'[q].pc \in {"readdir", "prune"} <=> run[q].pc \in {"readdir", "prune"}
                        /\ run'[q].pc = "prune" <=> run[q].pc = "prune"
                        /\ run[q].pc = "prune" => run'[q].old = run[q].old
    BY <1>2, <2>1
  <2> QED BY <1>2, <2>2, OwedSame
<1>3. ASSUME NEW r \in Runs, Start(r) PROVE OwedInv'
  <2> DEFINE rec == [Idle EXCEPT !.pc = "open", !.day = today]
  <2>1. Move(r, rec) /\ Archives' = Archives /\ ~cut /\ run[r].pc = "idle"
    BY <1>0, <1>3 DEF Start, Archives
  <2>2. rec.pc = "open"
    BY DEF Idle
  <2> HIDE DEF rec
  <2> QED BY <1>2, <2>1, <2>2
<1>4. ASSUME NEW r \in Runs, PublishFails(r) \/ Die(r) PROVE OwedInv'
  <2>1. Archives' = Archives
    BY <1>4 DEF PublishFails, Die, Archives
  <2>2. CASE PublishFails(r)
    BY <1>0, <2>1, <2>2, FailedRename, OwedSame
  <2>3. CASE Die(r)
    <3>1. Move(r, Idle) /\ ~cut /\ run[r].pc \notin {"readdir", "prune"} /\ Idle.pc = "idle"
      BY <1>0, <2>3 DEF Die, Idle
    <3> QED BY <1>2, <2>1, <3>1
  <2> QED BY <1>4, <2>2, <2>3
<1>5. ASSUME NEW r \in Runs, Open(r) \/ Write(r) \/ Finish(r) PROVE OwedInv'
  <2>1. Archives' = Archives
    BY <1>5, WritersKeep
  <2>2. ~cut /\ run[r].pc \notin {"readdir", "prune"}
    <3>1. CASE Open(r) \/ Write(r)
      BY <1>0, <3>1 DEF Open, Write
    <3>2. CASE Finish(r)
      BY <1>0, <3>2 DEF Finish
    <3> QED BY <1>5, <3>1, <3>2
  <2>3. run'[r].pc \in {"write", "finish", "publish"} /\ \A q \in Runs \ {r} : run'[q] = run[q]
    <3>1. CASE Open(r)
      BY <3>1, <1>r DEF Open, Move
    <3>2. CASE Write(r)
      BY <3>2, <1>r DEF Write, Move
    <3>3. CASE Finish(r)
      BY <3>3, <1>r DEF Finish, Move
    <3> QED BY <1>5, <3>1, <3>2, <3>3
  <2>4. \A q \in Runs : /\ run'[q].pc \in {"readdir", "prune"} <=> run[q].pc \in {"readdir", "prune"}
                        /\ run'[q].pc = "prune" <=> run[q].pc = "prune"
                        /\ run[q].pc = "prune" => run'[q].old = run[q].old
    BY <2>2, <2>3
  <2> QED BY <2>1, <2>2, <2>4, OwedSame
<1>6. ASSUME NEW r \in Runs, Discard(r) PROVE OwedInv'
  <2>1. Archives' = Archives
    BY <1>6, WritersKeep
  <2>2. ~cut /\ run[r].pc \notin {"readdir", "prune"} /\ Idle.pc = "idle"
    BY <1>0, <1>6 DEF Discard, Idle
  <2>3. run' = Others(r, run[r].day, "gone", "dst", Idle)
    BY <1>6 DEF Discard
  <2>4. /\ run'[r] = Idle
        /\ \A q \in Runs \ {r} : run'[q].pc = run[q].pc /\ run'[q].old = run[q].old
    BY <2>3, OthersEffect
  <2>5. \A q \in Runs : /\ run'[q].pc \in {"readdir", "prune"} <=> run[q].pc \in {"readdir", "prune"}
                        /\ run'[q].pc = "prune" <=> run[q].pc = "prune"
                        /\ run[q].pc = "prune" => run'[q].old = run[q].old
    BY <2>2, <2>4
  <2> QED BY <2>1, <2>2, <2>5, OwedSame
<1>7. ASSUME NEW r \in Runs, Publish(r) PROVE OwedInv'
  <2> DEFINE d == run[r].day
  <2>1. /\ run[r].pc = "publish" /\ d \in Days /\ ~cut
        /\ Archives' = Archives \cup {d}
        /\ run'[r] = [run[r] EXCEPT !.pc = "readdir", !.ok = FALSE]
        /\ \A q \in Runs \ {r} : run'[q].pc = run[q].pc /\ run'[q].old = run[q].old
    BY <1>0, <1>7, PublishEffect
  <2>2. run'[r].pc = "readdir"
    BY <2>1, <1>r
  <2>3. Owing' = Owing \cup {r} /\ r \notin Owing /\ Pruners' = Pruners
    BY <2>1, <2>2 DEF Owing, Pruners
  <2> SUFFICES ASSUME NEW S \in SUBSET Pruners'
               PROVE  Cardinality(Archives' \ Listed(S)') <= Keep + Cardinality(Owing' \ S)
    BY DEF OwedInv
  <2>4. S \in SUBSET Pruners /\ r \notin S
    BY <2>3, <1>a
  <2>5. Listed(S)' = Listed(S)
    <3>1. \A q \in S : run'[q].old = run[q].old
      BY <2>1, <2>4 DEF Pruners
    <3> QED BY <3>1 DEF Listed
  <2> DEFINE A == Archives \ Listed(S)
             O == Owing \ S
             B == Archives' \ Listed(S)'
  <2>6. Cardinality(A) <= Keep + Cardinality(O)
    BY <2>1, <2>4 DEF OwedInv
  <2>7. Owing' \ S = O \cup {r} /\ r \notin O /\ O \in SUBSET Runs
    BY <2>3, <2>4, <1>a
  <2>8. B \in SUBSET (A \cup {d}) /\ A \in SUBSET Days /\ (A \cup {d}) \in SUBSET Days
    BY <2>1, <2>5, <1>a
  <2> HIDE DEF A, O, B, d
  <2>9. Cardinality(O \cup {r}) = Cardinality(O) + 1 /\ Cardinality(O) \in Nat
    BY <2>7, RunSets, FS_AddElement
  <2>10. Cardinality(B) <= Cardinality(A) + 1 /\ Cardinality(B) \in Nat /\ Cardinality(A) \in Nat
    <3>1. IsFiniteSet(A) /\ Cardinality(A) \in Nat
      <4>1. {} \in SUBSET A
        OBVIOUS
      <4> QED BY <2>8, <4>1, DaySets
    <3>2. Cardinality(A \cup {d}) = IF d \in A THEN Cardinality(A) ELSE Cardinality(A) + 1
      BY <3>1, FS_AddElement
    <3>3. Cardinality(B) <= Cardinality(A \cup {d}) /\ Cardinality(B) \in Nat
      BY <2>8, DaySets
    <3> QED BY <3>1, <3>2, <3>3
  <2>11. Cardinality(B) <= Keep + Cardinality(O \cup {r})
    BY <2>6, <2>9, <2>10, KeepAssumption
  <2> QED BY <2>7, <2>11 DEF B
<1>8. ASSUME NEW r \in Runs, ReadDir(r) PROVE OwedInv'
  <2> DEFINE L == BeyondKeep(Archives)
  <2>1. run[r].pc = "readdir" /\ Archives' = Archives /\ ~cut
    BY <1>0, <1>8 DEF ReadDir, Archives
  <2>2. run'[r] = Pruning(L) /\ \A q \in Runs \ {r} : run'[q] = run[q]
    BY <1>8, <1>r DEF ReadDir, Move
  <2>3. Cardinality(Archives \ L) <= Keep
    BY <1>a, KeepBound
  <2> SUFFICES ASSUME NEW S \in SUBSET Pruners'
               PROVE  Cardinality(Archives' \ Listed(S)') <= Keep + Cardinality(Owing' \ S)
    BY DEF OwedInv
  <2>4. Cardinality(Owing' \ S) \in Nat
    <3>1. Owing' \ S \in SUBSET Runs
      BY DEF Owing
    <3> QED BY <3>1, RunSets
  <2>5. L \in SUBSET Days
    BY <1>a DEF BeyondKeep
  <2> HIDE DEF L
  <2>p. Pruning(L).old = L /\ (Pruning(L).pc = "prune" \/ (L = {} /\ Pruning(L).pc = "idle"))
    BY <2>5 DEF Pruning, Idle
  <2>6. ASSUME NEW B \in SUBSET (Archives \ L) PROVE Cardinality(B) <= Keep + Cardinality(Owing' \ S)
    <3>1. Cardinality(B) <= Cardinality(Archives \ L) /\ Cardinality(B) \in Nat
          /\ Cardinality(Archives \ L) \in Nat
      <4>1. Archives \ L \in SUBSET Days
        BY <1>a
      <4> QED BY <4>1, DaySets
    <3> QED BY <2>3, <2>4, <3>1, KeepAssumption
  <2>7. CASE r \in S \/ L = {}
    <3>1. Archives' \ Listed(S)' \in SUBSET (Archives \ L)
      <4>1. CASE L = {}
        BY <2>1, <4>1
      <4>2. CASE r \in S
        <5>1. L \subseteq Listed(S)'
          BY <2>2, <2>p, <4>2 DEF Listed
        <5> QED BY <2>1, <5>1
      <4> QED BY <2>7, <4>1, <4>2
    <3> QED BY <2>6, <3>1
  <2>8. CASE r \notin S /\ L # {}
    <3>1. S \in SUBSET Pruners
      BY <2>2, <2>8 DEF Pruners
    <3>2. Listed(S)' = Listed(S)
      <4>1. \A q \in S : run'[q].old = run[q].old
        BY <2>2, <2>8 DEF Pruners
      <4> QED BY <4>1 DEF Listed
    <3>3. run'[r].pc = "prune"
      BY <2>2, <2>p, <2>8
    <3>4. Owing' = Owing
      BY <2>1, <2>2, <3>3 DEF Owing
    <3> QED BY <2>1, <3>1, <3>2, <3>4 DEF OwedInv
  <2> QED BY <2>7, <2>8
<1>9. ASSUME NEW r \in Runs, Remove(r) PROVE OwedInv'
  <2>1. PICK d \in run[r].old :
           /\ run[r].pc = "prune" /\ d \in Days
           /\ Archives' = Archives \ {d}
           /\ run'[r] = Pruning(run[r].old \ {d})
           /\ \A q \in Runs \ {r} :
                /\ run'[q].pc = run[q].pc /\ run'[q].day = run[q].day /\ run'[q].old = run[q].old
                /\ run'[q].place = IF run[q].day = d THEN After(run[q].place, "tmp", "gone") ELSE run[q].place
           /\ UNCHANGED cut
    BY <1>9, RemoveEffect
  <2>2. ~cut /\ r \in Pruners /\ r \in Owing
    BY <1>0, <2>1 DEF Pruners, Owing
  <2> DEFINE rest == run[r].old \ {d}
  <2>3. rest \in SUBSET Days
    BY <1>r
  <2>p. /\ Pruning(rest).old = rest
        /\ IF rest = {} THEN Pruning(rest).pc = "idle" ELSE Pruning(rest).pc = "prune"
    <3> HIDE DEF rest
    <3> QED BY <2>3 DEF Pruning, Idle
  <2>4. /\ run'[r].old = run[r].old \ {d}
        /\ IF run[r].old = {d} THEN run'[r].pc = "idle" ELSE run'[r].pc = "prune"
    BY <2>1, <2>p
  <2> HIDE DEF rest
  <2> SUFFICES ASSUME NEW S \in SUBSET Pruners'
               PROVE  Cardinality(Archives' \ Listed(S)') <= Keep + Cardinality(Owing' \ S)
    BY DEF OwedInv
  <2>5. S \in SUBSET Pruners
    BY <2>1, <2>2 DEF Pruners
  <2>6. ASSUME NEW T \in SUBSET Pruners,
               Archives' \ Listed(S)' \in SUBSET (Archives \ Listed(T)), Owing' \ S = Owing \ T
        PROVE  Cardinality(Archives' \ Listed(S)') <= Keep + Cardinality(Owing' \ S)
    <3> DEFINE A == Archives \ Listed(T)
               B == Archives' \ Listed(S)'
    <3>1. Cardinality(A) <= Keep + Cardinality(Owing \ T)
      BY <2>2, <2>6 DEF OwedInv
    <3>2. A \in SUBSET Days /\ B \in SUBSET A
      BY <1>a, <2>6
    <3>3. Owing \ T \in SUBSET Runs
      BY <1>a
    <3> HIDE DEF A, B
    <3>4. Cardinality(B) <= Cardinality(A) /\ Cardinality(B) \in Nat /\ Cardinality(A) \in Nat
      BY <3>2, DaySets
    <3>5. Cardinality(B) <= Keep + Cardinality(Owing \ T)
      BY <3>1, <3>3, <3>4, RunSets, KeepAssumption
    <3> QED BY <2>6, <3>5 DEF B
  <2>7. CASE run[r].old = {d}
    <3>1. r \notin S /\ S \cup {r} \in SUBSET Pruners
      BY <2>2, <2>4, <2>5, <2>7 DEF Pruners
    <3>2. Listed(S \cup {r}) = Listed(S)' \cup {d}
      <4>1. \A q \in S : run'[q].old = run[q].old
        BY <2>1, <2>5, <3>1 DEF Pruners
      <4> QED BY <2>7, <4>1 DEF Listed
    <3>3. Owing' = Owing \ {r}
      BY <2>1, <2>4, <2>7 DEF Owing
    <3>4. Archives' \ Listed(S)' \in SUBSET (Archives \ Listed(S \cup {r})) /\ Owing' \ S = Owing \ (S \cup {r})
      BY <2>1, <3>2, <3>3
    <3> QED BY <2>6, <3>1, <3>4
  <2>8. CASE run[r].old # {d}
    <3>1. Owing' = Owing
      BY <2>1, <2>2, <2>4, <2>8 DEF Owing
    <3>2. Listed(S) \subseteq Listed(S)' \cup {d}
      <4>1. \A q \in S : run[q].old \subseteq run'[q].old \cup {d}
        BY <2>1, <2>4, <2>5 DEF Pruners
      <4> QED BY <4>1 DEF Listed
    <3>3. Archives' \ Listed(S)' \in SUBSET (Archives \ Listed(S))
      BY <2>1, <3>2
    <3> QED BY <2>5, <2>6, <3>1, <3>3
  <2> QED BY <2>7, <2>8
<1> QED BY <1>1, <1>3, <1>4, <1>5, <1>6, <1>7, <1>8, <1>9 DEF Next

-----------------------------------------------------------------------------
(* The invariant holds at the start, and every step keeps it. *)
LEMMA BackupInductive ==
  /\ Init => BackupTypeOK /\ OldIsOld /\ WholeInv /\ HandleInv /\ OwedInv
  /\ BackupTypeOK /\ OldIsOld /\ WholeInv /\ HandleInv /\ OwedInv /\ [Next]_vars
       => BackupTypeOK' /\ OldIsOld' /\ WholeInv' /\ HandleInv' /\ OwedInv'
<1>1. ASSUME Init PROVE BackupTypeOK
  <2>1. 1 \in Days
    BY MaxDayAssumption DEF Days
  <2>2. Idle.pc # "prune"
    BY DEF Idle
  <2> QED BY <1>1, <2>1, <2>2, RecordTypes, ContentsTypes DEF Init, BackupTypeOK
<1>2. ASSUME Init PROVE OldIsOld
  BY <1>2 DEF Init, OldIsOld, Idle
<1>3. ASSUME Init PROVE WholeInv
  BY <1>3 DEF Init, WholeInv, OwnTmp, Writing, Idle
<1>4. ASSUME Init PROVE HandleInv
  BY <1>4 DEF Init, HandleInv, Idle
<1>5. ASSUME Init PROVE OwedInv
  <2>1. Archives = {}
    BY <1>5 DEF Init, Archives
  <2> SUFFICES ASSUME NEW S \in SUBSET Pruners
               PROVE  Cardinality(Archives \ Listed(S)) <= Keep + Cardinality(Owing \ S)
    BY DEF OwedInv
  <2>2. Archives \ Listed(S) = {} /\ Owing \ S \in SUBSET Runs
    BY <2>1 DEF Owing
  <2>3. Cardinality(Owing \ S) \in Nat
    BY <2>2, RunSets
  <2> QED BY <2>2, <2>3, FS_EmptySet, KeepAssumption
<1> QED BY <1>1, <1>2, <1>3, <1>4, <1>5, TypeStep, OldIsOldStep, WholeStep, HandleStep, OwedStep

(* Every variable of the backup runs keeps its type, and a run that prunes *)
(* always has something left to remove.                                    *)
THEOREM TypeCorrect == Spec => []BackupTypeOK
BY BackupInductive, PTL DEF Spec

(* Every archive is one complete dump as long as no two runs have used the *)
(* .tmp file of the same day together, however many runs fail or die.      *)
THEOREM ArchivesAreWhole == Spec => []ArchivesWhole
<1>1. BackupTypeOK /\ WholeInv => ArchivesWhole
  BY DEF WholeInv, ArchivesWhole, Archives
<1> QED BY <1>1, BackupInductive, PTL DEF Spec

(* Concurrent prunes working from old listings never remove one of the     *)
(* Keep newest archives.                                                   *)
THEOREM NewestArchivesKept == Spec => PruneKeepsNewest
<1>1. ASSUME BackupTypeOK, OldIsOld, [Next]_vars, NEW d \in Archives \ Archives'
      PROVE  Cardinality({e \in Archives : e > d}) >= Keep
  <2>1. PICK r \in Runs : Remove(r)
    BY <1>1, ArchivesGrow
  <2>2. PICK x \in run[r].old : file' = [file EXCEPT ![x].dst = Absent]
    BY <2>1 DEF Remove
  <2>3. d = x
    BY <1>1, <2>2 DEF Archives, BackupTypeOK
  <2> QED BY <1>1, <2>2, <2>3 DEF OldIsOld
<1>2. BackupTypeOK /\ OldIsOld /\ [Next]_vars
        => [\A d \in Archives \ Archives' : Cardinality({e \in Archives : e > d}) >= Keep]_vars
  BY <1>1
<1> QED BY <1>2, BackupInductive, PTL DEF Spec, PruneKeepsNewest

(* Unless a run was cut short between its rename and the end of prune,     *)
(* every archive beyond Keep is owed by a run that is still to prune, even *)
(* when concurrent runs have the same archives on their listings and a     *)
(* removal finds its archive gone.                                         *)
THEOREM RetentionIsBounded == Spec => []RetentionBounded
<1>1. OwedInv => RetentionBounded
  <2> SUFFICES ASSUME OwedInv, ~cut PROVE Cardinality(Archives) <= Keep + Cardinality(Owing)
    BY DEF RetentionBounded, Owing
  <2>1. {} \in SUBSET Pruners /\ Listed({}) = {}
    BY DEF Listed
  <2>2. Archives \ Listed({}) = Archives /\ Owing \ {} = Owing
    BY <2>1
  <2>3. Cardinality(Archives \ Listed({})) <= Keep + Cardinality(Owing \ {})
    BY <2>1 DEF OwedInv
  <2> QED BY <2>2, <2>3
<1> QED BY <1>1, BackupInductive, PTL DEF Spec
====
