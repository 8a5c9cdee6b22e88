------------------------------- MODULE Backup -------------------------------
(***************************************************************************)
(* The backups of one tenant (internal/backup/pgdump.go): each run of      *)
(* `controlai backup run`, started by the daily timer or by an operator,   *)
(* is a process of its own.  It streams pg_dump into <day>.sql.gz.tmp,     *)
(* renames it to <day>.sql.gz and removes the oldest archives beyond Keep. *)
(* Nothing keeps two runs apart, and a run may die at any point.           *)
(*                                                                         *)
(* An archive is known by its UTC day; of its bytes only matters whether   *)
(* they are one complete dump.                                             *)
(***************************************************************************)
EXTENDS Integers, FiniteSets, TempFile

CONSTANTS
  Runs,      \* backup processes that may be alive together
  NoRun,     \* nobody
  Keep,      \* KeepCount
  MaxDay     \* days the clock may show

ASSUME RunsAssumption == IsFiniteSet(Runs)
ASSUME KeepAssumption == Keep \in Nat \ {0}
ASSUME MaxDayAssumption == MaxDay \in Nat \ {0}
ASSUME NoRunAssumption == NoRun \notin Runs

Days == 1 .. MaxDay

VARIABLES
  today,       \* the UTC date
  file,        \* file[d]: the archive of day d and its .tmp
  run,         \* run[r]: where a run is, and its local variables
  overlapped,  \* two runs have had the .tmp of one day in use together
  cut          \* a run ended between its rename and the end of prune

vars == <<today, file, run, overlapped, cut>>

(* What a file holds: nothing yet, a part written by one run, one whole    *)
(* dump, or anything else (a truncated dump, two dumps mixed).             *)
Absent     == [what |-> "absent", by |-> NoRun]
Empty      == [what |-> "empty",  by |-> NoRun]
Part(r)    == [what |-> "part",   by |-> r]
Whole      == [what |-> "whole",  by |-> NoRun]
Bad        == [what |-> "bad",    by |-> NoRun]

Idle == [pc |-> "idle", day |-> 1, place |-> "closed", ok |-> FALSE, old |-> {}]

Init ==
  /\ today = 1
  /\ file = [d \in Days |-> [dst |-> Absent, tmp |-> Absent]]
  /\ run = [r \in Runs |-> Idle]
  /\ overlapped = FALSE /\ cut = FALSE

(* List: the archives that exist. *)
Archives == {d \in Days : file[d].dst # Absent}

Move(r, rec) == run' = [run EXCEPT ![r] = rec]

(* Every other handle on day d's files, after they were renamed or removed. *)
Others(r, d, tmpTo, dstTo, rec) ==
  [q \in Runs |-> IF q = r THEN rec
                  ELSE IF run[q].day = d THEN [run[q] EXCEPT !.place = After(@, tmpTo, dstTo)]
                  ELSE run[q]]

-----------------------------------------------------------------------------
Midnight ==
  /\ today < MaxDay /\ today' = today + 1
  /\ UNCHANGED <<file, run, overlapped, cut>>

(* Run: the day is stamped when the run starts, then pg_dump is started. *)
Start(r) ==
  /\ run[r].pc = "idle"
  /\ Move(r, [Idle EXCEPT !.pc = "open", !.day = today])
  /\ UNCHANGED <<today, file, overlapped, cut>>

(* os.OpenFile of the .tmp with O_TRUNC, whoever else has it open. *)
Open(r) ==
  LET d == run[r].day IN
  /\ run[r].pc = "open"
  /\ file' = [file EXCEPT ![d] = Truncated(@, Empty)]
  /\ Move(r, [run[r] EXCEPT !.pc = "write", !.place = "tmp"])
  /\ overlapped' = (overlapped \/ \E q \in Runs \ {r} :
                      run[q].day = d /\ run[q].pc \in {"write", "finish", "publish"})
  /\ UNCHANGED <<today, cut>>

(* What the file at r's handle holds. *)
AtHandle(r) == IF run[r].place = "dst" THEN file[run[r].day].dst ELSE file[run[r].day].tmp

(* io.Copy, from offset 0: a dump of its own only in an empty file. *)
Write(r) ==
  LET d == run[r].day
      content == IF AtHandle(r) = Empty THEN Part(r) ELSE Bad IN
  /\ run[r].pc = "write"
  /\ file' = [file EXCEPT ![d] = Written(@, run[r].place, content)]
  /\ Move(r, [run[r] EXCEPT !.pc = "finish"])
  /\ UNCHANGED <<today, overlapped, cut>>

(* The rest of the stream, gzip and file closed.  pg_dump may have died:   *)
(* its output then ends early, without an error of the copy.               *)
Finish(r) ==
  \E ok \in BOOLEAN :
    LET d == run[r].day
        content == IF ok /\ AtHandle(r) = Part(r) THEN Whole ELSE Bad IN
    /\ run[r].pc = "finish"
    /\ file' = [file EXCEPT ![d] = Written(@, run[r].place, content)]
    /\ Move(r, [run[r] EXCEPT !.pc = "publish", !.place = "closed", !.ok = ok])
    /\ UNCHANGED <<today, overlapped, cut>>

(* After an error of copy, gzip or close, cmd.Wait reporting that pg_dump  *)
(* failed, or a failed rename: the .tmp is removed, whoever's it is.       *)
Discard(r) ==
  LET d == run[r].day IN
  /\ run[r].pc \in {"write", "finish"} \/ (run[r].pc = "publish" /\ ~run[r].ok)
  /\ file' = [file EXCEPT ![d] = Unlinked(@, Absent)]
  /\ run' = Others(r, d, "gone", "dst", Idle)
  /\ UNCHANGED <<today, overlapped, cut>>

(* Mutant: the exit status of pg_dump is not looked at. *)
PublishAnyway(r) ==
  LET d == run[r].day IN
  /\ run[r].pc = "publish" /\ file[d].tmp # Absent
  /\ file' = [file EXCEPT ![d] = Renamed(@, Absent)]
  /\ run' = Others(r, d, "dst", "gone", [run[r] EXCEPT !.pc = "readdir", !.ok = FALSE])
  /\ UNCHANGED <<today, overlapped, cut>>

(* cmd.Wait succeeded, and so does os.Rename of the .tmp. *)
Publish(r) ==
  LET d == run[r].day IN
  /\ run[r].pc = "publish" /\ run[r].ok /\ file[d].tmp # Absent
  /\ file' = [file EXCEPT ![d] = Renamed(@, Absent)]
  /\ run' = Others(r, d, "dst", "gone", [run[r] EXCEPT !.pc = "readdir", !.ok = FALSE])
  /\ UNCHANGED <<today, overlapped, cut>>

(* The rename fails, for one because another run has removed the .tmp; what *)
(* is at that name by the time of os.Remove then goes, see Discard.         *)
PublishFails(r) ==
  /\ run[r].pc = "publish" /\ run[r].ok
  /\ Move(r, [run[r] EXCEPT !.ok = FALSE])
  /\ UNCHANGED <<today, file, overlapped, cut>>

(* Mutant: one archive too few is kept. *)
BeyondKeepOffByOne(listed) == {d \in listed : Cardinality({e \in listed : e > d}) >= Keep - 1}

(* prune: what is left of the sorted listing once Keep entries remain. *)
BeyondKeep(listed) == {d \in listed : Cardinality({e \in listed : e > d}) >= Keep}

(* Mutant: the loop does not test what is left. *)
PruningAlways(old) == [Idle EXCEPT !.pc = "prune", !.old = old]

Pruning(old) == IF old = {} THEN Idle ELSE [Idle EXCEPT !.pc = "prune", !.old = old]

(* Mutant: prune starts only when the limit is exceeded by two. *)
ReadDirLazy(r) ==
  /\ run[r].pc = "readdir"
  /\ Move(r, IF Cardinality(Archives) > Keep + 1 THEN Pruning(BeyondKeep(Archives)) ELSE Idle)
  /\ UNCHANGED <<today, file, overlapped, cut>>

(* os.ReadDir: the listing is not read again while it is worked off. *)
ReadDir(r) ==
  /\ run[r].pc = "readdir"
  /\ Move(r, Pruning(BeyondKeep(Archives)))
  /\ UNCHANGED <<today, file, overlapped, cut>>

(* os.Remove of the oldest one listed; one that is gone already is fine. *)
Remove(r) ==
  \E d \in run[r].old :
    /\ run[r].pc = "prune" /\ \A e \in run[r].old : d <= e
    /\ file' = [file EXCEPT ![d].dst = Absent]
    /\ run' = Others(r, d, "tmp", "gone", Pruning(run[r].old \ {d}))
    /\ UNCHANGED <<today, overlapped, cut>>

(* An error of ReadDir or Remove is a warning; the process may also be     *)
(* killed, at any point: what it has written stays.                        *)
Die(r) ==
  /\ run[r].pc # "idle"
  /\ Move(r, Idle)
  /\ cut' = (cut \/ run[r].pc \in {"readdir", "prune"})
  /\ UNCHANGED <<today, file, overlapped>>

Next ==
  \/ Midnight
  \/ \E r \in Runs :
       \/ Start(r) \/ Open(r) \/ Write(r) \/ Finish(r) \/ Discard(r)
       \/ Publish(r) \/ PublishFails(r) \/ ReadDir(r) \/ Remove(r) \/ Die(r)

Spec == Init /\ [][Next]_vars

-----------------------------------------------------------------------------
Contents == [what : {"absent", "empty", "part", "whole", "bad"}, by : Runs \cup {NoRun}]

(* Every variable keeps its type. *)
BackupTypeOK ==
  /\ today \in Days
  /\ file \in [Days -> [dst : Contents, tmp : Contents]]
  /\ run \in [Runs -> [pc : {"idle", "open", "write", "finish", "publish", "readdir", "prune"},
                       day : Days, place : Places, ok : BOOLEAN, old : SUBSET Days]]
  /\ \A r \in Runs : run[r].pc = "prune" => run[r].old # {}
  /\ overlapped \in BOOLEAN /\ cut \in BOOLEAN

(* Every archive is one complete dump, although runs fail and die at any   *)
(* point and leave their .tmp behind: only two runs that use the .tmp of   *)
(* the same day at the same time can publish anything else.                *)
ArchivesWhole == ~overlapped => \A d \in Archives : file[d].dst = Whole

(* Pruning removes an archive only when Keep newer ones exist at that      *)
(* moment, however old the listing it works from and whatever other runs   *)
(* have published or pruned since.                                         *)
PruneKeepsNewest ==
  [][\A d \in Archives \ Archives' : Cardinality({e \in Archives : e > d}) >= Keep]_vars

(* No more than Keep archives stay: every further one is owed by a run     *)
(* that has published and is still to prune, unless such a run was cut     *)
(* short.                                                                  *)
RetentionBounded ==
  ~cut => Cardinality(Archives)
            <= Keep + Cardinality({r \in Runs : run[r].pc \in {"readdir", "prune"}})
====
