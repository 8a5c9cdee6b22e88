------------------------------ MODULE TempFile ------------------------------
(***************************************************************************)
(* A file that is replaced the way writePEM (internal/pki/trust.go),       *)
(* WriteResults (internal/render/render.go) and Run                        *)
(* (internal/backup/pgdump.go) do it: create or truncate path+".tmp",      *)
(* write it, rename it over path.  The temporary name is fixed, so         *)
(* concurrent writers share it.                                            *)
(*                                                                         *)
(* A writer keeps an open handle while others rename: "tmp" when its inode *)
(* is still the temporary file, "dst" when somebody renamed it over path,  *)
(* "gone" when it has no name any more, "closed" before open.              *)
(***************************************************************************)
Places == {"closed", "tmp", "dst", "gone"}

(* os.OpenFile(tmp, O_CREATE|O_TRUNC): whoever has it open shares it. *)
Truncated(f, torn) == [f EXCEPT !.tmp = torn]

(* A write through a handle reaches the file wherever it is now. *)
Written(f, place, content) ==
  CASE place = "tmp" -> [f EXCEPT !.tmp = content]
    [] place = "dst" -> [f EXCEPT !.dst = content]
    [] OTHER         -> f

(* os.Rename(tmp, path). *)
Renamed(f, absent) == [dst |-> f.tmp, tmp |-> absent]

(* A handle, once the names of the two files have moved. *)
After(place, tmpTo, dstTo) ==
  CASE place = "tmp" -> tmpTo
    [] place = "dst" -> dstTo
    [] OTHER         -> place

AfterRename(place) == After(place, "dst", "gone")

(* os.Remove(tmp). *)
Unlinked(f, absent) == [f EXCEPT !.tmp = absent]
====
