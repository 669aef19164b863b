--------------------------- MODULE SessionArchive ---------------------------
(* What a collector session promises the analyses that read it: records are  *)
(* made one after the other, the file is a prefix of them that only grows,   *)
(* and a verdict is given at most once, when the file holds every record.    *)
(* After the verdict nothing changes any more.                               *)
EXTENDS Integers, Sequences

VARIABLES made, shown, verdict

archive == <<made, shown, verdict>>

Open == made = <<>> /\ shown = 0 /\ verdict = "open"

Extends(longer, shorter) ==
  Len(longer) >= Len(shorter) /\ SubSeq(longer, 1, Len(shorter)) = shorter

Make ==
  /\ verdict = "open"
  /\ Extends(made', made)
  /\ shown' \in shown..Len(made')
  /\ UNCHANGED verdict

Judge ==
  /\ verdict = "open" /\ shown = Len(made)
  /\ verdict' \in {"completed", "cancelled", "failed"}
  /\ UNCHANGED <<made, shown>>

ArchiveSpec == Open /\ [][Make \/ Judge]_archive
=============================================================================
