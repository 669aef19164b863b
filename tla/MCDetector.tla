----------------------------- MODULE MCDetector -----------------------------
(* Small instances of the detector for TLC.                                  *)
EXTENDS Detector, TLC

CONSTANTS r1, r2, s1, s2, p1, p2, c1, c2, e1, e2, e3

(* Sessions that share changes.  Rank and EndedAt disagree: s2 starts after  *)
(* s1 and ends before it, as overlapping collector sessions do.  Edited      *)
(* evidence (e2, e3) and another profile (p2) show something else.           *)
MCRank == [s \in Session |-> CASE s = s1 -> 1 [] s = s2 -> 2]

MCEndedAt == [s \in Session |-> CASE s = s1 -> 3 [] s = s2 -> 2]

MCFindings ==
  [s \in Session |-> [e \in Evidence |-> [p \in Profile |->
     CASE s = s1 /\ p = p2 -> {}
       [] s = s1 /\ e = e1 -> {c1}
       [] s = s2 /\ e = e1 /\ p = p1 -> {c1, c2}
       [] OTHER -> {c2}]]]

MCRecorded == [s \in Session |-> e1]

Nothing == {}

(* Evidence after an edit: the inspection refuses s1's, the extraction s2's. *)
EditedFirst == {[session |-> s1, evidence |-> e2]}
EditedSecond == {[session |-> s2, evidence |-> e2]}

OneForeign == {[session |-> s2, evidence |-> e2, profile |-> p1, changes |-> {c2}]}

Runners == Permutations(Runner)
=============================================================================
