---------------------------- MODULE PromotionLog ----------------------------
(* What the detector promises about promotion bundles, whatever processes,   *)
(* transactions and files it is made of: a change of a profile is promoted   *)
(* in one bundle; a bundle is published only once promoted, acknowledged     *)
(* only once published, and none of this is ever taken back.                 *)
EXTENDS Naturals

CONSTANTS Session, Evidence, Profile, Change

Bundle == [session: Session, evidence: Evidence, profile: Profile,
           changes: SUBSET Change]

VARIABLES promoted, published, acknowledged

logVars == <<promoted, published, acknowledged>>

Init == promoted = {} /\ published = {} /\ acknowledged = {}

Disjoint(b, c) == b.profile = c.profile => b.changes \cap c.changes = {}

Promote(b) ==
  /\ b.changes # {} /\ b \notin promoted
  /\ \A c \in promoted : Disjoint(b, c)
  /\ promoted' = promoted \cup {b}
  /\ UNCHANGED <<published, acknowledged>>

Publish(b) ==
  /\ b \in promoted \ published
  /\ published' = published \cup {b}
  /\ UNCHANGED <<promoted, acknowledged>>

Acknowledge(b) ==
  /\ b \in published \ acknowledged
  /\ acknowledged' = acknowledged \cup {b}
  /\ UNCHANGED <<promoted, published>>

Next == \E b \in Bundle : Promote(b) \/ Publish(b) \/ Acknowledge(b)

Spec == Init /\ [][Next]_logVars
=============================================================================
