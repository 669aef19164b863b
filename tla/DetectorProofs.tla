--------------------------- MODULE DetectorProofs ---------------------------
(* Theorems about the detector for any number of processes, sessions,        *)
(* profiles and changes, and, in the last part, any power losses.            *)
EXTENDS DetectorPower, FiniteSetTheorems, TLAPS

USE ConstantsAssumption

(* The steps of materialize_pending between taking a row and marking it.     *)
AtItem == {"write", "recheck", "replace", "sync", "verify", "mark"}

(* What the fields of a process hold at each step; with it the types are     *)
(* inductive.                                                                *)
ShapeOf(state) ==
  /\ state.pc # "idle" => state.profile \in Profile
  /\ state.pc = "decide" => state.current \in Identity
  /\ state.pc \in AtItem => state.item \in Bundle

Shape == \A r \in Runner : ShapeOf(run[r])

TypeInv == TypeOK /\ Shape

-----------------------------------------------------------------------------
(* A committed transaction keeps the tables well formed.                     *)
LEMMA CommittedType ==
  ASSUME TablesOK(db), NEW id \in Identity, NEW p \in Profile, NEW found \in SUBSET Change
  PROVE  TablesOK(Committed(db, id, p, found))
<1> DEFINE d == Committed(db, id, p, found)
<1>1. d.processed \subseteq [session: Session, evidence: Evidence, profile: Profile]
  BY DEF TablesOK, Committed, Checkpoint, Identity
<1>2. \A c \in Change : SeenIn(db.changes[p][c], id.session) \in ChangeRow
  BY DEF TablesOK, SeenIn, ChangeRow, Identity
<1>3. d.changes \in [Profile -> [Change -> ChangeRow \cup {None}]]
  BY <1>2 DEF TablesOK, Committed
<1>4. NewBundle(db, id, p, found) \in Bundle
  BY DEF NewBundle, Bundle, Identity
<1>5. /\ DOMAIN d.outbox \subseteq Bundle
      /\ \A b \in DOMAIN d.outbox : d.outbox[b] \in {"pending", "materialized"}
  BY <1>4 DEF TablesOK, Committed, WithRow
<1>6. DOMAIN d = {"processed", "changes", "outbox"}
  BY DEF Committed
<1> QED BY <1>1, <1>3, <1>5, <1>6 DEF TablesOK

(* A step that gives one process a well-formed state keeps all well formed.  *)
LEMMA BecomesType ==
  ASSUME run \in [Runner -> RunnerState], Shape,
         NEW r \in Runner, NEW state \in RunnerState, ShapeOf(state), Becomes(r, state)
  PROVE  run' \in [Runner -> RunnerState] /\ Shape'
BY DEF Becomes, Shape

LEMMA FoundType ==
  ASSUME TypeInv, NEW r \in Runner, run[r].pc = "decide"
  PROVE  FoundBy(r) \in SUBSET Change
BY DEF TypeInv, Shape, ShapeOf, FoundBy, Identity

(* The steps that change nothing but the process that takes them.            *)
LEMMA LocalType ==
  ASSUME TypeInv, NEW r \in Runner, NEW state \in RunnerState, ShapeOf(state),
         Becomes(r, state), UNCHANGED shared
  PROVE  TypeInv'
BY BecomesType DEF TypeInv, TypeOK, FilesOK, TablesOK, shared

LEMMA Steps ==
  /\ "idle" \in Step /\ "pending" \in Step /\ "next" \in Step /\ "write" \in Step
  /\ "recheck" \in Step /\ "replace" \in Step /\ "sync" \in Step /\ "verify" \in Step
  /\ "mark" \in Step /\ "list" \in Step /\ "session" \in Step /\ "decide" \in Step
BY DEF Step

LEMMA IdleType == Idle \in RunnerState /\ ShapeOf(Idle)
BY DEF Idle, RunnerState, Step, ShapeOf, AtItem

LEMMA InitType == Init => TypeInv
<1> SUFFICES ASSUME Init PROVE TypeInv
  OBVIOUS
<1>1. TablesOK(db)
  BY DEF Init, NoTables, TablesOK
<1>2. FilesOK
  BY DEF Init, FilesOK
<1>3. /\ evidence \in [Session -> Evidence]
      /\ status \in [Session -> {"running", "completed", "failed"}]
      /\ crashes \in 0..MaxCrashes /\ alterations \in 0..MaxAlterations
  BY DEF Init
<1>4. made \in BOOLEAN
  BY Zenon DEF Init
<1>5. run \in [Runner -> RunnerState] /\ Shape
  BY IdleType DEF Init, Shape
<1> QED BY <1>1, <1>2, <1>3, <1>4, <1>5 DEF TypeInv, TypeOK

LEMMA NextType == TypeInv /\ [Next]_vars => TypeInv'
<1> SUFFICES ASSUME TypeInv, [Next]_vars PROVE TypeInv'
  OBVIOUS
<1>0. /\ run \in [Runner -> RunnerState] /\ Shape
      /\ TablesOK(db) /\ FilesOK
      /\ \A r \in Runner : run[r] \in RunnerState /\ ShapeOf(run[r])
  BY DEF TypeInv, TypeOK, Shape
<1>1. ASSUME NEW r \in Runner, NEW p \in Profile, NEW dry \in BOOLEAN, Launch(r, p, dry)
      PROVE  TypeInv'
  <2> DEFINE next == [Began(p, dry) EXCEPT !.blind = dry /\ ~made]
  <2>1. next \in RunnerState /\ ShapeOf(next)
    BY DEF TypeInv, TypeOK, Began, Idle, RunnerState, Step, ShapeOf, AtItem
  <2>2. run' \in [Runner -> RunnerState] /\ Shape'
    BY <1>0, <1>1, <2>1, BecomesType DEF Launch
  <2> QED BY <1>1, <2>2 DEF Launch, TypeInv, TypeOK, FilesOK, TablesOK
<1>2. ASSUME NEW r \in Runner, ReadPending(r) PROVE TypeInv'
  <2> DEFINE next == [run[r] EXCEPT !.todo = Pending(db), !.pc = "next"]
  <2>1. Pending(db) \subseteq Bundle
    BY <1>0 DEF Pending, TablesOK
  <2>2. next \in RunnerState /\ ShapeOf(next)
    <3>1. next \in RunnerState
      BY ZenonT(60), <1>0, <1>2, <2>1, Steps DEF RunnerState
    <3>2. ShapeOf(next)
      BY <1>0, <1>2 DEF ReadPending, RunnerState, ShapeOf, AtItem
    <3> QED BY <3>1, <3>2
  <2> QED BY <1>2, <2>2, LocalType DEF ReadPending
<1>3. ASSUME NEW r \in Runner, PendingDone(r) PROVE TypeInv'
  <2> DEFINE next == [run[r] EXCEPT !.pc = IF run[r].listed THEN "session" ELSE "list"]
  <2>1. next \in RunnerState /\ ShapeOf(next)
    <3>1. next \in RunnerState
      BY ZenonT(60), <1>0, <1>3, Steps DEF RunnerState
    <3>2. ShapeOf(next)
      BY <1>0, <1>3 DEF PendingDone, RunnerState, ShapeOf, AtItem
    <3> QED BY <3>1, <3>2
  <2> QED BY <1>3, <2>1, LocalType DEF PendingDone
<1>4. ASSUME NEW r \in Runner, WriteTemporary(r) PROVE TypeInv'
  <2> DEFINE next == [run[r] EXCEPT !.pc = "recheck"]
  <2>1. next \in RunnerState /\ ShapeOf(next)
    <3>1. next \in RunnerState
      BY ZenonT(60), <1>0, <1>4, Steps DEF RunnerState
    <3>2. ShapeOf(next)
      BY <1>0, <1>4 DEF WriteTemporary, RunnerState, ShapeOf, AtItem
    <3> QED BY <3>1, <3>2
  <2> QED BY <1>4, <2>1, LocalType DEF WriteTemporary
<1>5. ASSUME NEW r \in Runner, Recheck(r) PROVE TypeInv'
  <2>1. ASSUME NEW pc \in {"replace", "mark"}
        PROVE  [run[r] EXCEPT !.pc = pc] \in RunnerState /\ ShapeOf([run[r] EXCEPT !.pc = pc])
    <3>1. pc \in Step
      BY Steps
    <3>2. [run[r] EXCEPT !.pc = pc] \in RunnerState
      BY ZenonT(60), <1>0, <3>1 DEF RunnerState
    <3>3. ShapeOf([run[r] EXCEPT !.pc = pc])
      BY <1>0, <1>5 DEF Recheck, RunnerState, ShapeOf, AtItem
    <3> QED BY <3>2, <3>3
  <2> QED BY <1>5, <2>1, LocalType DEF Recheck
<1>6. ASSUME NEW r \in Runner, Replace(r) PROVE TypeInv'
  <2> DEFINE next == [run[r] EXCEPT !.pc = "sync"]
  <2>1. next \in RunnerState /\ ShapeOf(next)
    <3>1. next \in RunnerState
      BY ZenonT(60), <1>0, <1>6, Steps DEF RunnerState
    <3>2. ShapeOf(next)
      BY <1>0, <1>6 DEF Replace, RunnerState, ShapeOf, AtItem
    <3> QED BY <3>1, <3>2
  <2>2. run' \in [Runner -> RunnerState] /\ Shape'
    BY <1>0, <1>6, <2>1, BecomesType DEF Replace
  <2>3. run[r].item \in Bundle
    BY <1>0, <1>6 DEF Replace, ShapeOf, AtItem
  <2>4. FilesOK'
    BY <1>0, <1>6, <2>3 DEF Replace, FilesOK, WithRow
  <2> QED BY <1>6, <2>2, <2>4 DEF Replace, TypeInv, TypeOK
<1>7. ASSUME NEW r \in Runner, SyncDirectory(r) PROVE TypeInv'
  <2> DEFINE next == [run[r] EXCEPT !.pc = "verify"]
  <2>1. next \in RunnerState /\ ShapeOf(next)
    <3>1. next \in RunnerState
      BY ZenonT(60), <1>0, <1>7, Steps DEF RunnerState
    <3>2. ShapeOf(next)
      BY <1>0, <1>7 DEF SyncDirectory, RunnerState, ShapeOf, AtItem
    <3> QED BY <3>1, <3>2
  <2> QED BY <1>7, <2>1, LocalType DEF SyncDirectory
<1>8. ASSUME NEW r \in Runner, Verify(r) PROVE TypeInv'
  <2> DEFINE next == [run[r] EXCEPT !.pc = "mark"]
  <2>1. next \in RunnerState /\ ShapeOf(next)
    <3>1. next \in RunnerState
      BY ZenonT(60), <1>0, <1>8, Steps DEF RunnerState
    <3>2. ShapeOf(next)
      BY <1>0, <1>8 DEF Verify, RunnerState, ShapeOf, AtItem
    <3> QED BY <3>1, <3>2
  <2> QED BY <1>8, <2>1, LocalType DEF Verify
<1>9. ASSUME NEW r \in Runner, Mark(r) PROVE TypeInv'
  <2> DEFINE next == [run[r] EXCEPT !.todo = @ \ {run[r].item}, !.item = None, !.pc = "next"]
  <2>1. next \in RunnerState /\ ShapeOf(next)
    <3>1. next \in RunnerState
      BY ZenonT(60), <1>0, <1>9, Steps DEF RunnerState
    <3>2. ShapeOf(next)
      BY <1>0, <1>9 DEF Mark, RunnerState, ShapeOf, AtItem
    <3> QED BY <3>1, <3>2
  <2>2. run' \in [Runner -> RunnerState] /\ Shape'
    BY <1>0, <1>9, <2>1, BecomesType DEF Mark
  <2>3. TablesOK(db')
    BY <1>0, <1>9 DEF Mark, TablesOK, WithRow
  <2> QED BY <1>9, <2>2, <2>3 DEF Mark, TypeInv, TypeOK, FilesOK
<1>10. ASSUME NEW r \in Runner, List(r) PROVE TypeInv'
  <2> DEFINE queue == Inspected
             fresh == Shown(run[r].profile) \ View(r)
             next  == [run[r] EXCEPT !.queue = queue, !.fresh = fresh,
                                     !.listed = TRUE, !.pc = "session"]
  <2>1. queue \subseteq Identity
    BY DEF TypeInv, TypeOK, Inspected, Finalized, Identity
  <2>2. fresh \subseteq Change
    <3>1. run[r].profile \in Profile
      BY <1>0, <1>10 DEF List, ShapeOf
    <3> QED BY <3>1 DEF TypeInv, TypeOK, Shown, Finalized
  <2>3. next \in RunnerState /\ ShapeOf(next)
    <3> HIDE DEF queue, fresh
    <3>1. next \in RunnerState
      BY ZenonT(60), <1>0, <1>10, <2>1, <2>2, Steps DEF RunnerState
    <3>2. ShapeOf(next)
      BY <1>0, <1>10 DEF List, RunnerState, ShapeOf, AtItem
    <3> QED BY <3>1, <3>2
  <2> QED BY <1>10, <2>3, LocalType DEF List
<1>11. ASSUME NEW r \in Runner, Classify(r) PROVE TypeInv'
  <2> DEFINE seen == View(r) \cup run[r].first
             next == [run[r] EXCEPT !.first = @ \cup (FoundBy(r) \ seen),
                                    !.repeated = @ \cup (FoundBy(r) \cap seen),
                                    !.current = None, !.pc = "session"]
  <2>1. FoundBy(r) \in SUBSET Change
    BY <1>11, FoundType DEF Classify
  <2>2. next \in RunnerState /\ ShapeOf(next)
    <3> HIDE DEF seen
    <3>1. next \in RunnerState
      BY ZenonT(60), <1>0, <1>11, <2>1, Steps DEF RunnerState
    <3>2. ShapeOf(next)
      BY <1>0, <1>11 DEF Classify, RunnerState, ShapeOf, AtItem
    <3> QED BY <3>1, <3>2
  <2> QED BY <1>11, <2>2, LocalType DEF Classify
<1>12. ASSUME NEW r \in Runner, ProcessSession(r) PROVE TypeInv'
  <2> DEFINE known == Known(db, run[r].profile)
             next  == [run[r] EXCEPT !.first = @ \cup (FoundBy(r) \ known),
                                     !.repeated = @ \cup (FoundBy(r) \cap known),
                                     !.current = None, !.pc = "pending"]
  <2>1. FoundBy(r) \in SUBSET Change /\ run[r].current \in Identity /\ run[r].profile \in Profile
    BY <1>0, <1>12, FoundType DEF ProcessSession, ShapeOf
  <2>2. next \in RunnerState /\ ShapeOf(next)
    <3> HIDE DEF known
    <3>1. next \in RunnerState
      BY ZenonT(60), <1>0, <1>12, <2>1, Steps DEF RunnerState
    <3>2. ShapeOf(next)
      BY <1>0, <1>12 DEF ProcessSession, RunnerState, ShapeOf, AtItem
    <3> QED BY <3>1, <3>2
  <2>3. run' \in [Runner -> RunnerState] /\ Shape'
    BY <1>0, <1>12, <2>2, BecomesType DEF ProcessSession
  <2>4. TablesOK(db')
    BY <1>0, <1>12, <2>1, CommittedType DEF ProcessSession
  <2> QED BY <1>12, <2>3, <2>4 DEF ProcessSession, TypeInv, TypeOK, FilesOK
<1>13. ASSUME NEW r \in Runner, SkipProcessed(r) PROVE TypeInv'
  <2> DEFINE next == [run[r] EXCEPT !.repeated = @ \cup FoundBy(r),
                                    !.current = None, !.pc = "pending"]
  <2>1. FoundBy(r) \in SUBSET Change
    BY <1>13, FoundType DEF SkipProcessed
  <2>2. next \in RunnerState /\ ShapeOf(next)
    <3>1. next \in RunnerState
      BY ZenonT(60), <1>0, <1>13, <2>1, Steps DEF RunnerState
    <3>2. ShapeOf(next)
      BY <1>0, <1>13 DEF SkipProcessed, RunnerState, ShapeOf, AtItem
    <3> QED BY <3>1, <3>2
  <2> QED BY <1>13, <2>2, LocalType DEF SkipProcessed
<1>14. ASSUME NEW r \in Runner, Finish(r) PROVE TypeInv'
  <2> DEFINE next == [run[r] EXCEPT !.pc = "idle"]
  <2>1. next \in RunnerState /\ ShapeOf(next)
    <3>1. next \in RunnerState
      BY ZenonT(60), <1>0, <1>14, Steps DEF RunnerState
    <3>2. ShapeOf(next)
      BY <1>0, <1>14 DEF Finish, RunnerState, ShapeOf, AtItem
    <3> QED BY <3>1, <3>2
  <2> QED BY <1>14, <2>1, LocalType DEF Finish
<1>15. ASSUME NEW r \in Runner, Raise(r) PROVE TypeInv'
  BY <1>15, IdleType, LocalType DEF Raise
<1>16. ASSUME NEW r \in Runner, NEW b \in run[r].todo, TakeItem(r, b) PROVE TypeInv'
  <2>1. ASSUME NEW pc \in {"write", "mark"}
        PROVE  /\ [run[r] EXCEPT !.item = b, !.pc = pc] \in RunnerState
               /\ ShapeOf([run[r] EXCEPT !.item = b, !.pc = pc])
    <3> DEFINE next == [run[r] EXCEPT !.item = b, !.pc = pc]
    <3>1. pc \in Step /\ b \in Bundle
      BY <1>0, Steps DEF RunnerState
    <3>2. next \in RunnerState
      BY ZenonT(60), <1>0, <3>1 DEF RunnerState
    <3>3. ShapeOf(next)
      BY <1>0, <1>16, <3>1 DEF TakeItem, RunnerState, ShapeOf, AtItem
    <3> QED BY <3>2, <3>3
  <2> QED BY <1>16, <2>1, LocalType DEF TakeItem
<1>17. ASSUME NEW r \in Runner, NEW id \in run[r].queue, Extract(r, id) PROVE TypeInv'
  <2> DEFINE next == [run[r] EXCEPT !.queue = @ \ {id}, !.current = id, !.pc = "decide"]
  <2>1. next \in RunnerState /\ ShapeOf(next)
    <3>1. next \in RunnerState
      BY ZenonT(60), <1>0, <1>17, Steps DEF RunnerState
    <3>2. ShapeOf(next)
      BY <1>0, <1>17 DEF Extract, RunnerState, ShapeOf, AtItem
    <3> QED BY <3>1, <3>2
  <2> QED BY <1>17, <2>1, LocalType DEF Extract
<1>18. ASSUME NEW r \in Runner, Crash(r) PROVE TypeInv'
  <2>1. run' \in [Runner -> RunnerState] /\ Shape'
    BY <1>0, <1>18, IdleType, BecomesType DEF Crash
  <2> QED BY <1>18, <2>1 DEF Crash, TypeInv, TypeOK, FilesOK, TablesOK
<1>19. ASSUME NEW s \in Session, NEW outcome \in {"completed", "failed"}, EndSession(s, outcome)
       PROVE  TypeInv'
  BY <1>19 DEF EndSession, TypeInv, TypeOK, FilesOK, TablesOK, Shape
<1>20. ASSUME NEW s \in Session, NEW e \in Evidence, AlterEvidence(s, e) PROVE TypeInv'
  BY <1>20 DEF AlterEvidence, TypeInv, TypeOK, FilesOK, TablesOK, Shape
<1>21. CASE UNCHANGED vars
  BY <1>21 DEF vars, TypeInv, TypeOK, FilesOK, TablesOK, Shape
<1> QED
  BY <1>1, <1>2, <1>3, <1>4, <1>5, <1>6, <1>7, <1>8, <1>9, <1>10, <1>11, <1>12, <1>13,
     <1>14, <1>15, <1>16, <1>17, <1>18, <1>19, <1>20, <1>21
     DEF Next, RunnerStep, Environment

(* Every reachable state is well formed: positive counts, outbox states the  *)
(* schema allows, promotion files under a bundle's name.                     *)
THEOREM TypeCorrect == Spec => []TypeOK
<1>1. Spec => []TypeInv
  BY InitType, NextType, PTL DEF Spec
<1>2. TypeInv => TypeOK
  BY DEF TypeInv
<1> QED BY <1>1, <1>2, PTL

-----------------------------------------------------------------------------
(* Two kinds of transaction write the tables.                                *)
LEMMA TableSteps ==
  ASSUME [Next]_vars
  PROVE  UNCHANGED db \/ \E r \in Runner : ProcessSession(r) \/ Mark(r)
BY DEF Next, vars, shared, RunnerStep, Environment, Launch, ReadPending, PendingDone,
       WriteTemporary, Recheck, Replace, SyncDirectory, Verify, List, Classify,
       SkipProcessed, Finish, Raise, TakeItem, Extract, Crash, EndSession, AlterEvidence

(* A rename is the only step that writes a promotion file.                   *)
LEMMA FileSteps ==
  ASSUME [Next]_vars
  PROVE  UNCHANGED files \/ \E r \in Runner : Replace(r)
BY DEF Next, vars, shared, RunnerStep, Environment, Launch, ReadPending, PendingDone,
       WriteTemporary, Recheck, SyncDirectory, Verify, List, Classify, ProcessSession,
       SkipProcessed, Finish, Raise, TakeItem, Extract, Crash, EndSession, AlterEvidence,
       Mark

(* A transaction that processes a session has a session and a profile, and   *)
(* writes the three tables so.                                               *)
LEMMA ProcessType ==
  ASSUME TypeInv, NEW r \in Runner, ProcessSession(r)
  PROVE  LET id == run[r].current p == run[r].profile found == FoundBy(r) IN
         /\ id \in Identity /\ p \in Profile /\ found \in SUBSET Change
         /\ db' = Committed(db, id, p, found)
         /\ ~EvidenceConflict(db, id)
         /\ ~IsProcessed(db, id, p)
         /\ db'.processed = db.processed \cup {Checkpoint(id, p)}
         /\ found \subseteq Known(db, p) => db'.outbox = db.outbox
         /\ ~(found \subseteq Known(db, p)) =>
              db'.outbox = WithRow(db.outbox, NewBundle(db, id, p, found), "pending")
<1>1. db' = Committed(db, run[r].current, run[r].profile, FoundBy(r))
  BY DEF ProcessSession
<1>2. /\ run[r].current \in Identity /\ run[r].profile \in Profile
      /\ FoundBy(r) \in SUBSET Change
      /\ ~EvidenceConflict(db, run[r].current)
      /\ ~IsProcessed(db, run[r].current, run[r].profile)
  BY FoundType DEF TypeInv, Shape, ShapeOf, ProcessSession, Refused
<1> QED BY <1>1, <1>2 DEF Committed

LEMMA MarkType ==
  ASSUME TypeInv, NEW r \in Runner, Mark(r)
  PROVE  /\ db'.processed = db.processed /\ db'.changes = db.changes
         /\ db'.outbox = WithRow(db.outbox, run[r].item, "materialized")
         /\ DOMAIN db'.outbox = DOMAIN db.outbox
         /\ run[r].pc = "mark"
<1>1. DOMAIN db = {"processed", "changes", "outbox"}
  BY DEF TypeInv, TypeOK, TablesOK
<1> QED BY <1>1 DEF Mark, WithRow

-----------------------------------------------------------------------------
(* The transaction refuses evidence that differs from any checkpoint of the  *)
(* session, so all profiles analysed the same bytes.                         *)
LEMMA NextEvidence == TypeInv /\ OneEvidencePerSession /\ [Next]_vars => OneEvidencePerSession'
<1> SUFFICES ASSUME TypeInv, OneEvidencePerSession, [Next]_vars PROVE OneEvidencePerSession'
  OBVIOUS
<1>1. ASSUME UNCHANGED db PROVE OneEvidencePerSession'
  BY <1>1 DEF OneEvidencePerSession
<1>2. ASSUME NEW r \in Runner, ProcessSession(r) PROVE OneEvidencePerSession'
  <2>1. ~EvidenceConflict(db, run[r].current)
    BY <1>2, ProcessType
  <2>2. db'.processed = db.processed \cup {Checkpoint(run[r].current, run[r].profile)}
    BY <1>2, ProcessType
  <2> HIDE ConstantsAssumption
  <2>3. \A row \in db.processed :
          row.session = run[r].current.session => row.evidence = run[r].current.evidence
    BY <2>1 DEF EvidenceConflict
  <2>4. /\ Checkpoint(run[r].current, run[r].profile).session = run[r].current.session
        /\ Checkpoint(run[r].current, run[r].profile).evidence = run[r].current.evidence
    BY DEF Checkpoint
  <2> QED BY <2>2, <2>3, <2>4 DEF OneEvidencePerSession
<1>3. ASSUME NEW r \in Runner, Mark(r) PROVE OneEvidencePerSession'
  BY <1>3, MarkType DEF OneEvidencePerSession
<1> QED BY <1>1, <1>2, <1>3, TableSteps

(* All profiles that processed a session analysed the same evidence of it,   *)
(* although files may be edited between any two steps of any process.        *)
THEOREM EvidenceIsOne == Spec => []OneEvidencePerSession
<1>1. Init => OneEvidencePerSession
  BY DEF Init, NoTables, OneEvidencePerSession
<1> QED BY <1>1, InitType, NextType, NextEvidence, PTL DEF Spec

-----------------------------------------------------------------------------
(* A marked row has its file because a process reaches the mark only after   *)
(* it compared the file's bytes, and no step takes a published file away.    *)
MarkIsEarned == \A r \in Runner : run[r].pc = "mark" => HasBytes(run[r].item, "exact")

PublishInv == MarkedMeansPublished /\ MarkIsEarned

LEMMA ExactStays ==
  ASSUME [Next]_vars, NEW b, HasBytes(b, "exact")
  PROVE  HasBytes(b, "exact")'
BY FileSteps DEF HasBytes, Replace, WithRow

LEMMA EarnedStays == TypeInv /\ MarkIsEarned /\ [Next]_vars => MarkIsEarned'
<1> SUFFICES ASSUME TypeInv, MarkIsEarned, [Next]_vars,
                    NEW q \in Runner, run'[q].pc = "mark"
             PROVE  HasBytes(run[q].item, "exact")'
  BY DEF MarkIsEarned
<1>1. CASE run'[q] = run[q]
  BY <1>1, ExactStays DEF MarkIsEarned
<1>2. ASSUME run'[q] # run[q]
      PROVE  \/ \E b \in run[q].todo : TakeItem(q, b)
             \/ Recheck(q) \/ Verify(q)
  <2> USE DEF RunnerState
  <2>0. \A r \in Runner : run[r] \in RunnerState
    BY DEF TypeInv, TypeOK
  <2>1. ASSUME NEW r \in Runner, NEW state, Becomes(r, state)
        PROVE  r = q /\ state.pc = "mark"
    BY <1>2, <2>1 DEF Becomes, TypeInv, TypeOK
  <2>2. ASSUME NEW r \in Runner, NEW p \in Profile, NEW dry \in BOOLEAN, Launch(r, p, dry)
        PROVE  FALSE
    <3>1. [Began(p, dry) EXCEPT !.blind = dry /\ ~made].pc # "mark"
      BY DEF Began, Idle
    <3> QED BY <2>1, <2>2, <3>1 DEF Launch
  <2>3. ASSUME NEW r \in Runner, Raise(r) \/ Crash(r) PROVE FALSE
    BY <2>1, <2>3 DEF Raise, Crash, Idle
  <2>4. ASSUME Environment \/ UNCHANGED vars PROVE FALSE
    BY <1>2, <2>4 DEF Environment, EndSession, AlterEvidence, vars
  <2>5. ASSUME NEW r \in Runner, ReadPending(r) PROVE FALSE
    <3> DEFINE after == [run[r] EXCEPT !.todo = Pending(db), !.pc = "next"]
    <3>1. after.pc # "mark"
      BY <2>0
    <3>2. Becomes(r, after)
      BY <2>5 DEF ReadPending
    <3> QED BY <2>1, <3>1, <3>2
  <2>6. ASSUME NEW r \in Runner, PendingDone(r) PROVE FALSE
    BY <2>0, <2>1, <2>6 DEF PendingDone
  <2>7. ASSUME NEW r \in Runner, WriteTemporary(r) \/ Replace(r) \/ SyncDirectory(r) PROVE FALSE
    BY <2>0, <2>1, <2>7 DEF WriteTemporary, Replace, SyncDirectory
  <2>8. ASSUME NEW r \in Runner, Mark(r) PROVE FALSE
    <3> DEFINE after == [run[r] EXCEPT !.todo = @ \ {run[r].item}, !.item = None, !.pc = "next"]
    <3>1. after.pc # "mark"
      BY <2>0
    <3>2. Becomes(r, after)
      BY <2>8 DEF Mark
    <3> QED BY <2>1, <3>1, <3>2
  <2>9. ASSUME NEW r \in Runner, List(r) PROVE FALSE
    <3> DEFINE after == [run[r] EXCEPT 
                   !.queue = Inspected, !.fresh = Shown(run[r].profile) \ View(r),
                   !.listed = TRUE, !.pc = "session"]
    <3>1. after.pc # "mark"
      BY <2>0
    <3>2. Becomes(r, after)
      BY <2>9 DEF List
    <3> QED BY <2>1, <3>1, <3>2
  <2>10. ASSUME NEW r \in Runner, Classify(r) PROVE FALSE
    <3> DEFINE after == [run[r] EXCEPT 
                   !.first = @ \cup (FoundBy(r) \ (View(r) \cup run[r].first)),
                   !.repeated = @ \cup (FoundBy(r) \cap (View(r) \cup run[r].first)),
                   !.current = None, !.pc = "session"]
    <3>1. after.pc # "mark"
      BY <2>0
    <3>2. Becomes(r, after)
      BY <2>10 DEF Classify
    <3> QED BY <2>1, <3>1, <3>2
  <2>11. ASSUME NEW r \in Runner, ProcessSession(r) PROVE FALSE
    <3> DEFINE after == [run[r] EXCEPT 
                   !.first = @ \cup (FoundBy(r) \ Known(db, run[r].profile)),
                   !.repeated = @ \cup (FoundBy(r) \cap Known(db, run[r].profile)),
                   !.current = None, !.pc = "pending"]
    <3>1. after.pc # "mark"
      BY <2>0
    <3>2. Becomes(r, after)
      BY <2>11 DEF ProcessSession
    <3> QED BY <2>1, <3>1, <3>2
  <2>12. ASSUME NEW r \in Runner, SkipProcessed(r) PROVE FALSE
    <3> DEFINE after == [run[r] EXCEPT !.repeated = @ \cup FoundBy(r), !.current = None, !.pc = "pending"]
    <3>1. after.pc # "mark"
      BY <2>0
    <3>2. Becomes(r, after)
      BY <2>12 DEF SkipProcessed
    <3> QED BY <2>1, <3>1, <3>2
  <2>16. ASSUME NEW r \in Runner, Finish(r) PROVE FALSE
    BY <2>0, <2>1, <2>16 DEF Finish
  <2>13. ASSUME NEW r \in Runner, NEW id \in run[r].queue, Extract(r, id) PROVE FALSE
    <3> DEFINE after == [run[r] EXCEPT !.queue = @ \ {id}, !.current = id, !.pc = "decide"]
    <3>1. after.pc # "mark"
      BY <2>0
    <3>2. Becomes(r, after)
      BY <2>13 DEF Extract
    <3> QED BY <2>1, <3>1, <3>2
  <2>14. ASSUME NEW r \in Runner, NEW b \in run[r].todo, TakeItem(r, b)
         PROVE  \E c \in run[q].todo : TakeItem(q, c)
    BY <2>1, <2>14 DEF TakeItem
  <2>15. ASSUME NEW r \in Runner, Recheck(r) \/ Verify(r) PROVE Recheck(q) \/ Verify(q)
    BY <2>1, <2>15 DEF Recheck, Verify
  <2> QED BY <2>2, <2>3, <2>4, <2>5, <2>6, <2>7, <2>8, <2>9, <2>10, <2>11, <2>12, <2>13,
             <2>14, <2>15, <2>16 DEF Next, RunnerStep
<1>3. ASSUME NEW b \in run[q].todo, TakeItem(q, b) PROVE HasBytes(run[q].item, "exact")'
  <2>0. run \in [Runner -> RunnerState] /\ run[q] \in RunnerState
    BY DEF TypeInv, TypeOK
  <2> DEFINE to(pc) == [run[q] EXCEPT !.item = b, !.pc = pc]
  <2>1. to("write").pc = "write" /\ to("mark").item = b
    BY <2>0 DEF RunnerState
  <2>2. HasBytes(b, "exact") /\ run'[q].item = b
    <3> HIDE DEF to
    <3>1. \/ HasBytes(b, "exact") /\ Becomes(q, to("mark"))
          \/ Becomes(q, to("write"))
      BY <1>3 DEF TakeItem, to
    <3> QED BY <2>0, <2>1, <3>1 DEF Becomes
  <2> QED BY <2>2, ExactStays DEF HasBytes
<1>4. ASSUME Recheck(q) \/ Verify(q) PROVE HasBytes(run[q].item, "exact")'
  <2>1. HasBytes(run[q].item, "exact") /\ run'[q].item = run[q].item
    BY <1>4 DEF Recheck, Verify, Becomes, TypeInv, TypeOK, RunnerState
  <2> QED BY <2>1, ExactStays DEF HasBytes
<1> QED BY <1>1, <1>2, <1>3, <1>4

LEMMA NextPublish == TypeInv /\ PublishInv /\ [Next]_vars => PublishInv'
<1> SUFFICES ASSUME TypeInv, PublishInv, [Next]_vars PROVE MarkedMeansPublished'
  BY EarnedStays DEF PublishInv
<1> SUFFICES ASSUME NEW b \in DOMAIN db'.outbox, db'.outbox[b] = "materialized"
             PROVE  HasBytes(b, "exact")'
  BY DEF MarkedMeansPublished, HasBytes
<1>1. CASE b \in DOMAIN db.outbox /\ db.outbox[b] = "materialized"
  BY <1>1, ExactStays DEF PublishInv, MarkedMeansPublished
<1>2. ASSUME ~(b \in DOMAIN db.outbox /\ db.outbox[b] = "materialized"),
             NEW r \in Runner, Mark(r)
      PROVE  HasBytes(b, "exact")'
  <2>1. db'.outbox = WithRow(db.outbox, run[r].item, "materialized") /\ run[r].pc = "mark"
    BY <1>2, MarkType
  <2>2. b = run[r].item
    BY <1>2, <2>1 DEF WithRow
  <2> QED BY <2>1, <2>2, ExactStays DEF PublishInv, MarkIsEarned
<1>3. ASSUME ~(b \in DOMAIN db.outbox /\ db.outbox[b] = "materialized"),
             NEW r \in Runner, ProcessSession(r)
      PROVE  FALSE
  <2>1. PICK c : db'.outbox = db.outbox \/ db'.outbox = WithRow(db.outbox, c, "pending")
    BY <1>3, ProcessType
  <2> QED BY <1>3, <2>1 DEF WithRow
<1> QED BY <1>1, <1>2, <1>3, TableSteps

(* A row is marked materialized only when its file holds exactly its bytes,  *)
(* whichever process wrote it and whenever a process stopped.                *)
THEOREM MarkedIsPublished == Spec => []MarkedMeansPublished
<1>1. Init => PublishInv
  BY DEF Init, NoTables, PublishInv, MarkedMeansPublished, MarkIsEarned, Idle
<1>2. PublishInv => MarkedMeansPublished
  BY DEF PublishInv
<1> QED BY <1>1, <1>2, InitType, NextType, NextPublish, PTL DEF Spec

-----------------------------------------------------------------------------
(* One announcement per change.  The changes a bundle carries had no row     *)
(* when their transaction began, and it gave each of them a row.             *)
LEMMA ProcessBundles ==
  ASSUME TypeInv, OneBundlePerChange, NEW r \in Runner, ProcessSession(r)
  PROVE  OneBundlePerChange'
<1> DEFINE id == run[r].current
           p == run[r].profile
           found == FoundBy(r)
           new == NewBundle(db, id, p, found)
<1>1. /\ id \in Identity /\ p \in Profile /\ found \in SUBSET Change
      /\ db' = Committed(db, id, p, found)
      /\ found \subseteq Known(db, p) => db'.outbox = db.outbox
      /\ ~(found \subseteq Known(db, p)) => db'.outbox = WithRow(db.outbox, new, "pending")
  BY ProcessType
<1>2. db.changes \in [Profile -> [Change -> ChangeRow \cup {None}]]
  BY DEF TypeInv, TypeOK, TablesOK
<1>3. ASSUME NEW q \in Profile, NEW c \in Change
      PROVE  db'.changes[q][c] = IF q = p /\ c \in found THEN SeenIn(db.changes[p][c], id.session)
                                 ELSE db.changes[q][c]
  BY <1>1, <1>2 DEF Committed
<1>4. new.profile = p /\ new.session = id.session /\ new.changes = found \ Known(db, p)
  BY DEF NewBundle
<1>5. None \notin ChangeRow
  OBVIOUS
<1>6. \A row \in ChangeRow \cup {None} :
        /\ SeenIn(row, id.session) # None
        /\ SeenIn(row, id.session).first = IF row = None THEN id.session ELSE row.first
  BY <1>1, <1>5 DEF SeenIn, ChangeRow, Identity
<1> HIDE DEF id, p, found, new
<1> SUFFICES ASSUME NEW q \in Profile, NEW c \in Change
             PROVE  IF db'.changes[q][c] = None
                      THEN Announcing(q, c)' = {}
                      ELSE \E b \in Announcing(q, c)' :
                             /\ Announcing(q, c)' = {b}
                             /\ b.session = db'.changes[q][c].first
  BY DEF OneBundlePerChange, Announcing
<1>7. IF db.changes[q][c] = None
        THEN Announcing(q, c) = {}
        ELSE \E b \in Announcing(q, c) :
               Announcing(q, c) = {b} /\ b.session = db.changes[q][c].first
  BY DEF OneBundlePerChange
<1>8. CASE q = p /\ c \in found /\ db.changes[q][c] = None
  <2>1. c \notin Known(db, p)
    BY <1>8 DEF Known
  <2>2. db'.outbox = WithRow(db.outbox, new, "pending")
    BY <1>1, <1>8, <2>1
  <2>3. Announcing(q, c) = {}
    BY <1>7, <1>8
  <2>4. Announcing(q, c)' = {new}
    BY <1>4, <1>8, <2>1, <2>2, <2>3 DEF Announcing, WithRow
  <2>5. db'.changes[q][c] # None /\ db'.changes[q][c].first = id.session
    BY <1>3, <1>6, <1>8
  <2> QED BY <1>4, <2>4, <2>5
<1>9. CASE ~(q = p /\ c \in found /\ db.changes[q][c] = None)
  <2>1. ~(q = p /\ c \in new.changes)
    BY <1>4, <1>9 DEF Known
  <2>2. Announcing(q, c)' = Announcing(q, c)
    BY <1>1, <1>4, <2>1 DEF Announcing, WithRow
  <2>3. /\ (db'.changes[q][c] = None) <=> (db.changes[q][c] = None)
        /\ db.changes[q][c] # None => db'.changes[q][c].first = db.changes[q][c].first
    BY <1>2, <1>3, <1>6, <1>9
  <2> QED BY <1>7, <2>2, <2>3
<1> QED BY <1>8, <1>9

LEMMA NextBundles == TypeInv /\ OneBundlePerChange /\ [Next]_vars => OneBundlePerChange'
<1> SUFFICES ASSUME TypeInv, OneBundlePerChange, [Next]_vars PROVE OneBundlePerChange'
  OBVIOUS
<1>1. ASSUME UNCHANGED db PROVE OneBundlePerChange'
  BY <1>1 DEF OneBundlePerChange, Announcing
<1>2. ASSUME NEW r \in Runner, Mark(r) PROVE OneBundlePerChange'
  <2>1. db'.changes = db.changes /\ DOMAIN db'.outbox = DOMAIN db.outbox
    BY <1>2, MarkType
  <2>2. ASSUME NEW p, NEW c PROVE Announcing(p, c)' = Announcing(p, c)
    BY <2>1 DEF Announcing
  <2> QED BY <2>1, <2>2 DEF OneBundlePerChange
<1> QED BY <1>1, <1>2, ProcessBundles, TableSteps

(* A change of a profile is announced by exactly one outbox row, that of its *)
(* first session, whatever runs meet it and in whatever order.               *)
THEOREM ChangesAnnouncedOnce == Spec => []OneBundlePerChange
<1>1. Init => OneBundlePerChange
  BY DEF Init, NoTables, OneBundlePerChange, Announcing
<1> QED BY <1>1, InitType, NextType, NextBundles, PTL DEF Spec

-----------------------------------------------------------------------------
(* A change's row is the history of its sightings.  Counting them needs the  *)
(* checkpoints to be finite in number, which they are: one per transaction.  *)
HistoryInv == IsFiniteSet(db.processed) /\ HistoryMatchesEvidence

(* The row of one change when a session that may show it is recorded.        *)
RowMatches(row, seen) ==
  IF row = None
    THEN seen = {}
    ELSE /\ row.count = Cardinality(seen)
         /\ \E x \in seen : x.session = row.last
         /\ \E x \in seen : x.session = row.first
         /\ \A x \in seen : EndedAt[x.session] <= EndedAt[row.last]

LEMMA SeenInMatches ==
  ASSUME NEW row \in ChangeRow \cup {None}, NEW seen, IsFiniteSet(seen),
         NEW x, x \notin seen, x.session \in Session,
         \A y \in seen : y.session \in Session, RowMatches(row, seen)
  PROVE  RowMatches(SeenIn(row, x.session), seen \cup {x})
<1>1. None \notin ChangeRow
  OBVIOUS
<1>2. CASE row = None
  <2>1. seen \cup {x} = {x} /\ Cardinality({x}) = 1
    BY <1>2, FS_Singleton DEF RowMatches
  <2>2. SeenIn(row, x.session) = [first |-> x.session, last |-> x.session, count |-> 1]
    BY <1>2 DEF SeenIn
  <2>3. SeenIn(row, x.session) # None
    BY <1>1, <2>2 DEF ChangeRow
  <2>4. EndedAt[x.session] \in Nat
    OBVIOUS
  <2> HIDE ConstantsAssumption
  <2>5. RowMatches(SeenIn(row, x.session), {x})
    BY <2>1, <2>2, <2>3, <2>4 DEF RowMatches
  <2> QED BY <2>1, <2>5
<1>3. CASE row \in ChangeRow
  <2> DEFINE last == IF EndedAt[x.session] > EndedAt[row.last] THEN x.session ELSE row.last
  <2>1. SeenIn(row, x.session) = [first |-> row.first, last |-> last, count |-> row.count + 1]
    BY <1>1, <1>3 DEF SeenIn
  <2>2. row.first \in Session /\ row.last \in Session /\ row.count \in Nat \ {0}
    BY <1>3 DEF ChangeRow
  <2>3. SeenIn(row, x.session) \in ChangeRow
    BY <2>1, <2>2 DEF ChangeRow
  <2>4. Cardinality(seen \cup {x}) = Cardinality(seen) + 1
    BY FS_AddElement
  <2>5. /\ row.count = Cardinality(seen)
        /\ \E y \in seen : y.session = row.last
        /\ \E y \in seen : y.session = row.first
        /\ \A y \in seen : EndedAt[y.session] <= EndedAt[row.last]
    BY <1>1, <1>3 DEF RowMatches
  <2>6. \A y \in seen \cup {x} : EndedAt[y.session] <= EndedAt[last]
    BY <2>2, <2>5
  <2>7. \E y \in seen \cup {x} : y.session = last
    BY <2>5
  <2> HIDE DEF last
  <2> QED BY <1>1, <2>1, <2>3, <2>4, <2>5, <2>6, <2>7 DEF RowMatches
<1> QED BY <1>2, <1>3

LEMMA ProcessHistory ==
  ASSUME TypeInv, HistoryInv, NEW r \in Runner, ProcessSession(r)
  PROVE  HistoryInv'
<1> DEFINE id == run[r].current
           p == run[r].profile
           found == FoundBy(r)
           new == Checkpoint(id, p)
<1>1. /\ id \in Identity /\ p \in Profile /\ found \in SUBSET Change
      /\ db' = Committed(db, id, p, found)
      /\ db'.processed = db.processed \cup {new}
      /\ new \notin db.processed
  BY ProcessType DEF IsProcessed
<1>2. /\ db.changes \in [Profile -> [Change -> ChangeRow \cup {None}]]
      /\ db.processed \subseteq [session: Session, evidence: Evidence, profile: Profile]
  BY DEF TypeInv, TypeOK, TablesOK
<1>3. ASSUME NEW q \in Profile, NEW c \in Change
      PROVE  db'.changes[q][c] = IF q = p /\ c \in found THEN SeenIn(db.changes[p][c], new.session)
                                 ELSE db.changes[q][c]
  BY <1>1, <1>2 DEF Committed, Checkpoint
<1>4. /\ new.profile = p /\ new.session \in Session
      /\ found = Findings[new.session][new.evidence][p]
  BY <1>1 DEF Checkpoint, Identity, FoundBy
<1> HIDE DEF id, p, found, new
<1>5. IsFiniteSet(db.processed) /\ IsFiniteSet(db'.processed)
  <2> HIDE ConstantsAssumption
  <2>1. IsFiniteSet(db.processed)
    BY DEF HistoryInv
  <2>2. IsFiniteSet(db.processed \cup {new})
    BY <2>1, FS_AddElement
  <2> QED BY <1>1, <2>1, <2>2
<1>6. ASSUME NEW q \in Profile, NEW c \in Change
      PROVE  RowMatches(db'.changes[q][c], Sightings(q, c)')
  <2>1. RowMatches(db.changes[q][c], Sightings(q, c))
    BY DEF HistoryInv, HistoryMatchesEvidence, RowMatches
  <2>2. CASE q = p /\ c \in found
    <3>1. Sightings(q, c)' = Sightings(q, c) \cup {new}
      BY <1>1, <1>4, <2>2 DEF Sightings
    <3>2. /\ IsFiniteSet(Sightings(q, c)) /\ new \notin Sightings(q, c)
          /\ \A y \in Sightings(q, c) : y.session \in Session
      BY <1>1, <1>2, <1>5, FS_Subset DEF Sightings
    <3>3. db.changes[q][c] \in ChangeRow \cup {None}
      BY <1>2
    <3>4. RowMatches(SeenIn(db.changes[q][c], new.session), Sightings(q, c) \cup {new})
      BY <1>4, <2>1, <3>2, <3>3, SeenInMatches
    <3> QED BY <1>3, <2>2, <3>1, <3>4
  <2>3. CASE ~(q = p /\ c \in found)
    <3>1. Sightings(q, c)' = Sightings(q, c)
      BY <1>1, <1>4, <2>3 DEF Sightings
    <3> QED BY <1>3, <2>1, <2>3, <3>1
  <2> QED BY <2>2, <2>3
<1> QED BY <1>5, <1>6 DEF HistoryInv, HistoryMatchesEvidence, RowMatches

LEMMA NextHistory == TypeInv /\ HistoryInv /\ [Next]_vars => HistoryInv'
<1> SUFFICES ASSUME TypeInv, HistoryInv, [Next]_vars PROVE HistoryInv'
  OBVIOUS
<1>1. ASSUME db'.processed = db.processed, db'.changes = db.changes PROVE HistoryInv'
  <2>1. ASSUME NEW p, NEW c PROVE Sightings(p, c)' = Sightings(p, c)
    BY <1>1 DEF Sightings
  <2> QED BY <1>1, <2>1 DEF HistoryInv, HistoryMatchesEvidence
<1>2. ASSUME NEW r \in Runner, Mark(r) PROVE HistoryInv'
  BY <1>1, <1>2, MarkType
<1> QED BY <1>1, <1>2, ProcessHistory, TableSteps

(* occurrence_count and last_seen_at of a change are those of the sessions   *)
(* processed so far, however runs interleave, stop and start again.          *)
THEOREM HistoryIsEvidence == Spec => []HistoryMatchesEvidence
<1>1. Init => HistoryInv
  BY FS_EmptySet DEF Init, NoTables, HistoryInv, HistoryMatchesEvidence, Sightings
<1>2. HistoryInv => HistoryMatchesEvidence
  BY DEF HistoryInv
<1> QED BY <1>1, <1>2, InitType, NextType, NextHistory, PTL DEF Spec
-----------------------------------------------------------------------------
(* The promotion log.  A step of the detector changes the state of a process *)
(* only if that process takes it.                                            *)
LEMMA OwnStep ==
  ASSUME TypeInv, [Next]_vars, NEW q \in Runner
  PROVE  \/ run'[q] = run[q]
         \/ RunnerStep(q) \/ Crash(q)
         \/ \E p \in Profile, dry \in BOOLEAN : Launch(q, p, dry)
<1>1. ASSUME NEW r \in Runner, NEW state, Becomes(r, state), r # q
      PROVE  run'[q] = run[q]
  BY <1>1 DEF Becomes, TypeInv, TypeOK
<1>2. ASSUME NEW r \in Runner, RunnerStep(r) PROVE \E state : Becomes(r, state)
  BY <1>2 DEF RunnerStep, ReadPending, PendingDone, WriteTemporary, Recheck, Replace,
              SyncDirectory, Verify, Mark, List, Classify, ProcessSession, SkipProcessed,
              Finish, Raise, TakeItem, Extract
<1>3. ASSUME NEW r \in Runner, Crash(r) PROVE \E state : Becomes(r, state)
  BY <1>3 DEF Crash
<1>4. ASSUME NEW r \in Runner, NEW p \in Profile, NEW dry \in BOOLEAN, Launch(r, p, dry)
      PROVE  \E state : Becomes(r, state)
  BY <1>4 DEF Launch
<1>5. ASSUME Environment \/ UNCHANGED vars PROVE run'[q] = run[q]
  BY <1>5 DEF Environment, EndSession, AlterEvidence, vars
<1> QED BY <1>1, <1>2, <1>3, <1>4, <1>5 DEF Next

(* Processes take their steps one at a time.                                 *)
LEMMA OneMoves ==
  ASSUME TypeInv, [Next]_vars, NEW r \in Runner, NEW q \in Runner, r # q
  PROVE  run'[r] = run[r] \/ run'[q] = run[q]
<1>1. ASSUME NEW x \in Runner, NEW state, Becomes(x, state)
      PROVE  run'[r] = run[r] \/ run'[q] = run[q]
  BY <1>1 DEF Becomes, TypeInv, TypeOK
<1>2. ASSUME NEW x \in Runner, RunnerStep(x) PROVE \E state : Becomes(x, state)
  BY <1>2 DEF RunnerStep, ReadPending, PendingDone, WriteTemporary, Recheck, Replace,
              SyncDirectory, Verify, Mark, List, Classify, ProcessSession, SkipProcessed,
              Finish, Raise, TakeItem, Extract
<1>3. ASSUME NEW x \in Runner, Crash(x) PROVE \E state : Becomes(x, state)
  BY <1>3 DEF Crash
<1>4. ASSUME NEW x \in Runner, NEW p \in Profile, NEW dry \in BOOLEAN, Launch(x, p, dry)
      PROVE  \E state : Becomes(x, state)
  BY <1>4 DEF Launch
<1>5. ASSUME Environment \/ UNCHANGED vars PROVE run'[q] = run[q]
  BY <1>5 DEF Environment, EndSession, AlterEvidence, vars
<1> QED BY <1>1, <1>2, <1>3, <1>4, <1>5 DEF Next

(* Rows of the outbox are never deleted.                                     *)
LEMMA OutboxGrows ==
  ASSUME TypeInv, [Next]_vars
  PROVE  DOMAIN db.outbox \subseteq DOMAIN db'.outbox
<1>1. ASSUME NEW r \in Runner, Mark(r) PROVE DOMAIN db.outbox \subseteq DOMAIN db'.outbox
  BY <1>1, MarkType
<1>2. ASSUME NEW r \in Runner, ProcessSession(r)
      PROVE  DOMAIN db.outbox \subseteq DOMAIN db'.outbox
  <2>1. PICK b : db'.outbox = db.outbox \/ db'.outbox = WithRow(db.outbox, b, "pending")
    BY <1>2, ProcessType
  <2> QED BY <2>1 DEF WithRow
<1> QED BY <1>1, <1>2, TableSteps

(* What the steps of a run leave in the fields of its process.  Those of     *)
(* materialize_pending, and the end of the run, leave its summary alone.     *)
Publishing(q) ==
  \/ ReadPending(q) \/ PendingDone(q) \/ WriteTemporary(q) \/ Recheck(q) \/ Replace(q)
  \/ SyncDirectory(q) \/ Verify(q) \/ Mark(q) \/ Finish(q)
  \/ \E b \in run[q].todo : TakeItem(q, b)

Summary(st) == <<st.dry, st.blind, st.profile, st.listed, st.queue, st.first, st.fresh>>

LEMMA AfterFields ==
  ASSUME TypeInv, NEW q \in Runner
  PROVE  /\ run[q] \in RunnerState
         /\ \A state : Becomes(q, state) => run'[q] = state
BY DEF Becomes, TypeInv, TypeOK

LEMMA PublishingFields ==
  ASSUME TypeInv, NEW q \in Runner, Publishing(q)
  PROVE  /\ Summary(run'[q]) = Summary(run[q])
         /\ run[q].pc \notin {"idle", "list", "decide"} /\ run'[q].pc # "decide"
         /\ run'[q].pc = "list" => ~run[q].listed
         /\ run'[q].pc = "session" => run[q].listed
         /\ run'[q].pc = "idle" => run[q].pc = "session" /\ run[q].queue = {}
         /\ run'[q].todo \subseteq run[q].todo \cup Pending(db)
         /\ run'[q].pc \in AtItem =>
              IF run[q].pc \in AtItem THEN run'[q].item = run[q].item
                                      ELSE run'[q].item \in run[q].todo
<1> DEFINE st == run[q]
<1>1. st \in RunnerState /\ \A state : Becomes(q, state) => run'[q] = state
  BY AfterFields
<1>2. CASE ReadPending(q)
  <2>1. run'[q] = [st EXCEPT !.todo = Pending(db), !.pc = "next"]
    BY <1>1, <1>2 DEF ReadPending
  <2> QED BY <1>1, <1>2, <2>1 DEF ReadPending, RunnerState, Summary, AtItem
<1>3. CASE Mark(q)
  <2>1. run'[q] = [st EXCEPT !.todo = @ \ {st.item}, !.item = None, !.pc = "next"]
    BY <1>1, <1>3 DEF Mark
  <2> QED BY <1>1, <1>3, <2>1 DEF Mark, RunnerState, Summary, AtItem
<1>4. ASSUME NEW b \in st.todo, TakeItem(q, b)
      PROVE  \E pc \in {"write", "mark"} : run'[q] = [st EXCEPT !.item = b, !.pc = pc]
  BY <1>1, <1>4 DEF TakeItem
<1>5. ASSUME NEW b \in st.todo, TakeItem(q, b), NEW pc \in {"write", "mark"},
             run'[q] = [st EXCEPT !.item = b, !.pc = pc]
      PROVE  /\ Summary(run'[q]) = Summary(st) /\ st.pc = "next" /\ run'[q].pc = pc
             /\ run'[q].todo = st.todo /\ run'[q].item = b
  BY <1>1, <1>5 DEF TakeItem, RunnerState, Summary
<1>6. CASE PendingDone(q)
  <2> DEFINE pc == IF st.listed THEN "session" ELSE "list"
  <2>1. run'[q] = [st EXCEPT !.pc = pc]
    BY <1>1, <1>6 DEF PendingDone
  <2>2. run[q].pc = "next"
    BY <1>6 DEF PendingDone
  <2> QED BY <1>1, <2>1, <2>2 DEF RunnerState, Summary, AtItem
<1>7. CASE Finish(q)
  <2>1. run'[q] = [st EXCEPT !.pc = "idle"] /\ st.pc = "session" /\ st.queue = {}
    BY <1>1, <1>7 DEF Finish
  <2> QED BY <1>1, <2>1 DEF RunnerState, Summary, AtItem
<1>8. CASE WriteTemporary(q) \/ Recheck(q) \/ Replace(q) \/ SyncDirectory(q) \/ Verify(q)
  <2>1. PICK pc \in AtItem : run'[q] = [st EXCEPT !.pc = pc]
    BY <1>1, <1>8 DEF WriteTemporary, Recheck, Replace, SyncDirectory, Verify, AtItem
  <2>2. st.pc \in AtItem /\ pc # "decide" /\ pc # "list" /\ pc # "session" /\ pc # "idle"
    BY <1>8 DEF WriteTemporary, Recheck, Replace, SyncDirectory, Verify, AtItem
  <2> QED BY <1>1, <2>1, <2>2 DEF RunnerState, Summary, AtItem
<1> QED BY <1>2, <1>3, <1>4, <1>5, <1>6, <1>7, <1>8, ZenonT(60) DEF Publishing, AtItem

LEMMA ListFields ==
  ASSUME TypeInv, NEW q \in Runner, List(q)
  PROVE  /\ run[q].pc = "list" /\ run'[q].pc = "session" /\ run'[q].listed
         /\ run'[q].queue = Inspected /\ run'[q].fresh = Shown(run[q].profile) \ View(q)
         /\ run'[q].dry = run[q].dry /\ run'[q].blind = run[q].blind
         /\ run'[q].profile = run[q].profile
         /\ run'[q].first = run[q].first /\ run'[q].todo = run[q].todo
<1>1. run[q] \in RunnerState /\ \A state : Becomes(q, state) => run'[q] = state
  BY AfterFields
<1> DEFINE queue == Inspected
           fresh == Shown(run[q].profile) \ View(q)
<1>2. /\ run[q].pc = "list"
      /\ run'[q] = [run[q] EXCEPT !.queue = queue, !.fresh = fresh, !.listed = TRUE,
                                  !.pc = "session"]
  BY <1>1 DEF List
<1> HIDE DEF queue, fresh
<1>3. /\ run'[q].pc = "session" /\ run'[q].listed
      /\ run'[q].queue = queue /\ run'[q].fresh = fresh
      /\ run'[q].dry = run[q].dry /\ run'[q].blind = run[q].blind
      /\ run'[q].profile = run[q].profile
      /\ run'[q].first = run[q].first /\ run'[q].todo = run[q].todo
  BY <1>1, <1>2 DEF RunnerState
<1> QED BY <1>2, <1>3 DEF queue, fresh

LEMMA ExtractFields ==
  ASSUME TypeInv, NEW q \in Runner, NEW id \in run[q].queue, Extract(q, id)
  PROVE  /\ run[q].pc = "session" /\ run'[q].pc = "decide" /\ run'[q].current = id
         /\ run'[q].queue = run[q].queue \ {id}
         /\ run'[q].dry = run[q].dry /\ run'[q].blind = run[q].blind
         /\ run'[q].profile = run[q].profile
         /\ run'[q].listed = run[q].listed /\ run'[q].fresh = run[q].fresh
         /\ run'[q].first = run[q].first /\ run'[q].todo = run[q].todo
<1>1. run[q] \in RunnerState /\ \A state : Becomes(q, state) => run'[q] = state
  BY AfterFields
<1>2. /\ run[q].pc = "session"
      /\ run'[q] = [run[q] EXCEPT !.queue = @ \ {id}, !.current = id, !.pc = "decide"]
  BY <1>1 DEF Extract
<1> QED BY <1>1, <1>2 DEF RunnerState

(* The three ways a session ends: the set of what its step calls new.        *)
Deciding(q, new) ==
  \/ Classify(q) /\ new = FoundBy(q) \ (View(q) \cup run[q].first)
  \/ ProcessSession(q) /\ new = FoundBy(q) \ Known(db, run[q].profile)
  \/ SkipProcessed(q) /\ new = {}

LEMMA DecidingFields ==
  ASSUME TypeInv, NEW q \in Runner, NEW new, Deciding(q, new)
  PROVE  /\ run[q].pc = "decide" /\ run'[q].pc \in {"session", "pending"}
         /\ run'[q].first = run[q].first \cup new
         /\ run'[q].dry = run[q].dry /\ run'[q].blind = run[q].blind
         /\ run'[q].profile = run[q].profile
         /\ run'[q].listed = run[q].listed /\ run'[q].fresh = run[q].fresh
         /\ run'[q].queue = run[q].queue /\ run'[q].todo = run[q].todo
<1>1. run[q] \in RunnerState /\ \A state : Becomes(q, state) => run'[q] = state
  BY AfterFields
<1>2. CASE SkipProcessed(q) /\ new = {}
  <2>1. run'[q] = [run[q] EXCEPT !.repeated = @ \cup FoundBy(q),
                                 !.current = None, !.pc = "pending"]
    BY <1>1, <1>2 DEF SkipProcessed
  <2> QED BY <1>1, <1>2, <2>1 DEF SkipProcessed, RunnerState
<1>3. CASE Classify(q) /\ new = FoundBy(q) \ (View(q) \cup run[q].first)
  <2>1. PICK seen : run'[q] = [run[q] EXCEPT !.first = @ \cup new, !.repeated = seen,
                                             !.current = None, !.pc = "session"]
    BY <1>1, <1>3 DEF Classify
  <2>2. run[q].pc = "decide"
    BY <1>3 DEF Classify
  <2> QED BY <1>1, <2>1, <2>2 DEF RunnerState
<1>4. CASE ProcessSession(q) /\ new = FoundBy(q) \ Known(db, run[q].profile)
  <2>1. PICK seen : run'[q] = [run[q] EXCEPT !.first = @ \cup new, !.repeated = seen,
                                             !.current = None, !.pc = "pending"]
    BY <1>1, <1>4 DEF ProcessSession
  <2>2. run[q].pc = "decide"
    BY <1>4 DEF ProcessSession
  <2> QED BY <1>1, <2>1, <2>2 DEF RunnerState
<1> QED BY <1>2, <1>3, <1>4 DEF Deciding

(* Every step of one process, named by what it does to the process.          *)
LEMMA OwnSteps ==
  ASSUME TypeInv, [Next]_vars, NEW q \in Runner
  PROVE  \/ run'[q] = run[q]
         \/ Publishing(q) \/ List(q) \/ \E new : Deciding(q, new)
         \/ \E id \in run[q].queue : Extract(q, id)
         \/ run'[q] = Idle
         \/ \E p \in Profile, dry \in BOOLEAN :
              run'[q] = [Began(p, dry) EXCEPT !.blind = dry /\ ~made]
BY OwnStep, AfterFields DEF RunnerStep, Publishing, Deciding, Raise, Crash, Launch

(* What a process is about to publish has its row in the outbox: it read the *)
(* row, and the transaction that wrote it was committed before.              *)
ItemsCommitted ==
  \A r \in Runner :
    /\ run[r].todo \subseteq DOMAIN db.outbox
    /\ run[r].pc \in AtItem => run[r].item \in DOMAIN db.outbox

LEMMA NextCommitted == TypeInv /\ ItemsCommitted /\ [Next]_vars => ItemsCommitted'
<1> SUFFICES ASSUME TypeInv, ItemsCommitted, [Next]_vars, NEW q \in Runner
             PROVE  /\ run'[q].todo \subseteq DOMAIN db'.outbox
                    /\ run'[q].pc \in AtItem => run'[q].item \in DOMAIN db'.outbox
  BY DEF ItemsCommitted
<1>0. /\ run[q].todo \subseteq DOMAIN db'.outbox /\ Pending(db) \subseteq DOMAIN db'.outbox
      /\ run[q].pc \in AtItem => run[q].item \in DOMAIN db'.outbox
  BY OutboxGrows DEF ItemsCommitted, Pending
<1>1. CASE run'[q] = run[q]
  BY <1>0, <1>1
<1>2. CASE Publishing(q)
  BY <1>0, <1>2, PublishingFields
<1>3. CASE List(q)
  BY <1>0, <1>3, ListFields DEF AtItem
<1>4. ASSUME NEW new, Deciding(q, new)
      PROVE  run'[q].todo = run[q].todo /\ run'[q].pc \notin AtItem
  BY <1>4, DecidingFields DEF AtItem
<1>5. ASSUME NEW id \in run[q].queue, Extract(q, id)
      PROVE  run'[q].todo = run[q].todo /\ run'[q].pc \notin AtItem
  BY <1>5, ExtractFields DEF AtItem
<1>6. CASE run'[q] = Idle
  BY <1>6 DEF Idle, AtItem
<1>7. ASSUME NEW p \in Profile, NEW dry \in BOOLEAN,
             run'[q] = [Began(p, dry) EXCEPT !.blind = dry /\ ~made]
      PROVE  run'[q].todo = {} /\ run'[q].pc \notin AtItem
  BY <1>7 DEF Began, Idle, AtItem
<1> QED BY <1>0, <1>1, <1>2, <1>3, <1>4, <1>5, <1>6, <1>7, OwnSteps

(* The transaction promotes: the bundle is new, says something, and shares   *)
(* no change with an earlier bundle of its profile.                          *)
LEMMA ProcessPromotes ==
  ASSUME TypeInv, OneBundlePerChange, NEW r \in Runner, ProcessSession(r)
  PROVE  [Log!Next]_Log!logVars
<1> DEFINE id == run[r].current
           p == run[r].profile
           found == FoundBy(r)
           new == NewBundle(db, id, p, found)
<1>1. /\ id \in Identity /\ p \in Profile /\ found \in SUBSET Change
      /\ found \subseteq Known(db, p) => db'.outbox = db.outbox
      /\ ~(found \subseteq Known(db, p)) => db'.outbox = WithRow(db.outbox, new, "pending")
  BY ProcessType
<1>2. UNCHANGED files /\ ~Refused(r) /\ ~IsProcessed(db, id, p)
  BY DEF ProcessSession
<1>3. CASE found \subseteq Known(db, p)
  BY <1>1, <1>2, <1>3 DEF Log!logVars
<1>4. CASE ~(found \subseteq Known(db, p))
  <2>1. new \in Log!Bundle /\ new.profile = p /\ new.changes = found \ Known(db, p)
    BY <1>1 DEF NewBundle, Log!Bundle, Identity
  <2>2. new \notin DOMAIN db.outbox
    BY <1>2, <1>4 DEF Refused
  <2>3. ASSUME NEW b \in DOMAIN db.outbox PROVE Log!Disjoint(new, b)
    <3> SUFFICES ASSUME b.profile = p, NEW c \in new.changes, c \in b.changes PROVE FALSE
      BY <2>1 DEF Log!Disjoint
    <3>1. c \in Change /\ db.changes[p][c] = None
      BY <1>1, <2>1 DEF Known
    <3>2. b \in Announcing(p, c)
      BY DEF Announcing
    <3> QED BY <1>1, <3>1, <3>2 DEF OneBundlePerChange
  <2>4. DOMAIN db'.outbox = DOMAIN db.outbox \cup {new}
    BY <1>1, <1>4 DEF WithRow
  <2>5. {b \in DOMAIN db'.outbox : db'.outbox[b] = "materialized"}
          = {b \in DOMAIN db.outbox : db.outbox[b] = "materialized"}
    BY <1>1, <1>4, <2>2 DEF WithRow
  <2>6. new.changes # {}
    BY <1>4, <2>1
  <2> HIDE DEF new, id, p, found
  <2>7. Log!Promote(new)
    BY <1>2, <2>2, <2>3, <2>4, <2>5, <2>6 DEF Log!Promote
  <2> QED BY <2>1, <2>7 DEF Log!Next
<1> QED BY <1>3, <1>4

(* The rename publishes, the mark acknowledges.                              *)
LEMMA ReplacePublishes ==
  ASSUME TypeInv, ItemsCommitted, NEW r \in Runner, Replace(r)
  PROVE  [Log!Next]_Log!logVars
<1>0. run[r].item \in Log!Bundle
  BY DEF Replace, TypeInv, Shape, ShapeOf, AtItem, Bundle, Log!Bundle
<1> PICK bundle \in Log!Bundle : bundle = run[r].item
  BY <1>0
<1>1. /\ bundle \in DOMAIN db.outbox
      /\ files' = WithRow(files, bundle, "exact") /\ UNCHANGED db
  BY DEF Replace, ItemsCommitted, AtItem
<1>2. {x \in DOMAIN files' : files'[x] = "exact"} = {x \in DOMAIN files : files[x] = "exact"} \cup {bundle}
  BY <1>1 DEF WithRow
<1>3. CASE bundle \in {x \in DOMAIN files : files[x] = "exact"}
  BY <1>1, <1>2, <1>3 DEF Log!logVars
<1>4. CASE bundle \notin {x \in DOMAIN files : files[x] = "exact"}
  <2>1. Log!Publish(bundle)
    BY <1>1, <1>2, <1>4 DEF Log!Publish
  <2> QED BY <2>1 DEF Log!Next
<1> QED BY <1>3, <1>4

LEMMA MarkAcknowledges ==
  ASSUME TypeInv, MarkIsEarned, NEW r \in Runner, Mark(r)
  PROVE  [Log!Next]_Log!logVars
<1> DEFINE marked == {x \in DOMAIN db.outbox : db.outbox[x] = "materialized"}
<1>0. run[r].item \in Log!Bundle
  BY DEF Mark, TypeInv, Shape, ShapeOf, AtItem, Bundle, Log!Bundle
<1> PICK bundle \in Log!Bundle : bundle = run[r].item
  BY <1>0
<1>1. /\ db'.outbox = WithRow(db.outbox, bundle, "materialized")
      /\ DOMAIN db'.outbox = DOMAIN db.outbox
  BY MarkType
<1>a. /\ bundle \in DOMAIN db.outbox /\ UNCHANGED files
      /\ bundle \in {x \in DOMAIN files : files[x] = "exact"}
  BY DEF Mark, MarkIsEarned, HasBytes
<1>2. {x \in DOMAIN db'.outbox : db'.outbox[x] = "materialized"} = marked \cup {bundle}
  BY <1>1, <1>a DEF WithRow
<1>3. CASE bundle \in marked
  BY <1>1, <1>a, <1>2, <1>3 DEF Log!logVars
<1>4. CASE bundle \notin marked
  <2>1. Log!Acknowledge(bundle)
    BY <1>1, <1>a, <1>2, <1>4 DEF Log!Acknowledge
  <2> QED BY <2>1 DEF Log!Next
<1> QED BY <1>3, <1>4

(* The tables and the directory of any number of processes, which stop and   *)
(* start again between any two steps, implement the promotion log: a change  *)
(* is promoted once, published after that, acknowledged after that.          *)
THEOREM PromotionsAreLogged == Spec => ImplementsPromotionLog
<1>1. Init => Log!Init
  BY DEF Init, NoTables, Log!Init
<1>2. TypeInv /\ OneBundlePerChange /\ MarkIsEarned /\ ItemsCommitted /\ [Next]_vars
        => [Log!Next]_Log!logVars
  <2> SUFFICES ASSUME TypeInv, OneBundlePerChange, MarkIsEarned, ItemsCommitted, [Next]_vars
               PROVE  [Log!Next]_Log!logVars
    OBVIOUS
  <2>1. CASE UNCHANGED db /\ UNCHANGED files
    BY <2>1 DEF Log!logVars
  <2>2. ASSUME NEW r \in Runner, ProcessSession(r) \/ Mark(r) \/ Replace(r)
        PROVE  [Log!Next]_Log!logVars
    BY <2>2, ProcessPromotes, MarkAcknowledges, ReplacePublishes
  <2> QED BY <2>1, <2>2, TableSteps, FileSteps
<1>3. Init => OneBundlePerChange /\ PublishInv /\ ItemsCommitted
  BY DEF Init, NoTables, OneBundlePerChange, Announcing, PublishInv, MarkedMeansPublished, MarkIsEarned,
         ItemsCommitted, Idle, AtItem
<1>4. PublishInv => MarkIsEarned
  BY DEF PublishInv
<1> QED
  BY <1>1, <1>2, <1>3, <1>4, InitType, NextType, NextBundles, NextPublish, NextCommitted,
     PTL DEF Spec, ImplementsPromotionLog, Log!Spec
-----------------------------------------------------------------------------
(* The summary.  Between its list of sessions and its end a run owes every   *)
(* fresh change: it has counted it, another run has recorded it meanwhile,   *)
(* or a session it still has to look at shows it.                            *)
Left(st) == st.queue \cup (IF st.pc = "decide" THEN {st.current} ELSE {})

Showing(id, p) == Findings[id.session][id.evidence][p]

(* What the run sees of what is known: a blind run sees nothing.             *)
Sight(known, st) == IF st.blind THEN {} ELSE known[st.profile]

SummaryOf(known, st) ==
  /\ st.blind => st.dry
  /\ st.pc \in {"session", "decide"} => st.listed
  /\ st.pc = "list" => ~st.listed
  /\ st.pc = "idle" /\ st.listed => st.queue = {}
  /\ ~st.listed => st.first = {}
  /\ st.listed =>
       /\ st.profile \in Profile
       /\ st.first \subseteq st.fresh
       /\ ~st.dry => st.first \subseteq known[st.profile]
       /\ \A id \in Left(st) : Showing(id, st.profile) \subseteq st.fresh \cup Sight(known, st)
       /\ \A c \in st.fresh : \/ c \in st.first \cup Sight(known, st)
                              \/ \E id \in Left(st) : c \in Showing(id, st.profile)

KnownBy(d) == [p \in Profile |-> Known(d, p)]

Apart(x, y) ==
  ~x.dry /\ ~y.dry /\ x.profile = y.profile => x.first \cap y.first = {}

SummaryInv ==
  /\ \A r \in Runner : SummaryOf(KnownBy(db), run[r])
  /\ \A r, q \in Runner : r # q => Apart(run[r], run[q])

(* What is known stays known, and a transaction makes known what it found.   *)
LEMMA KnownGrows ==
  ASSUME TypeInv, [Next]_vars, NEW p \in Profile
  PROVE  KnownBy(db)[p] \subseteq KnownBy(db')[p]
<1>1. ASSUME db'.changes = db.changes PROVE KnownBy(db)[p] \subseteq KnownBy(db')[p]
  BY <1>1 DEF KnownBy, Known
<1>2. ASSUME NEW r \in Runner, ProcessSession(r)
      PROVE  KnownBy(db)[p] \subseteq KnownBy(db')[p]
  <2>1. db' = Committed(db, run[r].current, run[r].profile, FoundBy(r))
    BY <1>2, ProcessType
  <2>2. db.changes \in [Profile -> [Change -> ChangeRow \cup {None}]]
    BY DEF TypeInv, TypeOK, TablesOK
  <2>3. \A c \in Change : db.changes[p][c] # None => db'.changes[p][c] # None
    <3>1. \A s \in Session, row \in ChangeRow : SeenIn(row, s) # None
      BY DEF SeenIn, ChangeRow
    <3>2. run[r].current.session \in Session
      BY <1>2, ProcessType DEF Identity
    <3> QED BY <2>1, <2>2, <3>1, <3>2 DEF Committed
  <2> QED BY <2>3 DEF KnownBy, Known
<1>3. ASSUME NEW r \in Runner, Mark(r) PROVE db'.changes = db.changes
  BY <1>3, MarkType
<1> QED BY <1>1, <1>2, <1>3, TableSteps

LEMMA ProcessKnows ==
  ASSUME TypeInv, NEW r \in Runner, ProcessSession(r)
  PROVE  FoundBy(r) \subseteq KnownBy(db')[run[r].profile]
<1>1. /\ run[r].current.session \in Session /\ run[r].profile \in Profile
      /\ FoundBy(r) \in SUBSET Change
      /\ db' = Committed(db, run[r].current, run[r].profile, FoundBy(r))
  BY ProcessType DEF Identity
<1>2. db.changes \in [Profile -> [Change -> ChangeRow \cup {None}]]
  BY DEF TypeInv, TypeOK, TablesOK
<1>3. \A s \in Session, row \in ChangeRow \cup {None} : SeenIn(row, s) # None
  BY DEF SeenIn, ChangeRow
<1>4. \A c \in FoundBy(r) : db'.changes[run[r].profile][c] # None
  BY <1>1, <1>2, <1>3 DEF Committed
<1> QED BY <1>1, <1>4 DEF KnownBy, Known

(* A checkpointed session showed nothing that is not on record.              *)
LEMMA SkippedIsKnown ==
  ASSUME TypeInv, HistoryInv, NEW r \in Runner, SkipProcessed(r)
  PROVE  FoundBy(r) \subseteq KnownBy(db)[run[r].profile]
<1>1. /\ run[r].current \in Identity /\ run[r].profile \in Profile
      /\ FoundBy(r) \in SUBSET Change
      /\ Checkpoint(run[r].current, run[r].profile) \in db.processed
  BY FoundType DEF TypeInv, Shape, ShapeOf, SkipProcessed, IsProcessed
<1>2. ASSUME NEW c \in FoundBy(r) PROVE db.changes[run[r].profile][c] # None
  <2>1. Checkpoint(run[r].current, run[r].profile) \in Sightings(run[r].profile, c)
    BY <1>1 DEF Sightings, Checkpoint, FoundBy
  <2> QED BY <1>1, <2>1 DEF HistoryInv, HistoryMatchesEvidence
<1> QED BY <1>1, <1>2 DEF KnownBy, Known

(* What a step calls new was not known before it, and what its session shows *)
(* is counted or on record after it.                                         *)
LEMMA DecidingAccounts ==
  ASSUME TypeInv, HistoryInv, [Next]_vars, NEW q \in Runner, NEW new, Deciding(q, new),
         run[q].blind => run[q].dry
  PROVE  LET p == run[q].profile IN
         /\ p \in Profile
         /\ new \subseteq FoundBy(q) \ Sight(KnownBy(db), run[q])
         /\ FoundBy(q) \subseteq run[q].first \cup new \cup Sight(KnownBy(db'), run[q])
         /\ ~run[q].dry => /\ new \subseteq KnownBy(db')[p]
                          /\ new \cap KnownBy(db)[p] = {}
<1> DEFINE p == run[q].profile
<1>1. p \in Profile
  BY DecidingFields DEF TypeInv, Shape, ShapeOf
<1>2. KnownBy(db)[p] = Known(db, p) /\ KnownBy(db)[p] \subseteq KnownBy(db')[p]
  BY <1>1, KnownGrows DEF KnownBy
<1>3. /\ Sight(KnownBy(db), run[q]) = View(q)
      /\ View(q) \subseteq Sight(KnownBy(db'), run[q])
      /\ ~run[q].dry => /\ View(q) = Known(db, p)
                       /\ Sight(KnownBy(db'), run[q]) = KnownBy(db')[p]
  BY <1>2 DEF Sight, View
<1> HIDE DEF p
<1>4. CASE Classify(q) /\ new = FoundBy(q) \ (View(q) \cup run[q].first)
  <2>1. run[q].dry
    BY <1>4 DEF Classify
  <2> QED BY <1>1, <1>3, <1>4, <2>1 DEF p
<1>5. CASE ProcessSession(q) /\ new = FoundBy(q) \ Known(db, p)
  <2>1. ~run[q].dry /\ FoundBy(q) \subseteq KnownBy(db')[p]
    BY <1>5, ProcessKnows DEF ProcessSession, p
  <2> QED BY <1>1, <1>2, <1>3, <1>5, <2>1 DEF p
<1>6. CASE SkipProcessed(q) /\ new = {}
  <2>1. ~run[q].dry /\ FoundBy(q) \subseteq KnownBy(db)[p]
    BY <1>6, SkippedIsKnown DEF SkipProcessed, p
  <2> QED BY <1>1, <1>2, <1>3, <1>6, <2>1 DEF p
<1> QED BY <1>4, <1>5, <1>6 DEF Deciding, p

(* More is known only makes the account of a run easier to keep.             *)
LEMMA SummaryStays ==
  ASSUME NEW known, NEW more, NEW st, SummaryOf(known, st),
         \A p \in Profile : known[p] \subseteq more[p]
  PROVE  SummaryOf(more, st)
<1>1. st.listed => Sight(known, st) \subseteq Sight(more, st)
  BY DEF Sight, SummaryOf
<1> HIDE DEF Sight
<1> QED BY <1>1, Zenon DEF SummaryOf

LEMMA PublishingSummary ==
  ASSUME TypeInv, NEW known, NEW q \in Runner, Publishing(q), SummaryOf(known, run[q])
  PROVE  SummaryOf(known, run'[q])
<1>1. Left(run'[q]) = Left(run[q])
  BY PublishingFields DEF Summary, Left
<1>2. Sight(known, run'[q]) = Sight(known, run[q])
  BY PublishingFields DEF Summary, Sight
<1> QED BY <1>1, <1>2, PublishingFields DEF Summary, SummaryOf

LEMMA ListSummary ==
  ASSUME TypeInv, NEW q \in Runner, List(q), SummaryOf(KnownBy(db), run[q])
  PROVE  SummaryOf(KnownBy(db), run'[q])
<1> DEFINE p == run[q].profile
           queue == Inspected
<1>1. /\ run[q].pc = "list" /\ run'[q].pc = "session" /\ run'[q].listed
      /\ run'[q].queue = queue /\ run'[q].fresh = Shown(p) \ View(q)
      /\ run'[q].dry = run[q].dry /\ run'[q].blind = run[q].blind
      /\ run'[q].profile = p /\ run'[q].first = run[q].first
  BY ListFields
<1>2. p \in Profile /\ Sight(KnownBy(db), run'[q]) = View(q)
  BY <1>1 DEF TypeInv, Shape, ShapeOf, KnownBy, Sight, View
<1>3. run'[q].first = {} /\ (run'[q].blind => run'[q].dry)
  BY <1>1 DEF SummaryOf
<1>4. Left(run'[q]) = queue
  BY <1>1 DEF Left
<1>5. \A c : c \in Shown(p) <=> \E id \in queue : c \in Showing(id, p)
  <2> HIDE DEF p
  <2>1. \A s \in Finalized :
          Showing([session |-> s, evidence |-> evidence[s]], p) = Findings[s][evidence[s]][p]
    BY DEF Showing
  <2>2. ASSUME NEW c, NEW s \in Finalized, c \in Findings[s][evidence[s]][p]
        PROVE  c \in Shown(p) /\ \E id \in queue : c \in Showing(id, p)
    BY <2>1, <2>2, ZenonT(60) DEF Shown, Inspected
  <2>3. ASSUME NEW c, c \in Shown(p)
        PROVE  \E s \in Finalized : c \in Findings[s][evidence[s]][p]
    BY <2>3 DEF Shown
  <2>4. ASSUME NEW c, NEW id \in queue, c \in Showing(id, p)
        PROVE  \E s \in Finalized : c \in Findings[s][evidence[s]][p]
    BY <2>1, <2>4, SMTT(30) DEF Inspected
  <2> QED BY <2>2, <2>3, <2>4
<1> HIDE DEF p, queue
<1> QED BY <1>1, <1>2, <1>3, <1>4, <1>5 DEF SummaryOf

LEMMA ExtractSummary ==
  ASSUME TypeInv, NEW known, NEW q \in Runner, NEW id \in run[q].queue, Extract(q, id),
         SummaryOf(known, run[q])
  PROVE  SummaryOf(known, run'[q])
<1>1. Left(run'[q]) = Left(run[q])
  BY ExtractFields DEF Left
<1>2. Sight(known, run'[q]) = Sight(known, run[q])
  BY ExtractFields DEF Sight
<1> QED BY <1>1, <1>2, ExtractFields DEF SummaryOf

LEMMA DecidingSummary ==
  ASSUME TypeInv, HistoryInv, [Next]_vars, NEW q \in Runner, NEW new, Deciding(q, new),
         SummaryOf(KnownBy(db), run[q])
  PROVE  SummaryOf(KnownBy(db'), run'[q])
<1> DEFINE p == run[q].profile
           known == Sight(KnownBy(db), run[q])
           more == Sight(KnownBy(db'), run[q])
<1>1. /\ run[q].pc = "decide" /\ run'[q].pc \in {"session", "pending"}
      /\ run'[q].first = run[q].first \cup new /\ run'[q].queue = run[q].queue
      /\ run'[q].dry = run[q].dry /\ run'[q].blind = run[q].blind
      /\ run'[q].profile = p
      /\ run'[q].listed = run[q].listed /\ run'[q].fresh = run[q].fresh
  BY DecidingFields
<1>2. /\ p \in Profile /\ new \subseteq FoundBy(q) \ known
      /\ FoundBy(q) \subseteq run[q].first \cup new \cup more
      /\ ~run[q].dry => new \subseteq KnownBy(db')[p]
      /\ run[q].blind => run[q].dry
  <2>1. run[q].blind => run[q].dry
    BY DEF SummaryOf
  <2> QED BY <2>1, DecidingAccounts
<1>3. /\ known \subseteq more /\ KnownBy(db)[p] \subseteq KnownBy(db')[p]
      /\ Sight(KnownBy(db'), run'[q]) = more
  BY <1>1, <1>2, KnownGrows DEF Sight
<1>4. /\ Left(run[q]) = run[q].queue \cup {run[q].current}
      /\ Left(run'[q]) = run[q].queue
      /\ FoundBy(q) = Showing(run[q].current, p)
  BY <1>1 DEF Left, FoundBy, Showing
<1>5. /\ run[q].listed /\ run[q].first \subseteq run[q].fresh
      /\ ~run[q].dry => run[q].first \subseteq KnownBy(db)[p]
      /\ \A id \in Left(run[q]) : Showing(id, p) \subseteq run[q].fresh \cup known
      /\ \A c \in run[q].fresh : \/ c \in run[q].first \cup known
                                 \/ \E id \in Left(run[q]) : c \in Showing(id, p)
  BY <1>1 DEF SummaryOf
<1> HIDE DEF p, known, more
<1>6. run'[q].first \subseteq run'[q].fresh
  BY <1>1, <1>2, <1>4, <1>5
<1>7. ~run'[q].dry => run'[q].first \subseteq KnownBy(db')[p]
  BY <1>1, <1>2, <1>3, <1>5
<1>8. \A id \in Left(run'[q]) : Showing(id, p) \subseteq run'[q].fresh \cup more
  BY <1>1, <1>3, <1>4, <1>5
<1>9. \A c \in run'[q].fresh : \/ c \in run'[q].first \cup more
                               \/ \E id \in Left(run'[q]) : c \in Showing(id, p)
  BY <1>1, <1>2, <1>3, <1>4, <1>5
<1> QED BY <1>1, <1>2, <1>3, <1>5, <1>6, <1>7, <1>8, <1>9 DEF SummaryOf, p

LEMMA FreshSummary ==
  ASSUME NEW known, NEW state,
         \/ state = Idle
         \/ \E p \in Profile, dry \in BOOLEAN :
              state = [Began(p, dry) EXCEPT !.blind = dry /\ ~made]
  PROVE  SummaryOf(known, state) /\ state.first = {}
<1>1. CASE state = Idle
  BY <1>1 DEF SummaryOf, Idle
<1>2. ASSUME NEW p \in Profile, NEW dry \in BOOLEAN,
             state = [Began(p, dry) EXCEPT !.blind = dry /\ ~made]
      PROVE  SummaryOf(known, state) /\ state.first = {}
  <2>1. /\ state.pc \in {"list", "pending"} /\ ~state.listed /\ state.first = {}
        /\ state.blind => state.dry
    BY <1>2 DEF Began, Idle
  <2> QED BY <2>1 DEF SummaryOf
<1> QED BY <1>1, <1>2

LEMMA NextSummary == TypeInv /\ HistoryInv /\ SummaryInv /\ [Next]_vars => SummaryInv'
<1> SUFFICES ASSUME TypeInv, HistoryInv, SummaryInv, [Next]_vars PROVE SummaryInv'
  OBVIOUS
<1>1. \A p \in Profile : KnownBy(db)[p] \subseteq KnownBy(db')[p]
  BY KnownGrows
<1>2. ASSUME NEW q \in Runner PROVE SummaryOf(KnownBy(db'), run'[q])
  <2>1. SummaryOf(KnownBy(db), run[q]) /\ SummaryOf(KnownBy(db'), run[q])
    BY <1>1, SummaryStays DEF SummaryInv
  <2>2. CASE Publishing(q)
    BY <2>1, <2>2, PublishingSummary
  <2>3. CASE List(q)
    BY <1>1, <2>1, <2>3, ListSummary, SummaryStays
  <2>4. ASSUME NEW new, Deciding(q, new) PROVE SummaryOf(KnownBy(db'), run'[q])
    BY <2>1, <2>4, DecidingSummary
  <2>5. ASSUME NEW id \in run[q].queue, Extract(q, id) PROVE SummaryOf(KnownBy(db'), run'[q])
    BY <2>1, <2>5, ExtractSummary
  <2> QED BY <2>1, <2>2, <2>3, <2>4, <2>5, FreshSummary, OwnSteps
<1>3. ASSUME NEW r \in Runner, NEW q \in Runner, r # q, run'[q] = run[q]
      PROVE  Apart(run'[r], run'[q])
  <2>1. Apart(run[r], run[q]) /\ SummaryOf(KnownBy(db), run[q])
    BY <1>3 DEF SummaryInv
  <2>2. CASE run'[r] = run[r]
    BY <1>3, <2>1, <2>2
  <2>3. CASE Publishing(r)
    BY <1>3, <2>1, <2>3, PublishingFields DEF Summary, Apart
  <2>4. CASE List(r)
    BY <1>3, <2>1, <2>4, ListFields DEF Apart
  <2>5. ASSUME NEW id \in run[r].queue, Extract(r, id) PROVE Apart(run'[r], run'[q])
    BY <1>3, <2>1, <2>5, ExtractFields DEF Apart
  <2>6. ASSUME NEW new, Deciding(r, new) PROVE Apart(run'[r], run'[q])
    <3>1. /\ run'[r].first = run[r].first \cup new
          /\ run'[r].dry = run[r].dry /\ run'[r].profile = run[r].profile
      BY <2>6, DecidingFields
    <3>2. ~run[r].dry => new \cap KnownBy(db)[run[r].profile] = {}
      <4>1. run[r].blind => run[r].dry
        BY DEF SummaryInv, SummaryOf
      <4> QED BY <2>6, <4>1, DecidingAccounts
    <3>3. ~run[q].dry /\ run[q].profile = run[r].profile =>
            run[q].first \subseteq KnownBy(db)[run[r].profile]
      BY <2>1 DEF SummaryOf
    <3> QED BY <1>3, <2>1, <3>1, <3>2, <3>3 DEF Apart
  <2>7. ASSUME run'[r].first = {} PROVE Apart(run'[r], run'[q])
    BY <2>7 DEF Apart
  <2> QED BY <2>2, <2>3, <2>4, <2>5, <2>6, <2>7, FreshSummary, OwnSteps
<1>4. ASSUME NEW r \in Runner, NEW q \in Runner, r # q
      PROVE  run'[r] = run[r] \/ run'[q] = run[q]
  BY <1>4, OneMoves
<1>5. \A x, y : Apart(x, y) => Apart(y, x)
  BY DEF Apart
<1> QED BY <1>2, <1>3, <1>4, <1>5 DEF SummaryInv

LEMMA SummaryIs == SummaryInv => SummaryIsAccurate
<1>1. ASSUME SummaryInv, NEW r \in Runner, run[r].listed
      PROVE  Sight(KnownBy(db), run[r]) = View(r)
  BY <1>1 DEF SummaryInv, SummaryOf, Sight, View, KnownBy
<1> HIDE DEF View
<1> QED BY <1>1 DEF SummaryInv, SummaryOf, Apart, Left, SummaryIsAccurate

(* What a run calls first seen was new to it when it listed the sessions (to *)
(* a dry run launched without a database, everything they show), what was    *)
(* new it counts or another run recorded, and no two normal runs of one      *)
(* profile count the same change, however processes interleave and stop.     *)
THEOREM SummariesAreTrue == Spec => []SummaryIsAccurate
<1>1. Init => SummaryInv
  BY DEF Init, SummaryInv, SummaryOf, Apart, Idle
<1>2. Init => HistoryInv
  BY FS_EmptySet DEF Init, NoTables, HistoryInv, HistoryMatchesEvidence, Sightings
<1>3. SummaryInv => SummaryIsAccurate
  BY SummaryIs
<1> QED BY <1>1, <1>2, <1>3, InitType, NextType, NextHistory, NextSummary, PTL DEF Spec

-----------------------------------------------------------------------------
(* The machine loses power.  What the tables say is true of the earlier      *)
(* tables that may come back, and no process is left.                        *)
SoundTables(d) ==
  /\ TablesOK(d)
  /\ \A x, y \in d.processed : x.session = y.session => x.evidence = y.evidence
  /\ \A p \in Profile, c \in Change :
       LET announcing == {b \in DOMAIN d.outbox : b.profile = p /\ c \in b.changes}
       IN IF d.changes[p][c] = None
            THEN announcing = {}
            ELSE \E b \in announcing :
                   announcing = {b} /\ b.session = d.changes[p][c].first
  /\ IsFiniteSet(d.processed)
  /\ \A p \in Profile, c \in Change :
       LET row == d.changes[p][c]
           seen == {x \in d.processed : x.profile = p /\ c \in Findings[x.session][x.evidence][p]}
       IN IF row = None
            THEN seen = {}
            ELSE /\ row.count = Cardinality(seen)
                 /\ \E x \in seen : x.session = row.last
                 /\ \E x \in seen : x.session = row.first
                 /\ \A x \in seen : EndedAt[x.session] <= EndedAt[row.last]

SoundDatabase ==
  TablesOK(db) /\ OneEvidencePerSession /\ OneBundlePerChange /\ HistoryInv

LEMMA SoundIs ==
  /\ SoundDatabase <=> SoundTables(db)
  /\ SoundDatabase' <=> SoundTables(db')
BY DEF SoundDatabase, SoundTables, OneEvidencePerSession, OneBundlePerChange, Announcing,
       HistoryInv, HistoryMatchesEvidence, Sightings

PowerInv == TypeInv /\ SummaryInv /\ SoundDatabase /\ SoundTables(saved)

LEMMA PowerSteps ==
  ASSUME [PowerNext]_powerVars
  PROVE  \/ [Next]_vars /\ saved' \in {saved, db}
         \/ LosePower
BY DEF PowerNext, powerVars, SaveTables, vars

LEMMA LossTypes ==
  ASSUME TypeInv, TablesOK(saved), LosePower
  PROVE  TypeInv'
<1>1. TablesOK(db')
  BY DEF LosePower, TypeInv, TypeOK
<1>2. PICK kept \in SUBSET DOMAIN files : files' = [b \in kept |-> files[b]]
  BY DEF LosePower
<1>3. FilesOK'
  BY <1>2 DEF FilesOK, TypeInv, TypeOK
<1>4. made' \in BOOLEAN
  BY DEF LosePower, TypeInv, TypeOK
<1>5. run' \in [Runner -> RunnerState] /\ Shape'
  BY IdleType DEF LosePower, Shape
<1> QED BY <1>1, <1>3, <1>4, <1>5 DEF TypeInv, TypeOK, LosePower

LEMMA NextPower == PowerInv /\ [PowerNext]_powerVars => PowerInv'
<1> SUFFICES ASSUME PowerInv, [PowerNext]_powerVars PROVE PowerInv'
  OBVIOUS
<1>1. ASSUME [Next]_vars, saved' \in {saved, db} PROVE PowerInv'
  <2>1. TypeInv'
    BY <1>1, NextType DEF PowerInv
  <2>2. OneEvidencePerSession' /\ OneBundlePerChange' /\ HistoryInv' /\ SummaryInv'
    BY <1>1, NextEvidence, NextBundles, NextHistory, NextSummary DEF PowerInv, SoundDatabase
  <2>3. SoundTables(saved')
    BY <1>1, SoundIs DEF PowerInv
  <2>4. SoundDatabase'
    BY <2>1, <2>2 DEF SoundDatabase, TypeInv, TypeOK
  <2> QED BY <2>1, <2>2, <2>3, <2>4 DEF PowerInv
<1>2. CASE LosePower
  <2>1. SoundTables(db') /\ SoundTables(saved')
    BY <1>2, SoundIs DEF LosePower, PowerInv
  <2>2. TypeInv'
    BY <1>2, LossTypes DEF PowerInv, SoundTables
  <2>3. SummaryInv'
    <3>1. \A r \in Runner : run'[r] = Idle
      BY <1>2 DEF LosePower
    <3>2. \A known : SummaryOf(known, Idle)
      BY FreshSummary
    <3>3. Apart(Idle, Idle)
      BY DEF Apart, Idle
    <3> QED BY <3>1, <3>2, <3>3 DEF SummaryInv
  <2> QED BY <2>1, <2>2, <2>3, SoundIs DEF PowerInv
<1> QED BY <1>1, <1>2, PowerSteps

LEMMA InitSound == Init => SoundDatabase /\ SummaryInv
<1> SUFFICES ASSUME Init PROVE SoundDatabase /\ SummaryInv
  OBVIOUS
<1>1. TablesOK(db)
  BY InitType DEF TypeInv, TypeOK
<1>2. OneEvidencePerSession /\ OneBundlePerChange
  BY DEF Init, NoTables, OneEvidencePerSession, OneBundlePerChange, Announcing
<1>3. HistoryInv
  BY FS_EmptySet DEF Init, NoTables, HistoryInv, HistoryMatchesEvidence, Sightings
<1>4. SummaryInv
  BY DEF Init, SummaryInv, SummaryOf, Apart, Idle
<1> QED BY <1>1, <1>2, <1>3, <1>4 DEF SoundDatabase

(* Whatever tail of transactions and whatever files power losses take, all   *)
(* profiles analysed the same bytes of a session, a change on record is      *)
(* announced once and has the history of the sessions on record, and the     *)
(* summaries of runs are true (WAL with synchronous = NORMAL).               *)
THEOREM PowerLossesKeepTheTablesTrue ==
  PowerSpec => [](/\ OneEvidencePerSession /\ OneBundlePerChange
                  /\ HistoryMatchesEvidence /\ SummaryIsAccurate)
<1>1. PowerInit => PowerInv
  BY InitType, InitSound, SoundIs DEF PowerInit, PowerInv
<1>2. PowerInv => /\ OneEvidencePerSession /\ OneBundlePerChange
                  /\ HistoryMatchesEvidence /\ SummaryIsAccurate
  BY SummaryIs DEF PowerInv, SoundDatabase, HistoryInv
<1> QED BY <1>1, <1>2, NextPower, PTL DEF PowerSpec
=============================================================================
