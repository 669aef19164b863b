------------------------------ MODULE Detector ------------------------------
(* The change detector: DetectorRunner.run (changes/runner.py), the SQLite   *)
(* tables of DetectorState (changes/state.py) and the filesystem side of the *)
(* transactional outbox, PromotionMaterializer (changes/promotion.py).       *)
(*                                                                           *)
(* Several detector processes (Runner) share one database and one promotions *)
(* directory with the collectors, which finish sessions, and with whoever    *)
(* edits evidence on disk.  Every SQLite transaction is one step, because it *)
(* is opened with BEGIN IMMEDIATE; everything between two transactions is    *)
(* made of separate steps, and a process may stop at each of them.           *)
EXTENDS Integers, FiniteSets

CONSTANTS
  Runner,         \* detector processes
  Session,        \* collector sessions
  Profile,        \* analysis profiles (baseline + rules + redaction semantics)
  Change,         \* change ids
  Evidence,       \* evidence identities (evidence_sha256, manifest_sha256)
  Recorded,       \* Recorded[s]: the evidence its collector wrote
  Findings,       \* Findings[s][e][p]: what extract, diff and rules yield
  Unreadable,     \* evidence the inspection refuses
  Unextractable,  \* evidence the inspection accepts and the extraction refuses
  Rank,           \* position of a session by (started_at, session_id)
  EndedAt,        \* ended_at of a session
  Foreign,        \* bundles whose path already holds different bytes
  MaxCrashes,     \* bound: how often a process stops between two steps
  MaxAlterations, \* bound: how often evidence on disk is edited
  None            \* no row, no session, no bundle

Identity == [session: Session, evidence: Evidence]

(* bundle_id is the hash of the payload, so a bundle is its payload.         *)
Bundle == [session: Session, evidence: Evidence, profile: Profile,
           changes: SUBSET Change]

ChangeRow == [first: Session, last: Session, count: Nat \ {0}]

ASSUME ConstantsAssumption ==
  /\ Findings \in [Session -> [Evidence -> [Profile -> SUBSET Change]]]
  /\ Recorded \in [Session -> Evidence]
  /\ Unreadable \subseteq Identity /\ Unextractable \subseteq Identity
  /\ Rank \in [Session -> Nat]
  /\ EndedAt \in [Session -> Nat]
  /\ Foreign \subseteq Bundle
  /\ MaxCrashes \in Nat /\ MaxAlterations \in Nat
  /\ None \notin Session \cup Bundle \cup Identity \cup ChangeRow

ASSUME RankAssumption == \A s, t \in Session : Rank[s] = Rank[t] => s = t

VARIABLES
  made,        \* there is a database file
  db,          \* its three tables: processed, changes, outbox
  files,       \* promotion files by bundle: "exact" or "foreign" bytes
  status,      \* status of each session's manifest
  evidence,    \* evidence now on disk for each session
  run,         \* local state of each detector process
  crashes, alterations

shared == <<made, db, files, status, evidence, crashes, alterations>>

vars == <<made, db, files, status, evidence, run, crashes, alterations>>

-----------------------------------------------------------------------------
(* The tables.  A row's first_seen_at and last_seen_at are the ended_at of   *)
(* its first and last session.                                               *)

Checkpoint(id, p) == [session |-> id.session, evidence |-> id.evidence, profile |-> p]

NoTables ==
  [processed |-> {},
   changes   |-> [p \in Profile |-> [c \in Change |-> None]],
   outbox    |-> [b \in {} |-> "pending"]]

Known(d, p) == {c \in Change : d.changes[p][c] # None}

IsProcessed(d, id, p) == Checkpoint(id, p) \in d.processed

(* Mutant: only a checkpoint's evidence is looked at, not the session's. *)
EvidenceConflictUnchecked(d, id) == FALSE

EvidenceConflict(d, id) ==
  \E row \in d.processed : row.session = id.session /\ row.evidence # id.evidence

(* Mutant: no comparison of ended_at.                                        *)
SeenInLatestWins(row, s) ==
  IF row = None
    THEN [first |-> s, last |-> s, count |-> 1]
    ELSE [first |-> row.first, last |-> s, count |-> row.count + 1]

SeenIn(row, s) ==
  IF row = None
    THEN [first |-> s, last |-> s, count |-> 1]
    ELSE [first |-> row.first,
          last  |-> IF EndedAt[s] > EndedAt[row.last] THEN s ELSE row.last,
          count |-> row.count + 1]

(* Mutant: the payload carries every finding, not the first-seen ones. *)
NewBundleOfAll(d, id, p, found) ==
  [session |-> id.session, evidence |-> id.evidence, profile |-> p, changes |-> found]

NewBundle(d, id, p, found) ==
  [session |-> id.session, evidence |-> id.evidence, profile |-> p,
   changes |-> found \ Known(d, p)]

WithRow(outbox, b, state) ==
  [x \in DOMAIN outbox \cup {b} |-> IF x = b THEN state ELSE outbox[x]]

Committed(d, id, p, found) ==
  [processed |-> d.processed \cup {Checkpoint(id, p)},
   changes   |-> [d.changes EXCEPT ![p] =
                    [c \in Change |-> IF c \in found
                                        THEN SeenIn(d.changes[p][c], id.session)
                                        ELSE d.changes[p][c]]],
   outbox    |-> IF found \subseteq Known(d, p)
                   THEN d.outbox
                   ELSE WithRow(d.outbox, NewBundle(d, id, p, found), "pending")]

Pending(d) == {b \in DOMAIN d.outbox : d.outbox[b] = "pending"}

-----------------------------------------------------------------------------
(* A process.  pc names the next step; first and repeated are the summary's  *)
(* sets.  A dry run is blind when there was no database to open: it does     *)
(* without one to its end.  fresh is a history field no step reads: what     *)
(* finalized sessions show and the run does not know when it lists them.     *)

Step == {"idle", "pending", "next", "write", "recheck", "replace", "sync",
         "verify", "mark", "list", "session", "decide"}

RunnerState ==
  [pc: Step, dry: BOOLEAN, blind: BOOLEAN, profile: Profile \cup {None}, listed: BOOLEAN,
   queue: SUBSET Identity, current: Identity \cup {None},
   todo: SUBSET Bundle, item: Bundle \cup {None},
   first: SUBSET Change, repeated: SUBSET Change, fresh: SUBSET Change]

Idle == [pc |-> "idle", dry |-> FALSE, blind |-> FALSE, profile |-> None,
         listed |-> FALSE, queue |-> {}, current |-> None, todo |-> {}, item |-> None,
         first |-> {}, repeated |-> {}, fresh |-> {}]

Began(p, dry) ==
  [Idle EXCEPT !.pc = IF dry THEN "list" ELSE "pending", !.dry = dry, !.profile = p]

Becomes(r, state) == run' = [run EXCEPT ![r] = state]

FoundBy(r) ==
  Findings[run[r].current.session][run[r].current.evidence][run[r].profile]

Init ==
  /\ made = FALSE /\ db = NoTables
  /\ files = [b \in Foreign |-> "foreign"]
  /\ status = [s \in Session |-> "running"]
  /\ evidence = Recorded
  /\ run = [r \in Runner |-> Idle]
  /\ crashes = 0
  /\ alterations = 0

(* from_paths: a normal run makes the database where there is none, a dry    *)
(* run opens it only if it exists.                                           *)
Launch(r, p, dry) ==
  /\ run[r].pc = "idle"
  /\ Becomes(r, [Began(p, dry) EXCEPT !.blind = dry /\ ~made])
  /\ made' = (made \/ ~dry)
  /\ UNCHANGED <<db, files, status, evidence, crashes, alterations>>

(* Mutant: rows whose file is already there are left out of the recovery. *)
ReadPendingWithoutFile(r) ==
  /\ run[r].pc = "pending"
  /\ Becomes(r, [run[r] EXCEPT !.todo = {b \in Pending(db) : b \notin DOMAIN files},
                               !.pc = "next"])
  /\ UNCHANGED shared

(* materialize_pending: the SELECT of pending_outbox, rows of every profile. *)
ReadPending(r) ==
  /\ run[r].pc = "pending"
  /\ Becomes(r, [run[r] EXCEPT !.todo = Pending(db), !.pc = "next"])
  /\ UNCHANGED shared

(* ORDER BY created_at, bundle_id; created_at is the session's ended_at.     *)
IsNext(b, todo) ==
  b \in todo /\ \A other \in todo : EndedAt[b.session] <= EndedAt[other.session]

Missing(b) == b \notin DOMAIN files

HasBytes(b, bytes) == b \in DOMAIN files /\ files[b] = bytes

(* Mutant: a file that exists is taken to be the right one. *)
TakeItemUncompared(r, b) ==
  /\ run[r].pc = "next"
  /\ IsNext(b, run[r].todo)
  /\ Becomes(r, [run[r] EXCEPT !.item = b, !.pc = IF Missing(b) THEN "write" ELSE "mark"])
  /\ UNCHANGED shared

TakeItem(r, b) ==
  /\ run[r].pc = "next"
  /\ IsNext(b, run[r].todo)
  /\ \/ /\ Missing(b)
        /\ Becomes(r, [run[r] EXCEPT !.item = b, !.pc = "write"])
     \/ /\ HasBytes(b, "exact")
        /\ Becomes(r, [run[r] EXCEPT !.item = b, !.pc = "mark"])
  /\ UNCHANGED shared

(* The temporary file is private to the process and fsynced before it is     *)
(* renamed; a process that stops leaves at most an unused temporary file.    *)
WriteTemporary(r) ==
  /\ run[r].pc = "write"
  /\ Becomes(r, [run[r] EXCEPT !.pc = "recheck"])
  /\ UNCHANGED shared

(* Mutant: the row is marked before the file is renamed into place. *)
RecheckThenMark(r) ==
  /\ run[r].pc = "recheck"
  /\ Becomes(r, [run[r] EXCEPT !.pc = "mark"])
  /\ UNCHANGED shared

Recheck(r) ==
  /\ run[r].pc = "recheck"
  /\ \/ /\ Missing(run[r].item)
        /\ Becomes(r, [run[r] EXCEPT !.pc = "replace"])
     \/ /\ HasBytes(run[r].item, "exact")
        /\ Becomes(r, [run[r] EXCEPT !.pc = "mark"])
  /\ UNCHANGED shared

Replace(r) ==
  /\ run[r].pc = "replace"
  /\ files' = WithRow(files, run[r].item, "exact")
  /\ Becomes(r, [run[r] EXCEPT !.pc = "sync"])
  /\ UNCHANGED <<made, db, status, evidence, crashes, alterations>>

(* The directory is fsynced if the system lets it be; nothing depends on it  *)
(* but what a power loss may take (DetectorPower).                           *)
SyncDirectory(r) ==
  /\ run[r].pc = "sync"
  /\ Becomes(r, [run[r] EXCEPT !.pc = "verify"])
  /\ UNCHANGED shared

Verify(r) ==
  /\ run[r].pc = "verify"
  /\ HasBytes(run[r].item, "exact")
  /\ Becomes(r, [run[r] EXCEPT !.pc = "mark"])
  /\ UNCHANGED shared

(* mark_materialized: its own transaction; a row another process has already *)
(* marked is left as it is.                                                  *)
Mark(r) ==
  /\ run[r].pc = "mark"
  /\ run[r].item \in DOMAIN db.outbox
  /\ db' = [db EXCEPT !.outbox = WithRow(db.outbox, run[r].item, "materialized")]
  /\ Becomes(r, [run[r] EXCEPT !.todo = @ \ {run[r].item}, !.item = None, !.pc = "next"])
  /\ UNCHANGED <<made, files, status, evidence, crashes, alterations>>

PendingDone(r) ==
  /\ run[r].pc = "next" /\ run[r].todo = {}
  /\ Becomes(r, [run[r] EXCEPT !.pc = IF run[r].listed THEN "session" ELSE "list"])
  /\ UNCHANGED shared

(* Statuses are listed and every finalized session inspected once: one whose *)
(* inspection fails ends the run.                                            *)
Finalized == {s \in Session : status[s] = "completed"}

Inspected == {[session |-> s, evidence |-> evidence[s]] : s \in Finalized}

Shown(p) == UNION {Findings[s][evidence[s]][p] : s \in Finalized}

(* _existing_change_ids: nothing is known where there is no database.        *)
View(r) == IF run[r].blind THEN {} ELSE Known(db, run[r].profile)

List(r) ==
  /\ run[r].pc = "list"
  /\ Inspected \cap Unreadable = {}
  /\ Becomes(r, [run[r] EXCEPT !.queue = Inspected,
                               !.fresh = Shown(run[r].profile) \ View(r),
                               !.listed = TRUE, !.pc = "session"])
  /\ UNCHANGED shared

IsEarliest(id, queue) ==
  id \in queue /\ \A other \in queue : Rank[id.session] <= Rank[other.session]

(* Extraction re-reads the events and insists on the inspected identity; it  *)
(* refuses evidence whose records do not fit together.                       *)
Extracts(id) == evidence[id.session] = id.evidence /\ id \notin Unextractable

Extract(r, id) ==
  /\ run[r].pc = "session"
  /\ IsEarliest(id, run[r].queue)
  /\ Extracts(id)
  /\ Becomes(r, [run[r] EXCEPT !.queue = @ \ {id}, !.current = id, !.pc = "decide"])
  /\ UNCHANGED shared

(* Mutant: the dry run does not ask the database what is known. *)
ClassifyAlone(r) ==
  /\ run[r].pc = "decide" /\ run[r].dry
  /\ Becomes(r, [run[r] EXCEPT !.first = @ \cup FoundBy(r),
                               !.repeated = @ \cup (FoundBy(r) \cap run[r].first),
                               !.current = None, !.pc = "session"])
  /\ UNCHANGED shared

Classify(r) ==
  LET seen == View(r) \cup run[r].first IN
  /\ run[r].pc = "decide" /\ run[r].dry
  /\ Becomes(r, [run[r] EXCEPT !.first = @ \cup (FoundBy(r) \ seen),
                               !.repeated = @ \cup (FoundBy(r) \cap seen),
                               !.current = None, !.pc = "session"])
  /\ UNCHANGED shared

(* process_session_transaction raises: another profile or an earlier run     *)
(* recorded different evidence, or the bundle id is taken.                   *)
Refused(r) ==
  LET id == run[r].current p == run[r].profile IN
  \/ EvidenceConflict(db, id)
  \/ /\ ~IsProcessed(db, id, p)
     /\ ~(FoundBy(r) \subseteq Known(db, p))
     /\ NewBundle(db, id, p, FoundBy(r)) \in DOMAIN db.outbox

ProcessSession(r) ==
  LET id == run[r].current p == run[r].profile IN
  /\ run[r].pc = "decide" /\ ~run[r].dry
  /\ ~Refused(r) /\ ~IsProcessed(db, id, p)
  /\ db' = Committed(db, id, p, FoundBy(r))
  /\ Becomes(r, [run[r] EXCEPT !.first = @ \cup (FoundBy(r) \ Known(db, p)),
                               !.repeated = @ \cup (FoundBy(r) \cap Known(db, p)),
                               !.current = None, !.pc = "pending"])
  /\ UNCHANGED <<made, files, status, evidence, crashes, alterations>>

(* Mutant: a checkpointed session ends the run. *)
SkipProcessedAndStop(r) ==
  /\ run[r].pc = "decide" /\ ~run[r].dry
  /\ ~Refused(r) /\ IsProcessed(db, run[r].current, run[r].profile)
  /\ Becomes(r, Idle)
  /\ UNCHANGED shared

SkipProcessed(r) ==
  /\ run[r].pc = "decide" /\ ~run[r].dry
  /\ ~Refused(r) /\ IsProcessed(db, run[r].current, run[r].profile)
  /\ Becomes(r, [run[r] EXCEPT !.repeated = @ \cup FoundBy(r),
                               !.current = None, !.pc = "pending"])
  /\ UNCHANGED shared

Finish(r) ==
  /\ run[r].pc = "session" /\ run[r].queue = {}
  /\ Becomes(r, [run[r] EXCEPT !.pc = "idle"])
  /\ UNCHANGED shared

(* The checks that end a run with an integrity error.                        *)
MustRaise(r) ==
  \/ run[r].pc = "next" /\ \E b \in run[r].todo : IsNext(b, run[r].todo) /\ HasBytes(b, "foreign")
  \/ run[r].pc = "recheck" /\ HasBytes(run[r].item, "foreign")
  \/ run[r].pc = "verify" /\ ~HasBytes(run[r].item, "exact")
  \/ run[r].pc = "mark" /\ run[r].item \notin DOMAIN db.outbox
  \/ run[r].pc = "list" /\ Inspected \cap Unreadable # {}
  \/ run[r].pc = "session"
     /\ \E id \in run[r].queue : IsEarliest(id, run[r].queue) /\ ~Extracts(id)
  \/ run[r].pc = "decide" /\ ~run[r].dry /\ Refused(r)

Raise(r) ==
  /\ MustRaise(r)
  /\ Becomes(r, Idle)
  /\ UNCHANGED shared

(* A process stops anywhere: it is killed, loses the race for the write lock *)
(* for longer than busy_timeout, or meets an I/O error.  An open transaction *)
(* is rolled back, so no step is half done.                                  *)
Crash(r) ==
  /\ run[r].pc # "idle" /\ crashes < MaxCrashes
  /\ Becomes(r, Idle)
  /\ crashes' = crashes + 1
  /\ UNCHANGED <<made, db, files, status, evidence, alterations>>

-----------------------------------------------------------------------------
(* The environment: a collector ends a session, evidence is edited on disk.  *)

EndSession(s, outcome) ==
  /\ status[s] = "running"
  /\ status' = [status EXCEPT ![s] = outcome]
  /\ UNCHANGED <<made, db, files, evidence, run, crashes, alterations>>

AlterEvidence(s, e) ==
  /\ status[s] # "running" /\ e # evidence[s] /\ alterations < MaxAlterations
  /\ evidence' = [evidence EXCEPT ![s] = e]
  /\ alterations' = alterations + 1
  /\ UNCHANGED <<made, db, files, status, run, crashes>>

-----------------------------------------------------------------------------
RunnerStep(r) ==
  \/ ReadPending(r) \/ PendingDone(r) \/ WriteTemporary(r) \/ Recheck(r)
  \/ Replace(r) \/ SyncDirectory(r) \/ Verify(r) \/ Mark(r)
  \/ List(r) \/ Classify(r) \/ ProcessSession(r) \/ SkipProcessed(r)
  \/ Finish(r) \/ Raise(r)
  \/ \E b \in run[r].todo : TakeItem(r, b)
  \/ \E id \in run[r].queue : Extract(r, id)

Environment ==
  \/ \E s \in Session, outcome \in {"completed", "failed"} : EndSession(s, outcome)
  \/ \E s \in Session, e \in Evidence : AlterEvidence(s, e)

Next ==
  \/ \E r \in Runner : RunnerStep(r) \/ Crash(r)
  \/ \E r \in Runner, p \in Profile, dry \in BOOLEAN : Launch(r, p, dry)
  \/ Environment

Spec == Init /\ [][Next]_vars

(* A process that runs is scheduled, and the normal detector is started      *)
(* again and again for every profile.                                        *)
Fairness ==
  /\ \A r \in Runner : WF_vars(RunnerStep(r))
  /\ \A r \in Runner, p \in Profile : SF_vars(Launch(r, p, FALSE))

FairSpec == Spec /\ Fairness

-----------------------------------------------------------------------------
TablesOK(d) ==
  /\ DOMAIN d = {"processed", "changes", "outbox"}
  /\ d.processed \subseteq [session: Session, evidence: Evidence, profile: Profile]
  /\ d.changes \in [Profile -> [Change -> ChangeRow \cup {None}]]
  /\ DOMAIN d.outbox \subseteq Bundle
  /\ \A b \in DOMAIN d.outbox : d.outbox[b] \in {"pending", "materialized"}

FilesOK ==
  /\ DOMAIN files \subseteq Bundle
  /\ \A b \in DOMAIN files : files[b] \in {"exact", "foreign"}

(* The tables, the files and every field of a process keep their shape: a    *)
(* change row has a positive count, an outbox row one of the two states the  *)
(* schema's CHECK allows.                                                    *)
TypeOK ==
  /\ made \in BOOLEAN
  /\ TablesOK(db)
  /\ FilesOK
  /\ status \in [Session -> {"running", "completed", "failed"}]
  /\ evidence \in [Session -> Evidence]
  /\ run \in [Runner -> RunnerState]
  /\ crashes \in 0..MaxCrashes
  /\ alterations \in 0..MaxAlterations

(* Whatever profiles have analysed a session, they analysed the same bytes:  *)
(* process_session_transaction compares the incoming identity with every     *)
(* profile's checkpoint, and evidence can be edited between any two steps.   *)
OneEvidencePerSession ==
  \A x, y \in db.processed : x.session = y.session => x.evidence = y.evidence

Announcing(p, c) == {b \in DOMAIN db.outbox : b.profile = p /\ c \in b.changes}

(* A change on record is announced by exactly one outbox row, the one of the *)
(* session its row calls first, however many processes met it at once, and   *)
(* no row announces a change that is not on record.                          *)
OneBundlePerChange ==
  \A p \in Profile, c \in Change :
    IF db.changes[p][c] = None
      THEN Announcing(p, c) = {}
      ELSE \E b \in Announcing(p, c) :
             Announcing(p, c) = {b} /\ b.session = db.changes[p][c].first

Sightings(p, c) ==
  {x \in db.processed : x.profile = p /\ c \in Findings[x.session][x.evidence][p]}

(* A change's row is the history of the sessions processed so far, in        *)
(* whatever order they arrived: occurrence_count counts each once, and       *)
(* last_seen_at is the latest ended_at among them.                           *)
HistoryMatchesEvidence ==
  \A p \in Profile, c \in Change :
    LET row == db.changes[p][c] IN
    IF row = None
      THEN Sightings(p, c) = {}
      ELSE /\ row.count = Cardinality(Sightings(p, c))
           /\ \E x \in Sightings(p, c) : x.session = row.last
           /\ \E x \in Sightings(p, c) : x.session = row.first
           /\ \A x \in Sightings(p, c) : EndedAt[x.session] <= EndedAt[row.last]

(* A row marked materialized has its file with exactly the payload's bytes,  *)
(* also where the path was already taken: pending rows are all recovery      *)
(* looks at, so a row marked too early would never be published.             *)
MarkedMeansPublished ==
  \A b \in DOMAIN db.outbox : db.outbox[b] = "materialized" => HasBytes(b, "exact")

(* What a run reports as first seen was new to it when it listed the         *)
(* sessions, and what was new it reports unless another run recorded it      *)
(* meanwhile.  A dry run and a normal run owe the same, so one forecasts the *)
(* other; a dry run launched before there is a database forecasts a first    *)
(* run over the sessions it listed, whatever others record while it runs.    *)
(* No two normal runs both count a change as first seen.                     *)
SummaryIsAccurate ==
  /\ \A r \in Runner :
       run[r].listed =>
         /\ run[r].first \subseteq run[r].fresh
         /\ run[r].pc = "idle" => run[r].fresh \subseteq run[r].first \cup View(r)
  /\ \A r, q \in Runner :
       r # q /\ ~run[r].dry /\ ~run[q].dry /\ run[r].profile = run[q].profile
         => run[r].first \cap run[q].first = {}

(* The outbox and the directory implement the abstract promotion log.        *)
Log == INSTANCE PromotionLog WITH
         promoted     <- DOMAIN db.outbox,
         published    <- {b \in DOMAIN files : files[b] = "exact"},
         acknowledged <- {b \in DOMAIN db.outbox : db.outbox[b] = "materialized"}

(* Bundles are promoted with changes nobody promoted before, published after *)
(* that and acknowledged after that, each once and for ever.                 *)
ImplementsPromotionLog == Log!Spec

(* In the end no committed bundle is left to be published, and it stays so,  *)
(* although each process may stop between the commit, the rename and the     *)
(* mark, and although some session may not be readable: recovery comes       *)
(* before the sessions are listed.                                           *)
BundlesGetOut == <>[](Pending(db) = {})

(* What keeps a session from being processed for ever: evidence of any       *)
(* session that the inspection refuses, or a session in front of it, or the  *)
(* session itself, that the extraction or the transaction refuses.           *)
Blocked(s) ==
  \E id \in Inspected :
    \/ id \in Unreadable
    \/ /\ Rank[id.session] <= Rank[s]
       /\ id \in Unextractable \/ EvidenceConflict(db, id)

IsDone(s, p) == \E x \in db.processed : x.session = s /\ x.profile = p

(* In the end every completed session is processed under every profile, and  *)
(* it stays so, unless some session's evidence stops every run before it.    *)
SessionsGetProcessed ==
  <>[](\A s \in Finalized, p \in Profile : IsDone(s, p) \/ Blocked(s))
=============================================================================
