---------------------------- MODULE CurrentState ----------------------------
(* Rebuilds and reads of the Current State database: rebuild_current_state   *)
(* and the replacement of older schemas (current/replay.py), opening,        *)
(* bootstrap, validation, replacement and reading of CurrentStateStore       *)
(* (current/state.py), and the open-and-read of core/current_read.py.        *)
(*                                                                           *)
(* Rebuilders and readers are processes that share one path.  A write        *)
(* transaction is one step (BEGIN IMMEDIATE), but reads run outside any      *)
(* transaction: every SELECT sees what is committed by then.  A connection   *)
(* stays with the file it opened when the path is given another file.        *)
(* Snapshots are named by the sessions they replay; a fingerprint names      *)
(* exactly one snapshot.                                                     *)
EXTENDS Replay

CONSTANTS
  Rebuilder,    \* processes that rebuild
  Reader,       \* processes that list companies, units, products, or plan
  Early,        \* sessions finished at the start
  SoloUpgrade,  \* nobody starts a second rebuild while an old file is upgraded
  MaxStops,     \* bound: processes killed, steps that fail
  MaxReads,     \* bound: reads
  File,         \* bound: files that exist at once
  None          \* no snapshot, no answer

Process == Rebuilder \cup Reader

ASSUME CurrentStateAssumption ==
  /\ Rebuilder \cap Reader = {}
  /\ Early \subseteq Session
  /\ SoloUpgrade \in BOOLEAN
  /\ MaxStops \in Nat /\ MaxReads \in Nat
  /\ File \subseteq Nat \ {0} /\ 1 \in File
  /\ \A S \in SUBSET Session : S # None

VARIABLES
  finished,  \* sessions finished so far
  path,      \* the file at state/current.sqlite3, 0 if none
  store,     \* contents of the files that have a name or an open connection
  sidecar,   \* whether -wal or -shm is beside the path
  run,       \* local state of each process
  stops, reads

vars == <<finished, path, store, sidecar, run, stops, reads>>

-----------------------------------------------------------------------------
Schemas == {"blank", "current", "older", "foreign"}

Maybe == {None} \cup SUBSET Session

Content == [schema: Schemas, snapshot: Maybe]

Blank == [schema |-> "blank", snapshot |-> None]

(* What the SELECTs of one reading returned, by the snapshot it was part of. *)
Parts == {"meta", "ledger", "rows"}

Reading == [Parts -> Maybe]

Nothing == [part \in Parts |-> None]

Places == {"idle", "probe", "probed", "sidecars", "stage", "replace", "reopen", "open",
           "preflight", "bootstrap", "initialize", "count", "countRows", "meta", "ledger",
           "rows", "commit", "closing"}

(* CurrentStateCompatibilityError; sidecars in the way of an upgrade; tables *)
(* created by somebody else meanwhile; CurrentStateIntegrityError; sessions  *)
(* of which no snapshot can be made.                                         *)
Errors == {"incompatible", "refused", "taken", "torn", "invalid"}

Results == {"none", "done", "failed"} \cup Errors

RunState ==
  [pc: Places, file: File \cup {0}, rw: BOOLEAN,
   plan: Maybe, upgrade: BOOLEAN, staged: File \cup {0},
   marked: BOOLEAN, some: BOOLEAN, final: BOOLEAN, reading: Reading, result: Results,
   since: SUBSET Maybe,  \* history: what its file held since its last reading began
   alone: BOOLEAN]                              \* history: nobody else ran, no step failed

Idle == [pc |-> "idle", file |-> 0, rw |-> FALSE, plan |-> None, upgrade |-> FALSE,
         staged |-> 0, marked |-> FALSE, some |-> FALSE, final |-> FALSE,
         reading |-> Nothing, result |-> "none", since |-> {}, alone |-> FALSE]

(* Where a process has a file open, and where the file is a database of this *)
(* release.                                                                  *)
Known == {"count", "countRows", "meta", "ledger", "rows", "commit"}

Connected == {"probed", "preflight", "bootstrap", "initialize"} \cup Known

(* Connections are closed, temporary files are kept only until they are      *)
(* moved into place, and readers do not write.                               *)
Tidy(p) ==
  /\ run[p].pc \in Connected => run[p].file # 0
  /\ run[p].pc \notin Connected \cup {"closing"} => run[p].file = 0
  /\ run[p].staged # 0 <=> run[p].pc = "replace"
  /\ p \in Reader => ~run[p].rw /\ run[p].pc \in {"idle", "closing"} \cup (Known \ {"commit"})
  /\ p \in Rebuilder /\ run[p].pc \notin {"idle", "closing"} => run[p].plan # None
  /\ run[p].pc = "reopen" => path # 0

TypeOK ==
  /\ finished \subseteq Session
  /\ path \in File \cup {0}
  /\ store \in [File -> Content]
  /\ sidecar \in BOOLEAN
  /\ run \in [Process -> RunState]
  /\ stops \in 0..MaxStops /\ reads \in 0..MaxReads
  /\ \A p \in Process : Tidy(p)

(* Databases an earlier release, an interrupted first run or someone else    *)
(* may have left.                                                            *)
Init ==
  /\ finished = Early
  /\ \E content \in {[schema |-> schema, snapshot |-> None] : schema \in Schemas}
                    \cup {[schema |-> "current", snapshot |-> S] : S \in {{}, Early}},
        present \in {0, 1} :
       /\ path = present
       /\ store = [f \in File |-> IF f = 1 /\ present = 1 THEN content ELSE Blank]
  /\ sidecar = FALSE
  /\ run = [p \in Process |-> Idle]
  /\ stops = 0 /\ reads = 0

-----------------------------------------------------------------------------
Running == {p \in Process : run[p].pc # "idle"}

Opened(p) == store[run[p].file]

(* A file nobody can name or has open; its place is taken by a new one.      *)
Unused(f) == f # path /\ \A p \in Process : run[p].file # f /\ run[p].staged # f

HasRoom == \E f \in File : Unused(f)

NewFile == CHOOSE f \in File : Unused(f)

Steps(p, from) == p \in Running /\ run[p].pc = from

(* p goes on to the next place.                                              *)
Goes(p, next) == run' = [run EXCEPT ![p].pc = next]

(* An error: the connection, if any, is yet to be closed.                    *)
Ends(p, result) ==
  run' = [run EXCEPT ![p] = [Idle EXCEPT !.pc = "closing", !.result = result,
                                         !.file = run[p].file, !.rw = run[p].rw,
                                         !.alone = run[p].alone]]

(* A connection to a database in WAL mode creates the sidecars.              *)
Beside(f) == sidecar' = (sidecar \/ store[f].schema # "blank")

(* The last connection to close, if it may write, checkpoints and removes    *)
(* them.                                                                     *)
CleanedUp(p) ==
  /\ run[p].rw /\ run[p].file = path
  /\ \A q \in Process \ {p} : run[q].file # path

AfterClose(p) == sidecar' = (sidecar /\ ~CleanedUp(p))

(* A process starts: those that run are not alone any more.                  *)
Starts(p, state) ==
  run' = [q \in Process |->
            IF q = p THEN [state EXCEPT !.alone = (Running = {})]
                     ELSE [run[q] EXCEPT !.alone = FALSE]]

(* A transaction on file f commits: those who have f open may see it.        *)
Commits(p, f, snapshot, next) ==
  /\ store' = [store EXCEPT ![f] = [schema |-> "current", snapshot |-> snapshot]]
  /\ run' = [q \in Process |->
               [run[q] EXCEPT !.since = IF run[q].final /\ run[q].file = f
                                          THEN @ \cup {snapshot} ELSE @,
                              !.pc = IF q = p THEN next ELSE @]]

EndSession(s) ==
  /\ s \notin finished
  /\ finished' = finished \cup {s}
  /\ UNCHANGED <<path, store, sidecar, run, stops, reads>>

-----------------------------------------------------------------------------
(* rebuild_current_state.                                                    *)

(* Of which sessions a snapshot can be made.                                 *)
Replays == [S \in SUBSET Session |-> Accepted(S)]

(* The replay: it lists the finished sessions once and reads those.  One the *)
(* snapshot's rules refuse is a ValueError before the path is looked at.     *)
Launch(b) ==
  /\ run[b].pc = "idle"
  /\ SoloUpgrade /\ path # 0 /\ store[path].schema = "older" => Running \cap Rebuilder = {}
  /\ Starts(b, IF Replays[finished]
                 THEN [Idle EXCEPT !.pc = "probe", !.plan = finished]
                 ELSE [Idle EXCEPT !.pc = "closing", !.plan = finished, !.result = "invalid"])
  /\ UNCHANGED <<finished, path, store, sidecar, stops, reads>>

(* Is there an older database to replace?  The probe connects and reads.     *)
Probe(b) ==
  /\ Steps(b, "probe")
  /\ IF path = 0
       THEN Goes(b, "open") /\ UNCHANGED sidecar
       ELSE /\ run' = [run EXCEPT ![b].pc = "probed", ![b].file = path, ![b].rw = TRUE,
                                  ![b].upgrade = (store[path].schema = "older")]
            /\ Beside(path)
  /\ UNCHANGED <<finished, path, store, stops, reads>>

(* Mutant: the probe connects read-only and leaves the sidecars behind.      *)
ProbeClosesReadOnly(b) ==
  /\ Steps(b, "probed")
  /\ run' = [run EXCEPT ![b].pc = IF run[b].upgrade THEN "sidecars" ELSE "open",
                        ![b].file = 0, ![b].rw = FALSE]
  /\ UNCHANGED <<finished, path, store, sidecar, stops, reads>>

ProbeCloses(b) ==
  /\ Steps(b, "probed")
  /\ run' = [run EXCEPT ![b].pc = IF run[b].upgrade THEN "sidecars" ELSE "open",
                        ![b].file = 0, ![b].rw = FALSE]
  /\ AfterClose(b)
  /\ UNCHANGED <<finished, path, store, stops, reads>>

(* Whatever goes wrong in the probe, the answer is that there is nothing to  *)
(* replace.                                                                  *)
ProbeFails(b) ==
  /\ Steps(b, "probed") /\ run[b].upgrade
  /\ stops < MaxStops /\ stops' = stops + 1
  /\ run' = [run EXCEPT ![b].upgrade = FALSE, ![b].alone = FALSE]
  /\ UNCHANGED <<finished, path, store, sidecar, reads>>

CheckSidecars(b) ==
  /\ Steps(b, "sidecars")
  /\ IF sidecar THEN Ends(b, "refused") ELSE Goes(b, "stage")
  /\ UNCHANGED <<finished, path, store, sidecar, stops, reads>>

(* Mutant: the temporary file is moved into place before it is filled.       *)
StageEmpty(b) ==
  /\ Steps(b, "stage")
  /\ store' = [store EXCEPT ![NewFile] = [schema |-> "current", snapshot |-> None]]
  /\ run' = [run EXCEPT ![b].pc = "replace", ![b].staged = NewFile]
  /\ UNCHANGED <<finished, path, sidecar, stops, reads>>

(* The new database is built, verified and fsynced under a temporary name.   *)
Stage(b) ==
  /\ Steps(b, "stage")
  /\ HasRoom
  /\ store' = [store EXCEPT ![NewFile] = [schema |-> "current", snapshot |-> run[b].plan]]
  /\ run' = [run EXCEPT ![b].pc = "replace", ![b].staged = NewFile]
  /\ UNCHANGED <<finished, path, sidecar, stops, reads>>

(* os.replace: whatever is at the path by now has no name any more.          *)
Replace(b) ==
  /\ Steps(b, "replace")
  /\ path' = run[b].staged
  /\ run' = [run EXCEPT ![b].pc = "reopen", ![b].staged = 0]
  /\ UNCHANGED <<finished, store, sidecar, stops, reads>>

-----------------------------------------------------------------------------
(* Opening.                                                                  *)

(* A read-only connection to what is at the path; its identity comes first.  *)
(* Only blank files change their identity, and a blank one is refused by the *)
(* first of the three reads: they are one step.                              *)
OpensReadOnly(state) ==
  [state EXCEPT !.file = path, !.rw = FALSE,
                !.pc = IF store[path].schema = "current" THEN "count" ELSE "closing",
                !.result = IF store[path].schema = "current" THEN "none" ELSE "incompatible"]

Reopen(b) ==
  /\ Steps(b, "reopen")
  /\ run' = [run EXCEPT ![b] = OpensReadOnly(run[b])]
  /\ Beside(path)
  /\ UNCHANGED <<finished, path, store, stops, reads>>

(* A read finds a database or answers that there is none.                    *)
Find(r) ==
  /\ run[r].pc = "idle"
  /\ reads < MaxReads
  /\ reads' = reads + 1
  /\ IF path = 0
       THEN /\ Starts(r, [Idle EXCEPT !.pc = "closing", !.result = "done", !.since = {None}])
            /\ UNCHANGED sidecar
       ELSE Starts(r, OpensReadOnly(Idle)) /\ Beside(path)
  /\ UNCHANGED <<finished, path, store, stops>>

(* Connecting creates the file if there is none; the application id is read. *)
Connect(b) ==
  /\ Steps(b, "open")
  /\ path = 0 => HasRoom
  /\ LET f == IF path = 0 THEN NewFile ELSE path IN
       /\ path' = f
       /\ store' = IF path = 0 THEN [store EXCEPT ![f] = Blank] ELSE store
       /\ run' = [run EXCEPT ![b].pc = "preflight", ![b].file = f, ![b].rw = TRUE,
                             ![b].marked = (store'[f].schema # "blank")]
       /\ sidecar' = (sidecar \/ store'[f].schema # "blank")
  /\ UNCHANGED <<finished, stops, reads>>

(* Then the version and the tables; then WAL mode is asked for.              *)
Preflight(b) ==
  /\ Steps(b, "preflight")
  /\ IF Opened(b).schema = (IF run[b].marked THEN "current" ELSE "blank")
       THEN /\ run' = [run EXCEPT ![b].pc = "bootstrap", ![b].marked = FALSE]
            /\ sidecar' = (sidecar \/ run[b].file = path)
       ELSE Ends(b, "incompatible") /\ UNCHANGED sidecar
  /\ UNCHANGED <<finished, path, store, stops, reads>>

Bootstrap(b) ==
  /\ Steps(b, "bootstrap")
  /\ Goes(b, IF Opened(b).schema = "blank" THEN "initialize" ELSE "count")
  /\ UNCHANGED <<finished, path, store, sidecar, stops, reads>>

(* CREATE TABLE fails if another process has created the tables meanwhile.   *)
Initialize(b) ==
  /\ Steps(b, "initialize")
  /\ IF Opened(b).schema = "blank"
       THEN Commits(b, run[b].file, None, "count")
       ELSE Ends(b, "taken") /\ UNCHANGED store
  /\ UNCHANGED <<finished, path, sidecar, stops, reads>>

-----------------------------------------------------------------------------
(* Validation and reading, one SELECT after the other.                       *)

(* What follows a validation that found nothing wrong.                       *)
Validated(p) ==
  IF p \in Rebuilder /\ ~run[p].upgrade
    THEN run' = [run EXCEPT ![p].pc = "commit", ![p].reading = Nothing]
    ELSE run' = [run EXCEPT ![p].pc = "meta", ![p].final = TRUE,
                            ![p].since = {Opened(p).snapshot}, ![p].reading = Nothing]

(* The snapshot was read: to validate it, to compare it, or as the answer.   *)
HasRead(p, reading) ==
  IF ~run[p].final THEN Validated(p)
  ELSE IF p \in Rebuilder /\ run[p].upgrade /\ reading["meta"] # run[p].plan
         THEN Ends(p, "torn")
         ELSE run' = [run EXCEPT ![p].pc = "closing", ![p].result = "done",
                                 ![p].reading = reading]

CountMeta(p) ==
  /\ Steps(p, "count")
  /\ run' = [run EXCEPT ![p].pc = "countRows", ![p].some = (Opened(p).snapshot # None)]
  /\ UNCHANGED <<finished, path, store, sidecar, stops, reads>>

(* Rows without metadata are an integrity error.                             *)
CountRows(p) ==
  /\ Steps(p, "countRows")
  /\ IF run[p].some THEN run' = [run EXCEPT ![p].pc = "meta", ![p].some = FALSE]
     ELSE IF Opened(p).snapshot \in {None, {}} THEN Validated(p) ELSE Ends(p, "torn")
  /\ UNCHANGED <<finished, path, store, sidecar, stops, reads>>

Read(p, part) == [run[p].reading EXCEPT ![part] = Opened(p).snapshot]

ReadMeta(p) ==
  /\ Steps(p, "meta")
  /\ IF Opened(p).snapshot = None
       THEN HasRead(p, Nothing)
       ELSE run' = [run EXCEPT ![p].pc = "ledger", ![p].reading = Read(p, "meta")]
  /\ UNCHANGED <<finished, path, store, sidecar, stops, reads>>

ReadLedger(p) ==
  /\ Steps(p, "ledger")
  /\ run' = [run EXCEPT ![p].pc = "rows", ![p].reading = Read(p, "ledger")]
  /\ UNCHANGED <<finished, path, store, sidecar, stops, reads>>

(* Snapshots by their sessions, and the rows of each that a reading returns. *)
SnapshotOf == [S \in SUBSET Session |-> Snapshot(S)]

Rows(S) == [SnapshotOf[S] EXCEPT !.ledger = {}]

(* The rows read are those of snapshot S.                                    *)
Shows(reading, S) ==
  reading["meta"] = S /\ reading["ledger"] = S /\ Rows(reading["rows"]) = Rows(S)

(* The fingerprints in the metadata are those of the rows.                   *)
Coherent(reading) == Shows(reading, reading["meta"])

(* Mutant: the fingerprints are not recomputed.                              *)
ReadRowsUnchecked(p) ==
  /\ Steps(p, "rows")
  /\ HasRead(p, Read(p, "rows"))
  /\ UNCHANGED <<finished, path, store, sidecar, stops, reads>>

(* The six tables of rows, in which no rebuild but a whole one is visible.    *)
ReadRows(p) ==
  /\ Steps(p, "rows")
  /\ IF Coherent(Read(p, "rows")) THEN HasRead(p, Read(p, "rows")) ELSE Ends(p, "torn")
  /\ UNCHANGED <<finished, path, store, sidecar, stops, reads>>

(* replace_snapshot: delete everything, insert the replay, read it back.     *)
Commit(b) ==
  /\ Steps(b, "commit")
  /\ store' = [store EXCEPT ![run[b].file].snapshot = run[b].plan]
  /\ run' = [q \in Process |->
               [run[q] EXCEPT
                  !.since = IF q = b THEN {run[b].plan}
                            ELSE IF run[q].final /\ run[q].file = run[b].file
                                   THEN @ \cup {run[b].plan} ELSE @,
                  !.pc = IF q = b THEN "meta" ELSE @,
                  !.final = @ \/ q = b]]
  /\ UNCHANGED <<finished, path, sidecar, stops, reads>>

Close(p) ==
  /\ Steps(p, "closing")
  /\ run' = [run EXCEPT ![p] = Idle]
  /\ AfterClose(p)
  /\ UNCHANGED <<finished, path, store, stops, reads>>

(* A lock that times out, an I/O error: the error handlers close.            *)
Fails(b) ==
  /\ b \in Running /\ run[b].pc \notin {"probe", "probed", "closing"}
  /\ stops < MaxStops /\ stops' = stops + 1
  /\ Ends(b, "failed")
  /\ UNCHANGED <<finished, path, store, sidecar, reads>>

(* Nothing is closed, nothing is cleaned up.  A reader that stops leaves     *)
(* behind what one that closes leaves behind.                                *)
Killed(b) ==
  /\ b \in Running
  /\ stops < MaxStops /\ stops' = stops + 1
  /\ run' = [run EXCEPT ![b] = Idle]
  /\ UNCHANGED <<finished, path, store, sidecar, reads>>

-----------------------------------------------------------------------------
Step(p) ==
  \/ Probe(p) \/ ProbeCloses(p) \/ CheckSidecars(p) \/ Stage(p) \/ Replace(p) \/ Reopen(p)
  \/ Connect(p) \/ Preflight(p) \/ Bootstrap(p) \/ Initialize(p)
  \/ CountMeta(p) \/ CountRows(p) \/ ReadMeta(p) \/ ReadLedger(p)
  \/ ReadRows(p) \/ Commit(p) \/ Close(p)

Next ==
  \/ \E s \in Session : EndSession(s)
  \/ \E b \in Rebuilder : Launch(b)
  \/ \E r \in Reader : Find(r)
  \/ \E p \in Process : Step(p)
  \/ \E b \in Rebuilder : ProbeFails(b) \/ Fails(b) \/ Killed(b)

Spec == Init /\ [][Next]_vars

-----------------------------------------------------------------------------
(* What a read answers, and what a rebuild reports, is a snapshot that its   *)
(* file held, whole, at some moment of the read; "none" only if there was    *)
(* none: rows of two rebuilds are never mixed (CurrentStateStore.snapshot).  *)
AnswersAreWhole ==
  \A p \in Process : run[p].result = "done" =>
    \E S \in run[p].since :
      IF S = None THEN run[p].reading = Nothing ELSE Shows(run[p].reading, S)

(* A process that had the database to itself does not fail, whatever an      *)
(* earlier one that stopped or was killed left behind, unless the database   *)
(* is not a Current State at all; a rebuild leaves exactly what it replayed. *)
AloneSucceeds ==
  \A p \in Process : run[p].alone /\ run[p].pc = "closing" =>
    /\ run[p].result \notin {"refused", "taken", "torn"}
    /\ run[p].result = "incompatible" =>
         \/ store[path].schema = "foreign"
         \/ p \in Reader /\ store[path].schema # "current"
    /\ run[p].result = "done" /\ p \in Rebuilder =>
         store[path].snapshot = run[p].plan

(* An older or foreign database stays as it is until, if it is an older one, *)
(* a whole database takes its name: no upgrade leaves half of one.           *)
NeverHalfUpgraded ==
  [][ path # 0 /\ store[path].schema \in {"older", "foreign"} =>
        \/ path' = path /\ store'[path] = store[path]
        \/ /\ store[path].schema = "older" /\ store'[path'].schema = "current"
           /\ store'[path'].snapshot # None ]_vars

(* A rebuild of any finished sessions goes ahead and keeps the latest        *)
(* positive observation of each unit and product, in replay order, and is    *)
(* refused only for the clocks its sessions were recorded by: no page, no    *)
(* order of pages and no orphaned row makes the snapshot break its own rules *)
(* (build_replay_snapshot, CurrentStateSnapshot).                            *)
ReplaysAreFaithful ==
  \A b \in Rebuilder :
    /\ run[b].pc = "probe" => ClocksAgree(run[b].plan) /\ KeepsLatest(SnapshotOf[run[b].plan])
    /\ run[b].result = "invalid" => ~ClocksAgree(run[b].plan)

=============================================================================
