# Bizman in TLA+

Bizman records what a player's browser does in an online business simulation,
keeps the recordings as immutable evidence, derives from them the current state
of the player's companies, announces what changed in the game itself, and builds
an index that agents search. This directory specifies the parts of it whose
correctness depends on order: what runs concurrently, what may stop between two
steps, what arrives late or twice; and the computations whose results must agree
although different programs make them.
All paths below are relative to the package, `src/bizman/` in the repository.

The modules are written from the code. `PROJECT.json` has, for every
definition, the lines it stands for ("map"), the hazards each property is
about, the runs, a plausible bug per property that the run detects ("mutants"),
and the theorems.

    tlc -workers 2 -config Detector.cfg MCDetector     # one run
    tlapm DetectorProofs.tla                           # one module of proofs

Type invariants are proved and therefore not checked again by the runs. A
property that some run checks and no theorem states is model-checked only; each
section says which those are.

## 1. The system

### Parts

| Part | State | Operations | Module |
|---|---|---|---|
| Collector session, `collector/runtime.py`, `storage.py` | manifest, raw event file, event counter; three tasks on one event loop | bootstrap, receive, consume, drain, finalize | Collector, SessionArchive |
| DevTools connection, `collector/cdp.py` | pending commands, event queue, send lock, closed flag | `command`, `receive_loop` | Cdp |
| Targets, `collector/targets.py` | target <-> session dictionaries, sets of configured, bound and observed sessions | bootstrap, attach, configure, detach | Targets, Recording |
| Network and actions, `collector/network.py`, `actions.py`, `runtime.py` | requests under way, web sockets, execution contexts | turn an event into records | Requests, Recording |
| Correlator, `collector/correlation.py` | two bounded deques, linked pairs | observe an action or a request | Correlator |
| Evidence reader, `sessions/` | none; reads manifest and files | list, inspect, iterate, verify | Evidence, AgentIndex |
| Current-state rebuild, `current/` | `state/current.sqlite3` | replay, probe, upgrade, rebuild, read | Replay, CurrentState |
| Change detector, `changes/runner.py` | local to a run | list, extract, decide, commit, materialize | Detector |
| Detector database, `changes/state.py` | processed sessions, change occurrences, outbox | process a session, mark a bundle | Detector |
| Promotions, `changes/promotion.py` | `<data_dir>/promotions/` | publish a bundle, verify it | Detector, PromotionLog |
| Baseline, extraction, diff, rules, `changes/` | none; reads curated files | compile, extract, compare, apply | Paths, Baseline, Extraction, Diff, Analysis |
| Ingest, `ingest/` | generated data sets | gather, describe, write | Ingest, Analysis |
| Read model, `readmodel/`, `core/index.py` | `index/agent-index.sqlite3` | project, build, validate, page, search | Records, Catalogue, Knowledge, Store, AgentIndex |
| Market, `market/` | `market/market.sqlite3` | open, append, read, project | MarketStore, Market |
| Core, `core/` | none | rebuilds, typed queries, planner, provenance, pagination | AgentIndex (index, pages), CurrentState (reads) |
| Experiments, foundation | none | validation, deltas, redaction, conversions | no |
| MCP server, Telegram bot, CLI, `src/tools` | none | call the core, format answers | no |

### How they interact

    browser --CDP--> Cdp --queue--> consumer --> network/actions --> correlator
                      ^                |                                 |
                      +---commands-----+        raw/<session>/*.jsonl <--+
                                                manifest.json
                                                      |
                         +----------------------------+------------+
                         v                                         v
             detector: extract, diff, rules                rebuild: replay
                         |                                         |
             state.sqlite3 (outbox)                      state/current.sqlite3
                         v                                         v
             <data_dir>/promotions/*.json               readers: core, MCP, bot
                                                                   ^
     HAR --ingest--> knowledge/http --+--> detector's baseline     |
     curator ------> knowledge/*    --+--> agent index (+ sessions, changes)

Inside the collector the tasks interact through a queue and through futures.
Between processes everything goes through files: a manifest and its event
files, curated data sets, four SQLite databases and a directory of bundles.
Nothing coordinates the processes except SQLite's write lock and the atomicity of
`rename`.

### What is hard, and what makes each part correct

* **Collector.** A loop that receives, a consumer that waits for answers while
  events queue up, a transport that closes in the middle of either, a disk that
  fails, Ctrl+C at any await, a kill anywhere. Correct means: whatever an
  analysis accepts is whole and contiguous; an event taken from the queue is
  recorded once and in order; nobody waits for an answer that cannot come; the
  session ends when the connection does.
* **Correlator.** Bounded memory, a moving window, requests seen before the
  action that caused them, observations handed over twice. Correct means: one
  link per request, to the best action, and none missed among near neighbours.
* **Current State.** Readers that issue eight SELECTs outside a transaction,
  rebuilds that run at once, an older file replaced under open connections,
  kills that leave sidecars. Correct means: an answer is one whole snapshot, an
  upgrade never leaves half a database, and the next rebuild succeeds.
* **Recording.** A browser that does not wait: tabs open, move, crash and close,
  redirect chains start before their session, and the answer to a command
  overtakes the events before it. Correct means: the registry's dictionaries are
  inverse, nothing that ended leaves anything behind, an action is recorded with
  the document it was made in, and the analysis can read what is recorded.
* **Detector.** A database and a directory that no transaction spans, several
  processes, sessions that overlap, evidence edited by hand or refused by the
  extraction, power losses. Correct means: a change is announced exactly once,
  its history is that of the evidence, what is marked as published is on disk as
  long as the machine keeps its power, and a session that cannot be read holds
  up no more than it must.
* **Analysis.** Data sets written file by file and read file by file, by programs
  that share no lock; two tools that must agree on how a path fits a pattern.
  Correct means: a whole generation is accepted and one whose endpoints are from
  two is refused (other data sets are not checked against each other), what is
  recorded is not news, and one profile means one result.
* **Agent index.** A rebuild that reads a hundred files while sessions end, the
  detector commits and a curator edits; cursors that outlive the index. Correct
  means: a session's summary is of bytes that were on disk together, nothing
  said is lost, a listing is of one index, a search finds the best first.
* **Market.** Writers that race for the first open, are killed between a commit
  and its answer and try again. Correct means: one response is one row, an
  answer is of one moment, a half-made database does not stand in the way.

`PROJECT.json` lists the hazards at their lines with the properties that watch
them; section 11 names those that no property watches.

## 2. Detector

Modules: `Detector` (processes, database, directory), `PromotionLog` (what the
outbox promises), `DetectorPower` (the same machine with power losses),
`DetectorProofs`.

### State and actions

`made` says whether there is a database file, `db` holds its three tables,
`files` the promotion directory, `status` and `evidence` the sessions on disk,
`run[r]` the locals of `DetectorRunner.run` in process `r`. Every SQLite
transaction is one step, because the code opens it with `BEGIN IMMEDIATE`;
everything between two transactions is made of separate steps.

| Step of the code | Action |
|---|---|
| `from_paths`: a normal run makes the database, a dry one opens it only if it exists | `Launch` |
| `materialize_pending`: rows in order of `ended_at` | `ReadPending`, `TakeItem` |
| `_materialize_one`: temporary, recheck, rename, fsync, verify | `WriteTemporary`, `Recheck`, `Replace`, `SyncDirectory`, `Verify` |
| `mark_materialized` | `Mark`, `PendingDone` |
| statuses listed, every finalized session inspected | `List` |
| extraction with its identity check | `Extract` |
| dry run: classify against the database, or against nothing | `Classify` |
| `process_session` in one transaction | `ProcessSession`, `SkipProcessed` |
| every refusal; kill, lock timeout, I/O error | `Raise`, `Crash` |
| collectors and people with an editor | `EndSession`, `AlterEvidence` |

### Abstractions

* A bundle is its payload, since its id is the payload's hash. A temporary file
  is private and fsynced before the rename, so it only exists as a place in the code.
* `Findings[s][e][p]` stands for extraction, diff and rules: they are
  deterministic functions of a session's evidence and the profile.
* `first_seen_at` and `last_seen_at` are the `ended_at` of the first and last
  session. The first session is the first *processed*, not the earliest, in the
  model as in the code.
* `Rank` is the order by `(started_at, session_id)`, injective because ids are
  unique. Rows are published by `ended_at`; ties go either way.
* A session's status "completed" stands for completed or cancelled: both are analysed.
* `fresh` is a history field no step reads: what a run may at best report as new.
* `Unreadable` is evidence that the inspection refuses, `Unextractable` evidence
  that passes it and is refused by the extraction. Either ends every run at the
  same place (`MustRaise`), as does an edit of a session that was processed, so
  `SessionsGetProcessed` says what such a session may hold up (`Blocked`): an
  unreadable one everything, another what starts no earlier. Section 5 shows that
  collectors do record such sessions.
* A dry run launched before the database exists keeps `state = None` to its end
  (`blind`), whatever others record meanwhile.
* A run over selected sessions (`--session`) is left out; the scheduled run takes all.
* `fsync` of the directory is attempted and its errors are swallowed, and
  directories made on the way are not fsynced above (promotion.py:459-499), so
  `SyncDirectory` is a step that promises nothing, and a power loss may take any file.
* A foreign file in a bundle's place stops every run that comes to it (the code
  fails closed), so the liveness run has none.

### Properties

* `OneBundlePerChange`: a change on record is announced by exactly one outbox
  row, its first session's.
* `SummaryIsAccurate`: what a dry or normal run reports as new was new to it when
  it listed the sessions, and what was new then it reports unless another run
  recorded it; to a dry run older than the database everything is new. No two
  normal runs both report a change as new.
* `HistoryMatchesEvidence`: count and last sighting are those of the processed
  sessions, in any order of processing.
* `OneEvidencePerSession`: all profiles analysed the same bytes of a session.
* `MarkedMeansPublished`: a row marked materialized has its exact file.
* `ImplementsPromotionLog`: bundles are committed, then published with exactly
  their bytes, then marked, and never unpublished.
* `BundlesGetOut`, under fairness: no committed bundle stays unpublished, even if
  some session stops every run.
* `SessionsGetProcessed`, under fairness: every completed session is processed
  under every profile unless it is `Blocked`.

A run that dies never prints its summary, so summaries are delivered at most
once while bundles are published at least once under one name: exactly once.

### Runs

| Run | Instance | Shows |
|---|---|---|
| detector | 2 processes (symmetric), 2 sessions, 1 profile, 2 changes, 1 crash, 1 edit, 1 session the extraction refuses once it is edited, 1 foreign file; 293,532 states | the safety properties but one |
| detector_live | 1 process, 2 profiles, 1 crash, 1 power loss, 1 edit that makes a session unreadable, unextractable or different; 698,574 states | `OneEvidencePerSession`, `BundlesGetOut`, `SessionsGetProcessed` |

Two processes meet in every pair of steps; a third adds no new pair. Two
overlapping sessions that share one change and differ in another are enough to
make a change new in either, and their ranks and end times disagree on purpose.
One crash at every step, followed by a run of the same or the other process,
covers recovery; `detector_live` has a power loss as well, so recovery is itself
interrupted, and what was published may have to be published again.

Fairness (`FairSpec`, `FairPowerSpec`): the operating system schedules a running process (weak fairness of its
steps), and the detector is started again and again for each profile (strong
fairness of `Launch`), as a scheduled job or an operator does. Nothing is assumed about
crashes and power losses except that they end (`MaxCrashes`, `MaxPowerLosses`),
nor about sessions being finished.

### Proofs

For any number of processes, sessions, profiles and changes, with any crashes:
`TypeCorrect`, `EvidenceIsOne`, `MarkedIsPublished`, `ChangesAnnouncedOnce`,
`HistoryIsEvidence`, `SummariesAreTrue`, and the refinement `PromotionsAreLogged`.
Assumed: `ConstantsAssumption` and `RankAssumption` of `Detector`.

* `TypeOK` is not inductive: a process at `mark`, say, must hold an item. `TypeInv`
  adds `Shape`, what each place in the code implies for the locals.
* `MarkedMeansPublished` needs `MarkIsEarned`: whoever is about to mark has seen
  the exact file, and exact files stay (`ExactStays`).
* `OneBundlePerChange` follows from the transaction alone: it computes what is new
  from the rows it updates. That is why no interleaving of processes breaks it.
* `HistoryMatchesEvidence` counts the processed sessions that show a change, so its
  invariant adds that they are finitely many; the lemma `SeenInMatches` says what
  one more sighting does to count, first and last session.
* `ImplementsPromotionLog` needs `ItemsCommitted`: what a process is about to publish
  is in the outbox already. Then the rename publishes a committed bundle, `Mark`
  marks a published one (`MarkIsEarned`), the transaction commits, and every other
  step stutters.
* `SummaryIsAccurate` speaks of finished runs and needs `SummaryInv` of those under
  way: each fresh change has been counted, is known by another run's doing (to a run
  that is not blind), or shows in a session still to be looked at; what a run has
  counted it alone has counted; and while there is no file the tables are empty.

With any number of power losses (`DetectorPower`, which `DetectorProofs` extends;
`PowerAssumption` besides the assumptions above):

* `PowerLossesKeepTheTablesTrue`: the evidence, the bundles, the history and the
  summaries stay right. A loss brings back the tables of the last checkpoint as
  they were, so the invariant `PowerInv` says of them too what `SoundTables` says
  of the current ones; and no run outlives the loss that could still report
  what was taken back.

Nothing is claimed about the files after a power loss: the code cannot promise
them (see the abstractions and section 10), and no theorem or run says that a
marked row keeps its file then.

Only model-checked: liveness.

## 3. Collector and connection

Modules: `Cdp` (`CdpConnection`), `Collector` (extends it: `run_collection` and
the writer), `SessionArchive` (what a session promises), `CollectorProofs`.

### State and actions

A step of `Cdp` is what a coroutine does between two awaits. `call[c]` is the
place of caller `c` in `command()`, `pending` the dictionary of futures,
`arrived` everything that was queued with `taken` of them consumed, `receiver`
the state of the receive loop. A timeout may win over an answer that is already
set, as `wait_for` lets it; an answer to an id that is no longer registered is
ignored; when the loop ends all pending commands are told. `close()` is not
modelled because nothing calls it; both checks of the closed flag in `command()`
are one guard, as the flag is never reset.

In `Collector`, `phase` is how far `run_collection` has come, `at` the place of
the one task that issues commands (the main task while it attaches to open tabs,
the consumer afterwards), `log` the records given to the writer, `file` the
whole records on disk and perhaps a torn line, `manifest` the manifest on disk.
Events come in four kinds, by what they cost: `foreign` (ignored), `observe`
(recorded, perhaps with links), `body` (a finished request whose response body
is fetched first) and `attach` (a new tab, which costs commands).

| Code | Actions |
|---|---|
| writer, manifest "running", connect | `Prepare`, `PrepareFails`, `Connect`, `ConnectFails` |
| bootstrap: list, attach, configure | `Issue`, `ListReturns`, `AttachReturns`, `ConfigureReturns`, `CommandRaises` |
| receive loop and browser | `Browser`, `ReceiverFails` |
| `_consume_events` | `TakeForeign`, `TakeObserved`, `TakeCommanding`, `BodyReturns`, `TimerFires`, `AfterTimer` |
| append, flush every n, errors | `Write`, `WriteFails` inside the above |
| Ctrl+C, cancellation of the group | `Interrupt`, `CancelReceiver`, `CancelConsumer` |
| leaving the group and the transport | `LeaveGroup`, `Disconnect` |
| final flush, final manifest | `Flush`, `Seal` |
| kill | `Dies`, which leaves any prefix of the records and perhaps a torn line |

A failing task wins over a cancelled one when the group ends, but a cancellation
during the closing handshake of the transport replaces it, as in the code. A
failing write may lose the sequence number it took. `offered` (what reached the
receive loop) is a history variable.

### Properties

* `AnalysableIsWhole`: a session that analyses accept (completed or cancelled)
  has all its records on disk, none torn, numbered from zero without gaps.
* `NothingIsLost`: while nothing has failed, a first-party event taken is
  recorded exactly once and in order of arrival, whatever became of its body; and
  a completed session had no overflow and no failed write.
* `NobodyWaitsInVain`, `AnswersMatch`: of the connection.
* `ImplementsArchive`: the file is a growing prefix of the records, the verdict
  comes once and after the last of them.
* `SessionEnds`: a closed connection or Ctrl+C ends the session.

### Runs

| Run | Instance | Shows |
|---|---|---|
| collector | queue of 1, 3 events, 5 commands, flush every 2; 735,000 states | all of the above |
| collector_drain | 2 events, 4 commands | an event left in the queue of a completed session (finding) |

With a queue of one, three events fill it while the first is processed and
overflow it with the third; a flush after two records leaves both a flushed and
a buffered record. Five commands are two at the start (the list of targets and
one more) and one for each event; what the events taken did not use is left for
attaching and configuring tabs. `Room` keeps a command in reserve for every event
to come, so the bound never stops a session in the middle. One task issues commands in the
program, so `Caller` has one element; the proofs about `Cdp` are for any number.

Fairness: weak fairness of the tasks' own steps, of aborting a cancelled task
and of the main task. The event loop runs every ready task, timers fire, and a
transport takes or refuses what is sent. Nothing is assumed of the browser: it may
never answer, never send, never close.

### Proofs

`CollectorProofs` proves, first of the connection alone, `CdpTypeOK`,
`NobodyWaitsInVain`, `NothingLeftPending` and `AnswersMatch` for any callers, queue size and bounds. The invariant `CdpInv`
ties the three together: ids are handed out upwards, a registered id belongs to
the caller that waits for it, and an answer is only set while its id is registered.
It then shows that a step of a session is a step of the connection or
leaves it alone (`ConnectionStep`), so these carry over
(`SessionsWaitForAnswersToCome`), and proves `AnalysableSessionsAreWhole`,
`WrittenSessionsAreListed`, `SessionsLoseNothing` and the refinement
`SessionImplementsArchive`. The invariant of the first two says that the log is numbered contiguously, that a number is lost only
together with a failed task, that the file holds at most the log, and that a verdict is only on disk
when all of the log is. `NothingIsLost` needs `LossInv`: unless a task has failed, every
event taken so far has exactly one record of its own unless its handler is still at
work, the log never goes back to an earlier event, and a session that
completes has had no failure.

`WrittenIsListed` (records on disk are in a file the manifest names) and
`NothingLeftPending` are proved and not checked by a run. Only model-checked:
`SessionEnds`, which is liveness.

## 4. Correlator

Modules: `Correlator`, `CorrelatorProofs`.

`observed` is everything handed over (history); an observation is named by its
place in it. `actions` and `requests` are the deques, as sets of places;
`links` the links made, of which only the number is counted in `emitted`.
`Happens` is `observe`: prune by window, evict by `max_recent`, then
`ObserveAction` or `ObserveRequest`; `Replay` hands an old observation over again.
Times are whole milliseconds, nondecreasing. A score is a sum of hundredths; the
one fact about binary doubles that matters, that 0.35 + 0.05 falls short of 0.40,
is in `Reaches`. Actions with equal sums of different signals may be ordered
either way by the last bit of the sum, and full ties are broken by random ids. Malformed events,
which the code ignores, are not enumerated.

Properties: `LinkedOnce` (also under replays); `NothingMissed` (every
request that met an action that explains it is linked, where *met* means within
the window and with fewer than `max_recent` observations of its kind in between);
`LinkIsBest` (a link is to the best action the request had met by then).

Run: `correlator` (4 observations, 3 kinds of action and of request in two
targets and frames, pauses of 0, 600 and 1,400 ms against a window of 2,000, two
per deque; 112,000 states). Two pauses of
600 stay within the window, 600 + 1,400 meets it exactly and 1,400 twice crosses
it; with four observations and two places a deque is filled and evicted from.

Proofs: these three, that the memory is bounded, and `WaitingIsUnexplained` (no
remembered action explains a request that still waits), for any window, memory
size and observations. The
inductive invariant is `TypeOK`, `Ordered` (time does not go back), `LinkedOnce`,
`WaitingIsUnexplained`, `Kept` (what is in the window was
forgotten only for `max_recent` newer ones or because it was linked), `NothingMissed` and
`LinkIsBest`. `Ordered` and `Kept` are the strengthening: `Kept` turns "met" into
"still remembered" (`MetIsRemembered`); that it is preserved needs to know what
eviction from a full deque keeps (`RememberedBound`, `SinceGrows`, `WindowBound`).

## 5. Current State

Modules: `Replay` (what a replay of sessions yields), `CurrentState` (rebuilds and
readers around one path), `CurrentStateProofs`.

### Replay

`Snapshot(S)` folds the sessions of `S`, in the order of their start, and their
events, in sequence, over dictionaries that later observations overwrite, and
then divides the product rows between the units on a roster and the others. A
readable roster adds and overwrites units, an unreadable one marks the snapshot
stale; a goods page does the same for the products of its unit and the unit's
surface. Nothing is forgotten because a later page leaves it out. Pages are their
content; the parsing of HTML and numbers is not modelled.

The sessions are put in the order of their instants (`Rank`, replay.py:191), but a
snapshot demands that its ledger be in the order of the texts of `started_at`
(`TextRank`, model.py:409), and that no session ends before it starts (`Backwards`,
model.py:141). `ReplaysAreFaithful` says that whatever pages the sessions hold, a
rebuild goes ahead with a snapshot that agrees with a reference defined directly on
the events: of each thing, the latest positive observation; and that it ends with an
error only if the clocks of its sessions are to blame (`ClocksAgree`): a clock that
went back, or two sessions whose texts sort otherwise than their instants. The
latter are two sessions of one second, one of them of the whole second, whose text
sorts after its own fractions. Every later rebuild then ends with that error.

### State and actions of CurrentState

`path` is the file at the path (0: none), `store` the content of each file
(an inode: a connection stays with the file it opened), `sidecar` whether `-wal`
or `-shm` is beside it, `run[p]` a rebuild or a reader. A write transaction is one
step; each SELECT of a reading is a step, outside any transaction. What a
reading saw is recorded per part: `meta`, `ledger` and `rows` (the six data
tables). A snapshot is named by its sessions and identified by its fingerprint.

| Code | Actions |
|---|---|
| `rebuild_current_state` starts, replays the sessions | `Launch` |
| recognizing an older database | `Probe`, `ProbeCloses`, `ProbeFails` |
| upgrade: sidecars, staging and fsync, rename, verification | `CheckSidecars`, `Stage`, `Replace`, `Reopen` |
| opening and bootstrapping | `Connect`, `Preflight`, `Bootstrap`, `Initialize` |
| validating and reading a snapshot | `CountMeta`, `CountRows`, `ReadMeta`, `ReadLedger`, `ReadRows` |
| replacing the snapshot, closing | `Commit`, `Close` |
| a reader opens the file | `Find` |
| errors and kills | `Fails`, `Killed` |
| collectors | `EndSession` |

What SQLite does with sidecars was taken from its behaviour under the calls the
code makes: opening a WAL database creates them, the close of the last
read-write connection removes them, a read-only one or a kill leaves them. Replacing a
file under another process' live WAL has no defined outcome; the run
keeps to what an operator does (`SoloUpgrade`: no second rebuild is started
while an older file is upgraded), the proofs do not. A
probe's error means "not older", as in the code. `alone` and `since` are history
fields: whether a process ran without company, and which snapshots the file held since the
reading began. Power loss is not modelled here: the database can be rebuilt.

### Properties

* `AnswersAreWhole`: an answer is one whole snapshot that the file held during
  the reading. Rows of two rebuilds are told apart by the ledger and the
  fingerprint; a reader that races a commit may get an integrity error, never a mixture.
* `AloneSucceeds`: a process that has the database to itself is not refused,
  outrun or told of torn rows, whatever an earlier one left behind when it stopped;
  only a foreign database (for a reader, any but the current schema) is
  incompatible; a rebuild leaves exactly the snapshot it replayed.
* `NeverHalfUpgraded`: an older database is replaced only by a whole current one, a
  foreign one never.

Run: `current_state` (3 sessions, two of them of one second and in the other order by
their texts, 2 symmetric rebuilds, 1 reader, 5 files, 1 kill
or failure, 1 reading; 672,183 states; without `SoloUpgrade` it passes a million
and a half, too many for a run). Two rebuilds and a reader are the smallest company in
which a reading can straddle two commits; five files are the original, one staged
file per rebuild and those still open. Eventual success was tried as a
liveness property and takes TLC too long; `AloneSucceeds` is its safety part.

Proofs, with `SoloUpgrade` true or false and any number of processes, files and
sessions: `CurrentStateTypeCorrect`, `AnswersAreWholeSnapshots`,
`UpgradesAreWhole`, `AloneProcessesSucceed`, `ReplaysKeepTheLatest`. `TypeOK` includes `Tidy`: what a place in the code implies for the
connection. `UpgradesAreWhole` adds that a staged file is nobody else's
(`StagedIsPrivate`), that files opened for writing are current
(`OpenedIsCurrent`) and that only an upgrade of an older file is at the rename
(`UpgradesOlder`). `AnswersAreWholeSnapshots` adds `FollowsFile`: the parts read
so far are from snapshots the file held since the reading began.
`AloneProcessesSucceed` adds `AloneInv` (TLC agreed before it was proved): while a
process is alone nobody else runs, so everybody else's connection is closed, and
what it remembers still holds (`Undisturbed`): the probe's verdict, that its own
probe took the sidecars away, the mark it read before the version, the part of
the rows it counted or read; from the rename on, or from its commit, the file holds
its plan. A killed process is what makes this hard: it leaves sidecars and blank
files behind, and the next one that is alone must get past them.

`ReplaysKeepTheLatest` is `ReplaysAreFaithful` for any finished sessions with any
events. `Knows(known, P)` says that dictionaries are what the events at the
positions `P` say last: who is in them, where each entry was observed, that a
unit's company is there, whether a roster was unreadable. `ApplyKnows`: if the
event at a position later than all of `P` is applied, it knows that position too
(`RosterKnows`, `GoodsKnows`). The folds are unrolled into the steps of a replay
(`SessionSteps`, `ReplaySteps`), over which `Knows` is carried by the well-founded
induction of the library on a set of numbers (`Induction`); `LedgerInOrder` says
that the ledger has every session once, by rank, so that each session comes later
than those before it. The division of the rows then disturbs nothing
(`SnapshotsAreValid`, `SnapshotsKeepLatest`), and the ledger is in the order of the
texts if the clocks agree (`LedgersAreClocks`). The assumptions are those of
`Replay`: finitely many sessions, and no two with one rank of either kind. Sessions
whose clock went back are in the theorem and not in the run.

## 6. Recording

Modules: `Targets` (registry and set-up), `Requests` (requests and sockets under
way), `Extraction` (what the change detector reads out of the records and what it
refuses), `Recording` (a browser, its queue of events and the consumer),
`RecordingProofs`.

### State and actions

`Collector` says when events are taken and that they are not lost; this part says
what is made of them. The consumer handles one event at a time; the rest is in
`wire`. The browser does not wait: its state is `doc` (what each tab or frame
shows), `attached` (open sessions), `enabled` (what each was granted) and `flight`
(requests under way). An answer to a command is read off the browser's state at
that moment, so it overtakes the events in the queue. `reg` holds the dictionaries
of the registry and the sets of the orchestrator, `contexts`, `requests` and
`sockets` the rest of what the collector remembers.

| Code | Actions |
|---|---|
| the browser | `Opens`, `Moves`, `Closes`, `Crashes` and so on; `BrowserStep` |
| `bootstrap`, `_attach_page`, `_configure_session` | `Bootstrap`, `AttachAnswers`, `AttachFails`, `Configure` |
| `handle_event` of targets | `TargetTold`, `SessionTold`, `SessionGone`, `TargetGone` |
| `handle_runtime` | `ContextCreated`, `ContextDestroyed`, `ContextsCleared`, `ActionTold` |
| `handle_network`, `handle_network_with_body` | `RequestTold`, `ResponseTold`, `EndTold`, `SocketTold` |

Headers, times, queries, redaction and the script in the page are left out; a
place is a path, whether its host is first-party, and whether what is recorded of it
is `clear` to the extraction. It is not if the path is no pathname (`//x` is recorded
as it comes, network.py:361, and refused at extract.py:134-142), if two patterns of the
catalogue match it equally well, or if a body was kept whose content type the redaction
drops. The contexts of a document that is left end one by one or all at once.

`departed` and `odd` are history: which ends of sessions were handled, and which
requests the browser's doings set apart. A request is odd from the moment at which
two sessions of its target hear of it, at which a session hears it redirected that did
not hear it start, or at which it leads from elsewhere to a first-party place.

### Properties

* `RegistryInverse`: the two dictionaries are inverse to each other.
* `NothingStale`: once the end of a session was handled, nothing kept mentions it,
  whatever answers come later; when the queue is empty, the contexts known are
  those that exist and no finished request is remembered.
* `ActionsAreTrue`: an action is recorded only if it was made in the observer's
  world of a document that was first-party then, and under no other target.
* `RecordsAreExtractable`: if the extraction refuses the records so far, it refuses a
  record that is at fault itself (`AtFault`): a request or response that is odd or not
  clear, a form path that is not clear, or one source of relations too many
  (`max_pending_relation_sources`). So no link is ever refused, no chain of redirects for
  what became of another, and no record of one session, target or navigation for those
  of others, wherever the consumer stands. A refusal ends every run of the detector
  (`runner.py:243`; section 2).
* `RecordsAreConsistent`, false: that no clear record is refused, which is what the
  extraction says of its error.

Runs: `recording` (one tab, one frame, two symmetric request ids, 3 sessions, 4 steps
of the browser, a queue of 2, 2 hops, 3 sources; 1,005,262 states) and
`recording_consistency` (one request, 3 steps; the shortest of the three oddities;
finding). Three sessions are the tab, the frame and the tab attached
again; a chain of two redirects has a middle; four steps are enough to open, send,
redirect, navigate or crash and close with the consumer anywhere in between, and to
let one request be odd and another not; four sources are one too many.

Proved, for any targets, sessions, grants and length of the queue (`Targets` is
assumed finite, as a browser's tabs are; the model puts sets of them in an order):

* `RegistryStaysPaired`: each operation of the registry preserves the pairing, and
  every step of the consumer is made of them.
* `NothingOfDepartedSurvives` and `ActionsRecordedAreTrue`, from one invariant,
  `RecordingInv`, because neither is inductive. That nothing comes back after the
  end of a session needs to know that no event after the end names the session
  (`WireInv`) and that the consumer never works on one that departed (`AtInv`,
  `KeptInv`). That a click is judged by the right document needs to know where the
  queue will have put the contexts by then (`TruthInv`): a context of another
  document, in the queue before the click or already in `contexts`, is cleared
  before the click is handled. This in turn holds because the browser announces a
  new document by ending the contexts of the last one for every session whose runtime
  is enabled, all at once or each by name, so that
  whatever a session was told of a document its target no longer shows has such an end
  behind it (`DocumentsInv`).
* `NothingStaleRemains`, which adds that a consumer that has caught up knows what
  there is. Its first half says of contexts, at every length of the queue, what it
  says of an empty one (`MirrorInv`): a context that exists is known or announced
  with no event behind it that would make the consumer forget it (`NoneLess`), and
  one that is known or announced of a document that is gone has such an event
  behind it (`NoneMore`). Its second half does so of requests (`FlightInv`). While a
  request that is not odd is under way, and so one session hears its target, nothing in the queue
  behind its announcement may set the session and the target apart (`Going`), so
  the end the browser sends at last will find it under the key it was kept under
  (`Ending`). This needs that the set-up of sessions never takes a target from
  one that has it (`AttachInv`); of an odd request it is false. A request that is odd
  disturbs no other, as each step of the browser that is about a request is about one.

Each operation of the browser is one that `Tells` the consumer what is so after
the step, with sessions that only grow (`Grows`); each of the consumer takes the
head of the queue and keeps at most what that event says (`Handles`). The
invariant is proved for these two kinds of steps and each action shown to be one.

Requests are looked at in three kinds of steps: those the browser `Tells` of, in
which a request goes on as it may (`Flies`) and its events are those that belong
to it (`Asks`, `Concludes`); those in which the consumer handles one event
(`Passes`, `Steady`, `Remembers`); and those that change nothing of them.

`RecordsAreExtractable` is only model-checked. A proof would have to say, of every
request that is not odd, that the records and the events still in the queue together
continue its chain of redirects with no hop missing, next to everything `FlightInv`
says of it.

## 7. Analysis

Modules: `Paths` (path matching), `Ingest` (from captures to data sets),
`Baseline` (from data sets to the contract), `Diff` (from contract and
observations to findings), `Analysis` (all of it around one set of files),
`AnalysisProofs`.

`captures` are the HAR captures, `files` the data sets under their names,
`writing` what the ingest tool has still to write, `reader` a compilation that
reads one file after the other. The tool may stop between two files; a curator
edits the operations and the catalogue of actions. A file is written and read in
one step. A path is a sequence of segments, a template has placeholders; what the
redaction policy makes of a key is the constant `NormalKey`.

| Code | Actions |
|---|---|
| a browser's export | `Captured` |
| `ingest.main`, `write_dataset` | `Generate`, `WriteFile`, `Stop` |
| an editor | `EditOperations`, `EditCatalog` |
| `BaselineCompiler.compile` | `Compile`, `ReadFile`, `Conclude` |
| `build_analysis_profile`, `compare`, `apply` | `Compare` |

The code checks while it reads; the model checks at the end (`Conclude`), which
refuses the same sets of files because no check depends on time. The tool writes
where its `--out` says and its authors mean a directory of its own
(`ingest/datasets.py:6`); the model is of one that writes into `knowledge/http`,
where the compiler reads, since that is how the data sets get there or are renewed.

Properties:

* `RecordedIsKnown`: each event, form, operation and action of the files the
  contract was compiled from is known to it when a session shows it again.
* `WholeOrRefused` has two halves, both about what a contract says of endpoints.
  `TornIsRefused`: for each part of the census that
  an accepted compilation read there is one generation of whose events that part is,
  and the events read have the same counts, methods, statuses and keys for each
  endpoint of the part; no event is of an endpoint the census lacks.
  `GeneratedCompiles`: a generation that was read whole is accepted, if its traffic is
  describable and the curator's operations are in order. More cannot be said of the
  first: parts are compared by their counts, so two generations that agree in all
  counts of a part cannot be told apart by them. And nothing compares the data set of
  the forms with the others: an accepted contract may have the forms of another
  generation than its endpoints. What the tool writes without complaint
  and the compiler refuses is excluded by `Describable`: a path deeper than the
  placeholder of its rule (the rules `^/wikihelp/topic/.+$` and
  `^/user/check/message/r/.+$` take several segments, a placeholder takes one), a
  path that begins with two slashes or has a fragment, a response with status 0, a
  method that is no token, and a form whose action is empty, relative, absolute or
  has a fragment. A data set without records (empty `parts`) is refused as well.
* `FindingsAreComplete`: whatever the order of a session's events, there is one
  finding per change, with the evidence of every fact, and no fact without a rule.
* `SameProfileFindsTheSame`: contracts with one profile find the same, so
  checkpoints under a profile may be skipped. Hashes are taken as injective.

Run: `analysis` (2 captures, parts of 2 records, at most 5 entries, 1
regeneration, 2 compilations; 355,213 states). The entries have pages with
forms, one of them with a fragment in its action, and a path with two slashes. A data set has one, two or three
parts, so a stop falls before, between and after parts and between data sets; two
compilations are needed to compare profiles.

### Proofs

`AnalysisProofs` proves the four properties for any captures, operations,
catalogues, sessions, parts and bounds, with the ingest tool, the editor and a
compilation interleaved in any way. They are about computed values, so
most of the proof is about the operators; the invariant (`AnalysisInv`) only says
what the files are: an index lists parts, a part of the forms has forms, operations
are the curator's, an accepted contract is `Compiled` from what was read, and the
profile last accepted is that of such a contract.

* `WhatIsRecordedIsKnown`: `RecordedIsKnown`. A path that is shown again must get
  the name it was compiled under, though the contract knows more paths than the
  census by which events were named. `OneName`: the census' paths and
  templates stay, and what operations add are literal paths that change no other
  path's name. Then `EventsAreIn` and `OperationsAreIn` find the variant, and
  `EventIsKnown`, `OperationIsKnown`, `FormIsKnown` and `ActionIsKnown` show that it
  leaves nothing new.
* `OneProfileOneAnswer`: `SameProfileFindsTheSame`. The profile determines the
  contract, and the findings depend on the contract and the session only.
* `FindingsNeedNoOrder`: `FindingsAreComplete`. Each fact of each kind of observation has
  a rule (`FactsFew`), and folding them in any order gathers for each change
  exactly its evidence (`FoundGathers`, `AppliedGathers`), so two orders agree
  (`OrderDoesNotMatter`). The contract is finite because the files are sequences.
* `WholeIsCompiledTornIsNot`: `WholeOrRefused`. `TrafficInv` says where the contents
  come from: each part of the events, in a file, read or still to be written, has
  events of captures; each part of the census is of the events of one generation
  (`CensusPartOf`); the operations' posts add up. The tool
  names endpoints by regular expressions, the compiler by matching templates, and
  the two agree: in a census no path has two best matches (`BestIsOne`), the match is
  the tool's pattern (`BestIsPatternOf`), and a path that can be described has one
  (`PatternIsBest`). So both count the same events for a pattern (`PlacedAre`), and a
  record of the census that agrees with the events read is their census
  (`AgreesIsSame`). The other way, what was written to the end is read as it was
  (`WrittenLoads`: the parts tile the records, and the offsets the compiler adds up are
  where the tool began them), and its counts add up (`SumIsCount`, `EndpointsAddUp`).

Assumed are `AnalysisAssumption` (parts have at least one record, captures are
sequences of entries with finitely many forms, sessions are finite and made of the
three kinds of observation) and `PathsAssumption`: the segments that the rules of the
tool name are clean and no placeholders, and what they put for a segment is one; POST
is a method; entries and operations have literal paths, as all those of
`knowledge/http/operation-index.json` have, and operations have numbers of posts.

`Induction`, `FoldExists` and `FlattenSteps` stand here and in `AgentIndexProofs`:
a module of lemmas only for the two would be a ninth module of proofs to keep.

Nothing of this section is only model-checked.

## 8. Agent index

Modules: `Records` (a record and how data sets are checked), `Catalogue`,
`Knowledge` (the projection of each data set), `Evidence` (the reader of finished
sessions), `Store` (the index, its pages and its search), `AgentIndex` (a rebuild, a
client and the world around them).

`curated`, `manifest`, `events` and `detector` are what is on disk, `rebuild` the
place of `rebuild_agent_index` with what it has read, `index` the file in place,
`client` one that reads page after page with a cursor. `was` is history: which
manifests and contents of a session were on disk together.

| Code | Actions |
|---|---|
| `project_curated_knowledge` | `Rebuild`, `ReadKnowledge`, `Project` |
| `ChangeSummaryReader.open_if_exists` | `OpenChanges` |
| `iter_finalized_info` | `ListSessions`, `ReadManifest`, `InspectFile` |
| `iter_events`, `_session_summary` | `ReadAgain`, `StageFile`, `Summarise` |
| building the staged file, `os.replace`, a kill | `Build`, `Replace`, `Crash` |
| listings | `List`, `NextPage` |
| collectors, detector, curator, an editor of evidence | `World` |

Words are numbers (a negative one is another spelling of the positive), records
have words, aliases and evidence. Path and encoding checks are one outcome. The
rank that SQLite's full-text search gives is the constant `Bm25`. To keep the
instance small, the curator edits only before and while knowledge is read, the
rest of the world changes only afterwards, and clients ask only between rebuilds:
the parts read disjoint files, and the index is replaced in one step, so other
interleavings give the same results. An altered file never gets an older content
back.

Properties:

* `IndexedEvidenceIsOne`: each session's summary is of a manifest and events that
  were on disk together and are a session's.
* `NothingFinishedIsMissed`: what had ended when the sessions were listed is in.
* `RefusalIsJustified`: a rebuild is refused only for a cause. The causes include
  three a reader may not expect: one session whose clock stepped back (`ended_at`
  before `started_at`) or one directory without a manifest refuses the whole
  rebuild, every time; and so does a detector database that is just being made.
* `PagesAreOneSnapshot`: a client that reached the last page has read one index,
  all of it, in order; if the index was replaced the cursor is refused.
* `NothingSaidIsLost`: every word and evidence the files give for a thing is in
  its record, also where several data sets speak of it.
* `SearchIsComplete`: an answer is the first records among all that meet the
  text, each once by its best way, although the code looks tier by tier with limits.

Run: `index` (3 sessions, 4 event files, 11 data sets with a few records that share
words and references, ids in memory up to 1 and then in the table, 1 edit, 1
rebuild on top of none or an index, 1 listing with pages of 1; 206,655 states).
Three sessions: one that had ended, one that is being recorded, one with the same
start as the first. Pages of one row put every boundary between two rows.

What the answers do not promise, and the model therefore does not: the counts a
rebuild returns are read from the file in place afterwards (`core/index.py:107`)
and may be another rebuild's; an older rebuild may replace a newer one; the changes are read
after the sessions and may name one the index lacks; an answer carries the first
eight evidence references.

### Proofs

`AgentIndexProofs` proves, for any sessions, files, alterations, rows of the
detector, limits and bounds:

* `NoSessionIsMissed`: `NothingFinishedIsMissed`. The invariant: a session that
  had ended when the rebuild turned to the sessions stays so and is in the list or has a summary;
  it leaves the list only with a summary.
* `EvidenceIsOfOneMoment`: `IndexedEvidenceIsOne`: each summary is of a manifest of a
  session that had ended and of contents that were on disk together, and these were
  a session's. The invariant follows every content from
  its first reading: it is in its file still, or never again (`StillOrGone`, from the
  alterations left, `Future`). When the manifest is found the same, that moment
  `Confirms` all contents but those that are gone; the second reading would show
  those, so what passes it was there at that moment. No step reads two
  files at once, and no moment of the first reading alone need have had them all.
  What the reading of events computes is `HasRead`: the events so far are counted,
  their ids are known, in memory or in the table, and the reader is still content
  just if they are of the session, in order, no id twice. `ReadsFile` carries it from
  file to file. It needs what `FoldLeft` and `FlattenSeq` compute for every sequence:
  `Induction` (from `WFMin`) takes a set in place of an operator, `FoldExists` shows
  that there is a function of the kind that the folds choose, and `ReadEventsSteps`
  and `FlattenSteps` unroll them.
* `ListingsAreOneIndex`: `PagesAreOneSnapshot`. `ReadUpTo` says that a client has exactly
  the rows up to its cursor, in order; `PageExtends` that a page of the same index goes on from there.
  `RankedIsSorted` shows what `Ordered` makes of a finite set and a strict
  order, `FirstIsPage` that one row more than the limit tells whether there is more.
  Keys are unique because `Build` checks it.

Assumed are `IndexAssumption`: sessions are finitely many and ordered like
integers, what a session's files and clocks may say, that a session which has
ended at first has ends in order, that no alteration brings an earlier content
back, and that limits are positive (`core/read.py:58`); and `FirstAreGenuine`: the
sessions that have ended at first are as the collector writes them.

* `AllThatIsSaidIsKept`: `NothingSaidIsLost`. `KnowledgeInv` says of the files read so
  far that each is one that `Fits` its place, and that the parts an index names have
  been read or are wanted; so when nothing more is wanted, what has been read is
  `Complete`, although other files may have changed meanwhile. The rest is about the
  projection of any complete files that pass its checks: what `Gather`, `Aliases`,
  `Unrepeated` and the folds make of the items of each data set holds all words and
  evidence given for a thing (`ProductsAreAnswered`, `EndpointsAreAnswered`), the
  merging of the two data sets on endpoints keeps those of both (`MergeCoversBoth`),
  and `InOrder` loses no record and has no ref twice (`InOrderIsListed`).
* `SearchesFindTheFirst`: `SearchIsComplete`, if every score is a number
  (`ScoresAreNumbers`, as SQLite's rank is). `Leads` says what holds after
  each row of each way to meet a text: the hits are in the order of places, nothing that
  comes before one of them is missing, and they are as many as asked for or
  all that have been looked at. A row keeps this (`RowIsTaken`) if what comes before it is
  just what has been looked at (`BeforeTheRow`). The last way is cut to as many rows as
  are asked for, some of which may be hits already; that these are still enough
  is `RowsFit`: so many different records cannot be among fewer hits.

* `RefusalsHaveACause`: `RefusalIsJustified`. Each step that may refuse has a lemma
  (`ProjectRefuses` to `BuildRefusesNothing`), and what they need is that a rebuild
  which nothing disturbed has read what is there now. For the curated files: the
  projection depends only on the indexes and on the parts they name
  (`AlikeProjected`), and what was read is `Alike` to what is there (`ReadIsAlike`).
  For a session: its manifest and contents are still those on disk (`CalmInv`), so
  neither the second manifest nor the second reading of the events can differ, and
  events that are wrong in the files read so far are wrong in all of them
  (`WrongStart`; this takes the other half of `HasRead`, that the reader refuses
  only then). For the file that the rebuild makes: the rows of whatever is projected
  read back as they were written (`ListedIsReadBack`: aliases and evidence come back
  in their order, `ProjectionInv`), and no session is summarised twice (`TodoInv`:
  what is still to be read has no repeats and nothing that has a summary).

The last three need `CuratedAssumption` besides: the files that the curator has at first
or writes are of the data sets and have items of their types or are missing; which
items, and whether parts and counts agree, is open.

Nothing of this section is only model-checked: the run shows on a small instance
what the theorems state for all.

## 9. Market

Modules: `MarketStore` (file, identity, order), `Market` (writers and a reader),
`MarketProofs`.

`file` is the database, `lock` who is in a write transaction, `writer[w]` the
place of a process in `open_rw` and `append`, `reader` one of `market_projection`.
The three reads of marks and the table list are separate steps, as they are
separate statements outside a transaction; the validation of an existing schema is
one, because the marks it reads are only ever set. Nothing in `src/` appends except
tests, so when a caller appends and retries is external: it has contents to store and
tries with a new id and any offset from UTC until it knows they are there. A
timed-out append leaves everything as it was and may be tried again, a stutter.

| Code | Actions |
|---|---|
| `_connect_rw`, `_preflight_rw_identity` | `Open`, `ReadApplication`, `ReadVersion`, `ReadTablesFirst`, `UseWal` |
| `_bootstrap_or_validate` | `ReadTablesAgain`, `BeginInitialize`, `InitializeSchema`, `ValidateExisting` |
| `append` | `BeginAppend`, `InsertConflicts`, `Insert`, `CommitAppend`, `Told` |
| kill, `busy_timeout` | `Crash`, `TimeOut` |
| `market_projection`, `iter_observations` | `Ask`, `OpenReadOnly`, `Select`, `Fetch`, `Answer` |

Properties: `StoredOnce` (a response is one row, whatever ids and offsets the
retries came with, and what the caller knows to be stored is there);
`AnswersAreOneMoment` (a projection read row by row is that of the rows committed
at one moment since it was asked for, where the row that counts as the latest is
the last by the order the code goes by, that of texts; whether that is the latest in
time is the question of `market_latest`); `ForeignIsUntouched` (no bit of somebody
else's database changes, not even its journal mode); `RefusalIsDue` (a writer is
refused for what the file is or because two made it at once, never for what a kill left);
`EverythingGetsStored` (liveness).

Run: `market` (2 writers with three appends between them, 2 offsets, 6 kinds of
file found, 1 kill or timeout; 706,681 states). The writers share one content, so
their appends conflict. Two instants within one second show the order of texts: a
whole second is written without a fraction and sorts after its own fractions
(`market_latest`, with the same instance and no faults, shows where that leads).
Switching the journal mode is refused not only while another process writes but also
while one merely reads or opens (`Attended`). Fairness: each writer goes on
when it can (weak fairness of `Step`), and nothing else.

Proved, for any number of writers, contents, offsets, files and faults:

* `TypeCorrect` and `ResponsesAreStoredOnce`: ids in the file are below `minted`, only
  the holder of the lock has a row to insert, and the row does not conflict once it is past the check.
* `ForeignFilesAreUntouched`: whoever is past the first check saw no foreign file,
  and files do not become foreign.
* `AnswersAreMoments`: `ReadInv` says that half way through, the rows fetched and
  the rows that remain are those of one moment, none that remains comes before one
  fetched, and what is kept and counted is the projection of those fetched.
* `RefusalsAreDue`: `DueInv` says that who opens a made database goes on finding it
  made, and who opens alone one that is not finds it empty until it has made it itself; so a
  refusal has one of the causes the property allows. It needs `MarksAssumption`:
  a file found with this release's marks has its tables, as marks and tables are
  written in one transaction (`market/store.py`, `_initialize_schema`).

Liveness stays with TLC.

Not modelled: `observations(limit)`, `count` and fingerprints (single reads), the
checks of fields, the parsers of pages; a power cut, which may take acknowledged
rows (WAL with `synchronous=NORMAL`).

## 10. Where the code and its words differ

Three runs end in a violation, of a sentence the repository says of itself:

| Run | What it shows |
|---|---|
| collector_drain | the consumer may leave an event in the queue of a completed session; its docstring says it drains them |
| recording_consistency | records that the collector makes in its normal course are refused as inconsistent with collector semantics. The run shows the shortest case, a request that is redirected and was under way when its session was attached; a redirect into a first-party place and two sessions of one target are in the model and break it as well |
| market_latest | of two observations of one request within one second, the earlier is shown as the latest: a whole second is written without a fraction, and its text sorts after those of its fractions. The head of `market/projection.py` says that the order of texts is that of time |

Six more came up while modelling. Earlier stages of these modules had a run for
most of them; the models contain the behaviour:

* A marked row may be without its file after a power loss: errors of the directory's
  fsync are swallowed, new directories are not fsynced above, and a bundle found in
  place is marked with no fsync at all (`changes/promotion.py:459-499`, `:527`,
  `:549`). `docs/architecture/storage.md:64` says that the outbox prevents a
  divergence of database and files that cannot be recovered from.
* After a lost tail of transactions a replay may make other bundles
  (`changes/state.py:197`); the design says replay recovers.
* Ctrl+C during the closing handshake turns a session that lost evidence into a
  cancelled one, which analyses accept (`collector/runtime.py:438`).
* A sum of 0.40 that ends with the trusted signal gets no link
  (`collector/correlation.py:250`: 0.35 + 0.05 falls short in binary); the design says it does.
* A second upgrade replaces a current database (`current/replay.py:634`);
  `docs/architecture/storage.md:92` says only an older one is replaced.
* Two sessions that start within one second, one of them at the whole second, make
  every later rebuild of the Current State fail: they are replayed in the order of
  their instants and must be listed in that of their texts (`current/replay.py:191`,
  `current/model.py:409`). `current_state` has such sessions.

## 11. What is not modelled, and what comes next

Out of scope: the MCP server, the bot and the command line (they call one
operation and format its result), discovery and the probes (straight-line I/O),
redaction and fingerprints (functions on strings), the planner, provenance and
experiments (pure functions of one snapshot), the parsing of pages, the
evaluation of the search. `PROJECT.json` has the list with reasons. Liveness
and `ENABLED` are beyond the prover and stay with TLC; of the other properties of
the passing runs, all but `RecordsAreExtractable` are stated by a theorem. The library's induction theorems take
an operator and cannot be used; induction over a set of numbers (`Induction`) takes
their place.

Hazards known and not covered by a property:

* Several first runs that make the detector's database at once (`changes/state.py:280`).
* Errors of `attachToTarget` that end a recording because a tab closed meanwhile
  (`collector/targets.py:167`; the model takes the step, no property judges it).
* A rebuild that listed fewer sessions may commit later (`current/replay.py:682`),
  and overlapping sessions are replayed one after the other (`:189`).
* Two first rebuilds of the Current State, one of which ends with an error
  (`current/state.py:445`; the model takes the steps, and its caller repeats it).
* Requests whose last event never comes, and web sockets, which stay in memory for
  the rest of a session (`collector/network.py:341`).
* Forms of another generation than the endpoints (`ingest/`, section 7).
* The counts of another rebuild in a rebuild's answer (`core/index.py:107`).

Next, in this order: a proof of `RecordsAreExtractable`; opening the detector database;
the composition of a
collector, a detector and an index on one session directory; the planner's
selection and the experiment delta as operators.
