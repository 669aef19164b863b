----------------------------- MODULE Collector ------------------------------
(* One collector session: run_collection, _consume_events and the event      *)
(* pipeline (collector/runtime.py) over the connection of module Cdp, the    *)
(* commands of TargetOrchestrator (collector/targets.py) and SessionWriter   *)
(* (collector/storage.py).                                                   *)
(*                                                                           *)
(* Three tasks share one event loop: the main task, which connects, attaches *)
(* to the open tabs and later finalizes the session; the receiver; and the   *)
(* consumer.  Only the main task, before it starts the consumer, and then    *)
(* the consumer issue commands, so `at` is the place of whichever does.      *)
EXTENDS Cdp

CONSTANTS Main, FlushEvery

ASSUME CollectorAssumption ==
  /\ Caller = {Main}
  /\ Kind = {"observe", "foreign", "body", "attach"}
  /\ FlushEvery \in Nat \ {0}

VARIABLES
  phase,     \* how far run_collection has come
  at,        \* where the task that issues commands and takes events is
  sequence,  \* EventSequencer._value
  log,       \* records given to append_event, in order
  file,      \* whole records on disk, and whether a torn line follows them
  manifest,  \* the manifest on disk
  failing,   \* a task of the group, or the task group's body, has raised
  interrupt, \* Ctrl+C: "no", "asked" (cancellation under way) or "served"
  outcome    \* what leaves the task group: "none", "cancelled" or "failed"

own == <<phase, at, sequence, log, file, manifest, failing, interrupt, outcome>>

vars == <<cdpVars, own>>

-----------------------------------------------------------------------------
Phases == {"prepare", "connect", "bootstrap", "collect", "disconnect", "flush", "seal", "over"}

Places == {"none", "list", "attach", "configure", "waiting", "late", "body",
           "ended", "failed", "cancelled"}

Record == [seq: Nat, event: Nat, what: {"event", "body", "link"}]

InGroup == phase \in {"bootstrap", "collect"}

Asking == at \in {"list", "attach", "configure", "body"}

(* Bound: commands are left for the events still to come.                    *)
Room == nextId + MaxEvents - taken <= MaxCommands

(* The manifest is on disk with status "running" before anything else.       *)
Init ==
  /\ CdpInit
  /\ phase = "prepare" /\ at = "none"
  /\ sequence = 0
  /\ log = <<>>
  /\ file = [whole |-> 0, torn |-> FALSE]
  /\ manifest = [status |-> "running", listed |-> FALSE]
  /\ failing = FALSE /\ interrupt = "no" /\ outcome = "none"

-----------------------------------------------------------------------------
(* Recording.  The handler of one event makes its records without giving     *)
(* way: each takes a sequence number when it is normalized and is then given *)
(* to the writer, which flushes after every FlushEvery records.              *)

RecordsOf(event, whats) ==
  [k \in 1..Len(whats) |-> [seq |-> sequence + k - 1, event |-> event, what |-> whats[k]]]

Flushed(n) == (n \div FlushEvery) * FlushEvery

(* The first record opens the file and lists it in the manifest.             *)
Write(event, whats) ==
  /\ sequence' = sequence + Len(whats)
  /\ log' = log \o RecordsOf(event, whats)
  /\ file' = [file EXCEPT !.whole = IF Flushed(Len(log')) > @ THEN Flushed(Len(log')) ELSE @]
  /\ manifest' = [manifest EXCEPT !.listed = TRUE]

(* The disk refuses the file or the manifest that lists it, the k-th record, *)
(* or the flush after it.                                                    *)
WriteFails(event, whats) ==
  /\ \E k \in 1..Len(whats), kept \in 0..1 :
       /\ sequence' = sequence + k
       /\ log' = log \o SubSeq(RecordsOf(event, whats), 1, k - 1 + kept)
  /\ \E listed \in {manifest.listed, TRUE} :
       /\ log' # <<>> => listed
       /\ manifest' = [manifest EXCEPT !.listed = listed]
  /\ UNCHANGED file

Raises == failing' = TRUE /\ at' = "failed"

(* What the handler of an event records, on a disk that may fail.            *)
Records(event, whats) ==
  /\ \/ Write(event, whats) /\ at' = "waiting" /\ UNCHANGED failing
     \/ WriteFails(event, whats) /\ Raises
  /\ UNCHANGED <<phase, interrupt, outcome>>

NoRecord == UNCHANGED <<phase, sequence, log, file, manifest, interrupt, outcome>>

-----------------------------------------------------------------------------
(* run_collection up to the task group.                                      *)

(* The protocol artifact and the manifest that names it are written.         *)
Prepare ==
  /\ phase = "prepare"
  /\ phase' = "connect"
  /\ UNCHANGED <<cdpVars, at, sequence, log, file, manifest, failing, interrupt, outcome>>

(* Outside the try: nothing finalizes the session.                           *)
PrepareFails ==
  /\ phase = "prepare"
  /\ phase' = "over"
  /\ UNCHANGED <<cdpVars, at, sequence, log, file, manifest, failing, interrupt, outcome>>

Connect ==
  /\ phase = "connect" /\ interrupt = "no"
  /\ phase' = "bootstrap" /\ at' = "list"
  /\ UNCHANGED <<cdpVars, sequence, log, file, manifest, failing, interrupt, outcome>>

ConnectFails ==
  /\ phase = "connect"
  /\ \/ interrupt = "asked" /\ interrupt' = "served" /\ outcome' = "cancelled"
     \/ outcome' = "failed" /\ UNCHANGED interrupt
  /\ phase' = "flush"
  /\ UNCHANGED <<cdpVars, at, sequence, log, file, manifest, failing>>

-----------------------------------------------------------------------------
(* The connection, while the task group runs.                                *)

Browser ==
  /\ InGroup
  /\ \/ \E id \in asked, what \in {"result", "error"} : Answer(id, what)
     \/ \E kind \in Kind : Arrive(kind)
     \/ ReceiverStops("ended")
  /\ UNCHANGED own

ReceiverFails ==
  /\ InGroup
  /\ ReceiverStops("failed") \/ Overflow
  /\ failing' = TRUE
  /\ UNCHANGED <<phase, at, sequence, log, file, manifest, interrupt, outcome>>

Issue ==
  /\ InGroup /\ Asking
  /\ Command(Main) \/ Register(Main) \/ Sent(Main)
  /\ UNCHANGED own

-----------------------------------------------------------------------------
(* TargetOrchestrator: the tabs found at the start and, later, the tabs the  *)
(* browser tells of are attached and configured.  An error is tolerated for  *)
(* the commands that configure a session, and only there.                    *)

ListReturns(result) ==
  /\ at = "list" /\ result = "result"
  /\ \/ at' \in {"list", "attach"} /\ Room /\ UNCHANGED phase
     \/ at' = "waiting" /\ phase' = "collect"

(* The next tab, the start of the consumer, or the consumer's next event.    *)
Settles ==
  \/ phase = "bootstrap" /\ at' = "attach" /\ Room /\ UNCHANGED phase
  \/ phase = "bootstrap" /\ at' = "waiting" /\ phase' = "collect"
  \/ phase = "collect" /\ at' = "waiting" /\ UNCHANGED phase

AttachReturns(result) ==
  /\ at = "attach" /\ result = "result"
  /\ \/ at' = "configure" /\ Room /\ UNCHANGED phase
     \/ Settles

ConfigureReturns(result) ==
  /\ at = "configure" /\ result \in {"result", "error"}
  /\ \/ at' = "configure" /\ Room /\ UNCHANGED phase
     \/ Settles

Orchestrate(result) ==
  /\ InGroup /\ Returns(Main, result)
  /\ ListReturns(result) \/ AttachReturns(result) \/ ConfigureReturns(result)
  /\ UNCHANGED <<sequence, log, file, manifest, failing, interrupt, outcome>>

(* An answer may be of no use either: a list cannot be had from this browser *)
(* (found out before the command or after the one before it), or a session   *)
(* was attached without an id.                                               *)
Intolerable(result) ==
  \/ at \in {"list", "attach"}
  \/ at = "configure" /\ result \notin {"result", "error"}
  \/ at = "body" /\ result = "broken"

CommandRaises(result) ==
  /\ InGroup /\ Returns(Main, result)
  /\ Intolerable(result)
  /\ Raises /\ NoRecord

-----------------------------------------------------------------------------
(* _consume_events and the pipeline.                                         *)

Upcoming == arrived[taken + 1]

(* Mutant: a request of another host takes a sequence number. *)
TakeForeignNumbered ==
  /\ phase = "collect" /\ at = "waiting" /\ Queued > 0 /\ Upcoming = "foreign"
  /\ TakeEvent
  /\ sequence' = sequence + 1
  /\ UNCHANGED <<phase, at, log, file, manifest, failing, interrupt, outcome>>

(* Traffic that is not first-party is dropped by the normalizers.            *)
TakeForeign ==
  /\ phase = "collect" /\ at = "waiting" /\ Queued > 0 /\ Upcoming = "foreign"
  /\ TakeEvent
  /\ UNCHANGED own

(* A first-party event, perhaps with the link the correlator makes of it.    *)
TakeObserved ==
  /\ phase = "collect" /\ at = "waiting" /\ Queued > 0 /\ Upcoming = "observe"
  /\ TakeEvent
  /\ \E whats \in {<<"event">>, <<"event", "link">>} : Records(taken + 1, whats)

(* loadingFinished of a body to capture, or a tab to attach.                 *)
TakeCommanding ==
  /\ phase = "collect" /\ at = "waiting" /\ Queued > 0 /\ Upcoming \in {"body", "attach"}
  /\ TakeEvent
  /\ at' = Upcoming
  /\ NoRecord /\ UNCHANGED failing

(* Mutant: without the body the finished request is not recorded either. *)
BodyReturnsOrNothing(result) ==
  /\ InGroup /\ at = "body" /\ Returns(Main, result)
  /\ \/ result = "result" /\ Records(taken, <<"body", "event">>)
     \/ result \in {"error", "timeout", "closed"} /\ at' = "waiting" /\ NoRecord /\ UNCHANGED failing

(* getResponseBody returns, or fails with a CdpError that becomes a warning. *)
BodyReturns(result) ==
  /\ InGroup /\ at = "body" /\ Returns(Main, result)
  /\ \/ result = "result" /\ Records(taken, <<"body", "event">>)
     \/ result \in {"result", "error", "timeout", "closed"} /\ Records(taken, <<"event">>)

(* wait_for's timer fires while the queue is empty ...                       *)
TimerFires ==
  /\ phase = "collect" /\ at = "waiting" /\ Queued = 0
  /\ at' = "late"
  /\ NoRecord /\ UNCHANGED <<cdpVars, failing>>

(* Mutant: the consumer never looks whether the connection is closed. *)
AfterTimerForever ==
  /\ phase = "collect" /\ at = "late"
  /\ at' = "waiting"
  /\ NoRecord /\ UNCHANGED <<cdpVars, failing>>

(* ... and what the consumer does when it runs again.                        *)
AfterTimer ==
  /\ phase = "collect" /\ at = "late"
  /\ at' = IF Closed THEN "ended" ELSE "waiting"
  /\ NoRecord /\ UNCHANGED <<cdpVars, failing>>

-----------------------------------------------------------------------------
(* Ending.                                                                   *)

(* Ctrl+C cancels the main task at its next await; there is none after the   *)
(* transport is closed.                                                      *)
Interrupt ==
  /\ interrupt = "no" /\ phase \in {"prepare", "connect", "bootstrap", "collect", "disconnect"}
  /\ interrupt' = "asked"
  /\ UNCHANGED <<cdpVars, phase, at, sequence, log, file, manifest, failing, outcome>>

Over(place) == place \in {"ended", "failed", "cancelled"}

(* Failure or cancellation makes the group cancel its tasks, one by one.     *)
CancelReceiver ==
  /\ InGroup /\ (failing \/ interrupt = "asked")
  /\ ReceiverStops("cancelled")
  /\ UNCHANGED own

CancelConsumer ==
  /\ InGroup /\ (failing \/ interrupt = "asked") /\ ~Over(at)
  /\ at' = "cancelled"
  /\ \/ CancelCall(Main)
     \/ call[Main].pc = "idle" /\ UNCHANGED cdpVars
  /\ UNCHANGED <<phase, sequence, log, file, manifest, failing, interrupt, outcome>>

(* TaskGroup.__aexit__: errors win over the cancellation of the main task.   *)
LeaveGroup ==
  /\ InGroup /\ Closed /\ Over(at)
  /\ outcome' = CASE failing -> "failed" [] interrupt = "asked" -> "cancelled" [] OTHER -> "none"
  /\ interrupt' = IF interrupt = "asked" THEN "served" ELSE interrupt
  /\ phase' = "disconnect"
  /\ UNCHANGED <<cdpVars, at, sequence, log, file, manifest, failing>>

(* The transport is closed; an exception raised there replaces the outcome.  *)
Disconnect ==
  /\ phase = "disconnect"
  /\ \/ interrupt # "asked" /\ UNCHANGED <<interrupt, outcome>>
     \/ interrupt # "asked" /\ outcome' = "failed" /\ UNCHANGED interrupt
     \/ interrupt = "asked" /\ interrupt' = "served" /\ outcome' = "cancelled"
  /\ phase' = "flush"
  /\ UNCHANGED <<cdpVars, at, sequence, log, file, manifest, failing>>

(* finalize: flush and fsync, then the manifest, atomically.                 *)
Flush ==
  /\ phase = "flush"
  /\ file' = [file EXCEPT !.whole = Len(log)]
  /\ phase' = "seal"
  /\ UNCHANGED <<cdpVars, at, sequence, log, manifest, failing, interrupt, outcome>>

Status == IF outcome = "none" THEN "completed" ELSE outcome

(* Mutant: the manifest is written before the file is flushed. *)
SealFirst ==
  /\ phase \in {"flush", "seal"}
  /\ manifest' = [manifest EXCEPT !.status = Status]
  /\ phase' = "over"
  /\ UNCHANGED <<cdpVars, at, sequence, log, file, failing, interrupt, outcome>>

Seal ==
  /\ phase = "seal"
  /\ manifest' = [manifest EXCEPT !.status = Status]
  /\ phase' = "over"
  /\ UNCHANGED <<cdpVars, at, sequence, log, file, failing, interrupt, outcome>>

(* The process is gone, killed or because finalize could not write; of what  *)
(* was buffered any part may have reached the disk.                          *)
Dies ==
  /\ phase # "over"
  /\ \E n \in file.whole..Len(log), torn \in BOOLEAN :
       /\ torn => n < Len(log)
       /\ file' = [whole |-> n, torn |-> torn]
  /\ phase' = "over"
  /\ UNCHANGED <<cdpVars, at, sequence, log, manifest, failing, interrupt, outcome>>

-----------------------------------------------------------------------------
(* The task that issues commands and takes events.                           *)
Work ==
  \/ Issue \/ TakeForeign \/ TakeObserved \/ TakeCommanding \/ TimerFires \/ AfterTimer
  \/ \E result \in Outcomes : Orchestrate(result) \/ CommandRaises(result) \/ BodyReturns(result)

(* The event loop delivers cancellations.                                    *)
Abort == CancelReceiver \/ CancelConsumer

(* The main task before and after the group.                                 *)
MainStep ==
  \/ Prepare \/ Connect \/ ConnectFails \/ LeaveGroup \/ Disconnect \/ Flush \/ Seal

Next ==
  \/ Work \/ Abort \/ MainStep
  \/ Browser \/ ReceiverFails \/ PrepareFails \/ Interrupt \/ Dies

Spec == Init /\ [][Next]_vars

(* The loop runs every task that is ready, timers fire, and the transport    *)
(* takes what is sent or reports that it is closed.                          *)
FairSpec == Spec /\ WF_vars(Work) /\ WF_vars(Abort) /\ WF_vars(MainStep)

-----------------------------------------------------------------------------
(* The shape of the session's state, with that of its connection: no torn    *)
(* line while the process lives, calls only where commands are issued.       *)
TypeOK ==
  /\ CdpTypeOK
  /\ phase \in Phases /\ at \in Places
  /\ sequence \in Nat /\ log \in Seq(Record) /\ Len(log) <= sequence
  /\ file.whole \in 0..Len(log) /\ file.torn \in BOOLEAN
  /\ file.torn => phase = "over"
  /\ manifest \in [status: {"running", "completed", "cancelled", "failed"}, listed: BOOLEAN]
  /\ failing \in BOOLEAN
  /\ interrupt \in {"no", "asked", "served"} /\ outcome \in {"none", "cancelled", "failed"}
  /\ call[Main].pc # "idle" /\ phase # "over" => Asking /\ InGroup

Analysable == manifest.status \in {"completed", "cancelled"}

(* A session that analyses accept has every record it made on disk, none of  *)
(* them torn, numbered contiguously from zero, wherever it was interrupted.  *)
AnalysableIsWhole ==
  Analysable =>
    /\ file.whole = Len(log) /\ ~file.torn
    /\ \A k \in 1..Len(log) : log[k].seq = k - 1

(* Records on disk are in a file the manifest names, also after a kill.      *)
WrittenIsListed == file.whole > 0 \/ file.torn => manifest.listed

RecordsFor(i, what) == {k \in 1..Len(log) : log[k].event = i /\ log[k].what = what}

(* The event being handled, when a command for it is under way or was        *)
(* cancelled.                                                                *)
Unfinished(i) == i = taken /\ at \in {"body", "cancelled"}

(* While no task has failed, every first-party event taken has exactly one   *)
(* record, in the order of arrival, whatever became of its body.             *)
TakenIsRecorded ==
  ~failing =>
    /\ \A i \in 1..taken :
         arrived[i] \in {"observe", "body"} /\ ~Unfinished(i)
           => \E k \in RecordsFor(i, "event") : RecordsFor(i, "event") = {k}
    /\ \A j, k \in 1..Len(log) : j < k => log[j].event <= log[k].event

(* And a session that completed dropped nothing the browser sent, and        *)
(* nothing it numbered.                                                      *)
NothingIsLost ==
  /\ TakenIsRecorded
  /\ manifest.status = "completed" => offered = Len(arrived) /\ sequence = Len(log)

Archive == INSTANCE SessionArchive WITH
             made <- log, shown <- file.whole,
             verdict <- IF manifest.status = "running" THEN "open" ELSE manifest.status

(* The events file and the manifest implement the abstract archive: a prefix *)
(* that only grows, one verdict, given after the last record is on disk.     *)
ImplementsArchive == Archive!ArchiveSpec

(* A closed connection or Ctrl+C ends the session, whatever was being waited *)
(* for: an event, an answer, the send lock or the transport.                 *)
SessionEnds == (Closed \/ interrupt = "asked") ~> phase = "over"

(* "Drain CDP events until a normally closed transport has no events left"   *)
(* (_consume_events): a completed session has taken every event.             *)
CompletedIsEverything == manifest.status = "completed" => taken = Len(arrived)

=============================================================================
