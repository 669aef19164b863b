--------------------------------- MODULE Market ---------------------------------
(* Processes that share one market database: writers that open it (the       *)
(* first of them makes it), append observations and are killed or find it    *)
(* busy, and a reader that asks for the market projection: MarketStore       *)
(* (market/store.py), build_market_projection (market/projection.py) and     *)
(* market_projection (core/market.py).                                       *)
(*                                                                           *)
(* Reads outside a transaction see what is committed by then; a transaction  *)
(* holds the lock from BEGIN IMMEDIATE to COMMIT or ROLLBACK; a statement    *)
(* that streams rows sees those committed when it started.                   *)
EXTENDS MarketStore

CONSTANTS
  Writer,        \* processes that append
  Content,       \* what is observed: a response to a request at an instant
  Work,          \* the contents each writer has to append
  Asked,         \* bound: surfaces the projection is asked for
  Offset,        \* offsets from UTC the instants are given with
  Existing,      \* what may be on disk at first
  MaxFaults,     \* bound: writers killed, waits for the lock that time out
  Nobody         \* the lock is free

ASSUME MarketAssumption ==
  /\ Nobody \notin Writer
  /\ Content \subseteq [surface : Surface, key : STRING, at : Nat, sequence : Nat, response : STRING]
  /\ Work \in [Writer -> SUBSET Content]
  /\ Existing \subseteq File
  /\ \A f \in Existing : f.there \/ IsEmpty(f)
  /\ \A f \in Existing : \A r \in f.rows :
       /\ r.id <= 0
       /\ \A s \in f.rows : r.id = s.id \/ ContentOf(r) = ContentOf(s) => r = s
  /\ Asked \subseteq Surface \cup {Everything}
  /\ Offset \subseteq Int
  /\ MaxFaults \in Nat

(* The marks are made in the transaction that makes the tables: a file that  *)
(* has the marks of this release at first has its tables.                    *)
ASSUME MarksAssumption ==
  \A f \in Existing :
    f.application = ApplicationId /\ f.version = UserVersion => f.tables = ExpectedTables

VARIABLES
  file,     \* market/market.sqlite3
  lock,     \* who is in a write transaction
  writer,   \* local state of each writer
  reader,   \* local state of the reader
  minted,   \* observation ids given so far
  faults

vars == <<file, lock, writer, reader, minted, faults>>

-----------------------------------------------------------------------------
Foreign(f) ==
  /\ f.there /\ ~IsEmpty(f)
  /\ ~(f.application = ApplicationId /\ f.version = UserVersion)

Kind == IF Foreign(file) THEN "foreign" ELSE IF Validates(file) THEN "made" ELSE "neither"

Closed(left) ==
  [pc |-> "closed", round |-> "preflight", seen |-> NoFile, left |-> left, new |-> {},
   result |-> "none",
   began |-> "none",   \* history: the kind of file when the opening began
   alone |-> FALSE]    \* history: nobody else was opening it meanwhile

Idle ==
  [pc |-> "idle", surface |-> Everything, rows |-> {}, latest |-> {}, count |-> 0,
   result |-> "none",
   began |-> FALSE,    \* history: the database was made when it was asked
   moments |-> {}]     \* history: rows committed at each moment since

Init ==
  /\ file \in Existing
  /\ lock = Nobody
  /\ writer = [w \in Writer |-> Closed(Work[w])]
  /\ reader = Idle
  /\ minted = 0 /\ faults = 0

Kinds == {"foreign", "made", "neither"}

Opening == {"application", "version", "tables", "journal", "initialize", "create", "validate"}

Places == Opening \cup {"closed", "open", "insert", "commit", "told"}

Results == {"none", "incompatible", "failed", "busy"}

WriterState ==
  [pc : Places, round : {"preflight", "bootstrap"}, seen : File, left : SUBSET Content,
   new : SUBSET [content : Content, row : Row], result : Results,
   began : Kinds \cup {"none"}, alone : BOOLEAN]

ReaderState ==
  [pc : {"idle", "validate", "select", "fetch", "told"}, surface : Surface \cup {Everything},
   rows : SUBSET Row, latest : SUBSET Row, count : Nat,
   result : {"none", "unavailable", "incompatible", "answered"}, began : BOOLEAN,
   moments : SUBSET SUBSET Row]

TypeOK ==
  /\ file \in File
  /\ lock \in Writer \cup {Nobody}
  /\ writer \in [Writer -> WriterState]
  /\ reader \in ReaderState
  /\ minted \in Nat /\ faults \in 0..MaxFaults

(* A writer goes on to another place with the file and the reader as they    *)
(* are.                                                                      *)
Goes(w, place) == writer' = [writer EXCEPT ![w].pc = place]

(* An opening that raises closes its connection, which ends a transaction.   *)
Fails(w, result) ==
  /\ writer' = [writer EXCEPT ![w] = [@ EXCEPT !.pc = "closed", !.seen = NoFile,
                                              !.result = result]]
  /\ lock' = IF lock = w THEN Nobody ELSE lock

-----------------------------------------------------------------------------
(* open_rw.                                                                  *)
Open(w) ==
  /\ writer[w].pc = "closed" /\ writer[w].left # {}
  /\ writer' = [v \in Writer |->
       IF v = w
       THEN [Closed(writer[w].left) EXCEPT !.pc = "application", !.began = Kind,
               !.alone = \A u \in Writer : writer[u].pc \notin Opening]
       ELSE [writer[v] EXCEPT !.alone = FALSE]]
  /\ UNCHANGED <<file, lock, reader, minted, faults>>

(* The first statement makes the file where there is none.                   *)
ReadApplication(w) ==
  /\ writer[w].pc = "application"
  /\ file' = [file EXCEPT !.there = TRUE]
  /\ writer' = [writer EXCEPT ![w] =
                  [@ EXCEPT !.pc = "version", !.seen.application = file.application]]
  /\ UNCHANGED <<lock, reader, minted, faults>>

ReadVersion(w) ==
  /\ writer[w].pc = "version"
  /\ writer' = [writer EXCEPT ![w] =
                  [@ EXCEPT !.pc = "tables", !.seen.version = file.version]]
  /\ UNCHANGED <<file, lock, reader, minted, faults>>

Seen(w) == [writer[w].seen EXCEPT !.tables = file.tables]

ReadTablesFirst(w) ==
  /\ writer[w].pc = "tables" /\ writer[w].round = "preflight"
  /\ IF PreflightAccepts(Seen(w))
     THEN Goes(w, "journal") /\ UNCHANGED lock
     ELSE Fails(w, "incompatible")
  /\ UNCHANGED <<file, reader, minted, faults>>

UseWal(w) ==
  /\ writer[w].pc = "journal"
  /\ file.wal \/ lock = Nobody
  /\ file' = [file EXCEPT !.wal = TRUE]
  /\ writer' = [writer EXCEPT ![w] = [@ EXCEPT !.pc = "application", !.round = "bootstrap"]]
  /\ UNCHANGED <<lock, reader, minted, faults>>

ReadTablesAgain(w) ==
  /\ writer[w].pc = "tables" /\ writer[w].round = "bootstrap"
  /\ Goes(w, IF IsEmpty(Seen(w)) THEN "initialize" ELSE "validate")
  /\ UNCHANGED <<file, lock, reader, minted, faults>>

BeginInitialize(w) ==
  /\ writer[w].pc = "initialize" /\ lock = Nobody
  /\ lock' = w
  /\ Goes(w, "create")
  /\ UNCHANGED <<file, reader, minted, faults>>

(* CREATE TABLE of a table another process has made meanwhile fails.         *)
InitializeSchema(w) ==
  /\ writer[w].pc = "create"
  /\ IF "observation" \in file.tables
     THEN Fails(w, "failed") /\ UNCHANGED file
     ELSE /\ file' = Initialised(file)
          /\ lock' = Nobody
          /\ Goes(w, "validate")
  /\ UNCHANGED <<reader, minted, faults>>

ValidateExisting(w) ==
  /\ writer[w].pc = "validate"
  /\ IF Validates(file)
     THEN /\ writer' = [writer EXCEPT ![w] = [Closed(@.left) EXCEPT !.pc = "open"]]
          /\ UNCHANGED lock
     ELSE Fails(w, "incompatible")
  /\ UNCHANGED <<file, reader, minted, faults>>

-----------------------------------------------------------------------------
(* append, called with an observation that gets a new id each time.          *)
BeginAppend(w) ==
  /\ writer[w].pc = "open" /\ lock = Nobody
  /\ \E content \in writer[w].left, offset \in Offset :
       writer' = [writer EXCEPT ![w] =
         [@ EXCEPT !.pc = "insert",
            !.new = {[content |-> content,
                      row |-> Observation(minted + 1, content,
                                [clock |-> content.at + offset, offset |-> offset])]}]]
  /\ lock' = w
  /\ minted' = minted + 1
  /\ UNCHANGED <<file, reader, faults>>

Contents(w) == {new.content : new \in writer[w].new}
NewRows(w) == {new.row : new \in writer[w].new}

(* The caller knows that the content is stored.                              *)
GoesOn(w) ==
  writer' = [writer EXCEPT ![w] = [writer[w] EXCEPT !.pc = "open", !.new = {},
                                                    !.left = writer[w].left \ Contents(w)]]

RollbackForgotten(w) == lock' = lock

Rollback(w) == lock' = Nobody

(* MarketStoreConflictError.                                                 *)
InsertConflicts(w) ==
  /\ writer[w].pc = "insert"
  /\ \E row \in NewRows(w) : Conflicts(file.rows, row)
  /\ Rollback(w)
  /\ GoesOn(w)
  /\ UNCHANGED <<file, reader, minted, faults>>

Insert(w) ==
  /\ writer[w].pc = "insert"
  /\ ~ \E row \in NewRows(w) : Conflicts(file.rows, row)
  /\ Goes(w, "commit")
  /\ UNCHANGED <<file, lock, reader, minted, faults>>

CommitAppend(w) ==
  /\ writer[w].pc = "commit"
  /\ file' = [file EXCEPT !.rows = @ \cup NewRows(w)]
  /\ reader' = IF reader.pc \in {"idle", "told"}
               THEN reader
               ELSE [reader EXCEPT !.moments = @ \cup {file'.rows}]
  /\ lock' = Nobody
  /\ Goes(w, "told")
  /\ UNCHANGED <<minted, faults>>

Told(w) ==
  /\ writer[w].pc = "told"
  /\ GoesOn(w)
  /\ UNCHANGED <<file, lock, reader, minted, faults>>

Close(w) ==
  /\ writer[w].pc = "open" /\ writer[w].left = {}
  /\ writer' = [writer EXCEPT ![w] = Closed({})]
  /\ UNCHANGED <<file, lock, reader, minted, faults>>

(* The journal mode is changed alone: nobody else may be reading the marks   *)
(* or changing the mode just then.                                           *)
Attended(w) ==
  \/ reader.pc = "validate"
  \/ \E u \in Writer \ {w} : writer[u].pc \in Opening

(* busy_timeout: five seconds behind another transaction, or a database      *)
(* whose journal mode cannot be changed now.  An append that times out is    *)
(* tried again over the open connection.                                     *)
TimeOut(w) ==
  /\ faults < MaxFaults /\ faults' = faults + 1
  /\ \/ writer[w].pc = "initialize" /\ lock \notin {Nobody, w}
     \/ writer[w].pc = "journal" /\ ~file.wal
        /\ (lock \notin {Nobody, w} \/ Attended(w))
  /\ Fails(w, "busy")
  /\ UNCHANGED <<file, reader, minted>>

Crash(w) ==
  /\ faults < MaxFaults /\ faults' = faults + 1
  /\ writer[w].pc # "closed"
  /\ writer' = [writer EXCEPT ![w] = Closed(@.left)]
  /\ lock' = IF lock = w THEN Nobody ELSE lock
  /\ UNCHANGED <<file, reader, minted>>

-----------------------------------------------------------------------------
(* market_projection: open_read_only_if_exists, then the rows one by one.    *)
Ask ==
  /\ reader.pc = "idle"
  /\ \E surface \in Asked :
       reader' = [Idle EXCEPT
         !.pc = IF file.there THEN "validate" ELSE "told",
         !.result = IF file.there THEN "none" ELSE "unavailable",
         !.surface = surface, !.began = Validates(file), !.moments = {file.rows}]
  /\ UNCHANGED <<file, lock, writer, minted, faults>>

OpenReadOnly ==
  /\ reader.pc = "validate"
  /\ reader' = IF Validates(file)
               THEN [reader EXCEPT !.pc = "select"]
               ELSE [reader EXCEPT !.pc = "told", !.result = "incompatible"]
  /\ UNCHANGED <<file, lock, writer, minted, faults>>

Select ==
  /\ reader.pc = "select"
  /\ reader' = [reader EXCEPT !.pc = "fetch", !.rows = Matching(file.rows, reader.surface)]
  /\ UNCHANGED <<file, lock, writer, minted, faults>>

RemainingNow ==
  LET rows == Matching(file.rows, reader.surface)
  IN {row \in rows : Cardinality({r \in rows : After(row, r)}) >= reader.count}

(* What the cursor still has to return.                                      *)
Remaining == reader.rows

Fetch ==
  /\ reader.pc = "fetch"
  /\ \E row \in Remaining :
       /\ \A other \in Remaining \ {row} : After(other, row)
       /\ reader' = [reader EXCEPT !.rows = Remaining \ {row}, !.count = @ + 1,
                                   !.latest = Replace(@, row)]
  /\ UNCHANGED <<file, lock, writer, minted, faults>>

Answer ==
  /\ reader.pc = "fetch" /\ Remaining = {}
  /\ reader' = [reader EXCEPT !.pc = "told", !.result = "answered"]
  /\ UNCHANGED <<file, lock, writer, minted, faults>>

Finish ==
  /\ reader.pc = "told"
  /\ reader' = Idle
  /\ UNCHANGED <<file, lock, writer, minted, faults>>

-----------------------------------------------------------------------------
Step(w) ==
  \/ Open(w) \/ ReadApplication(w) \/ ReadVersion(w) \/ ReadTablesFirst(w) \/ UseWal(w)
  \/ ReadTablesAgain(w) \/ BeginInitialize(w) \/ InitializeSchema(w) \/ ValidateExisting(w)
  \/ BeginAppend(w) \/ InsertConflicts(w) \/ Insert(w) \/ CommitAppend(w) \/ Told(w)
  \/ Close(w)

Read == Ask \/ OpenReadOnly \/ Select \/ Fetch \/ Answer \/ Finish

Next == Read \/ \E w \in Writer : Step(w) \/ TimeOut(w) \/ Crash(w)

(* A writer that can go on does; nobody holds the lock for ever.             *)
Fairness == \A w \in Writer : WF_vars(Step(w))

Spec == Init /\ [][Next]_vars /\ Fairness

-----------------------------------------------------------------------------
Stored(content) == \E row \in file.rows : ContentOf(row) = ContentOf(content)

(* However often a writer is killed between the commit and the caller's      *)
(* knowing, and whatever id and offset the retry comes with, a response is   *)
(* stored once: no two rows have the same content, and nothing the caller    *)
(* was told of is missing (append).                                          *)
StoredOnce ==
  /\ \A r, s \in file.rows : r.id = s.id \/ ContentOf(r) = ContentOf(s) => r = s
  /\ \A w \in Writer : \A content \in Work[w] \ writer[w].left : Stored(content)

(* The row that comes last for each request of some set of rows, in the      *)
(* order of their texts that the code goes by, and the number of rows.       *)
IsProjection(latest, count, rows) ==
  /\ count = Cardinality(rows)
  /\ latest = {r \in rows : \A s \in rows : SameRequest(r, s) /\ r # s => After(r, s)}

(* An answer read row by row while others append is the projection of what   *)
(* was committed at one moment since it was asked for (iter_observations).   *)
(* Which row of a moment comes last, by the order the code goes by, is not   *)
(* in question here; LatestIsByTime is about that.                           *)
AnswersAreOneMoment ==
  reader.result = "answered" =>
    \E rows \in reader.moments :
      IsProjection(reader.latest, reader.count, Matching(rows, reader.surface))

(* What the head of projection.py says: of what is stored of a request, the  *)
(* answer is the most recent, as the order of the texts is that of time.     *)
LatestIsByTime ==
  reader.result = "answered" =>
    \E rows \in reader.moments :
      \A r \in reader.latest, s \in Matching(rows, reader.surface) :
        SameRequest(r, s) => s.at <= r.at

(* A database that somebody else made, or another release, is refused before *)
(* anything in it is changed, its journal mode included (_connect_rw).       *)
ForeignIsUntouched == [][Foreign(file) => UNCHANGED file]_vars

(* An opening is refused for what the file is or because two writers make it *)
(* at once, never for what a writer killed half way has left behind: alone,  *)
(* or over a database that is made, it succeeds (_bootstrap_or_validate).    *)
RefusalIsDue ==
  /\ \A w \in Writer :
       writer[w].result \in {"incompatible", "failed"} =>
         \/ writer[w].began = "foreign"
         \/ writer[w].began = "neither" /\ ~writer[w].alone
  /\ reader.result = "incompatible" => ~reader.began

(* Whoever is killed when, everything to be appended is in the database one  *)
(* day, unless the database is somebody else's.                              *)
EverythingGetsStored ==
  ~Foreign(file) =>
    <>(\A w \in Writer : \A content \in Work[w] : Stored(content))

=============================================================================
