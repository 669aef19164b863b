------------------------------ MODULE MarketStore ------------------------------
(* What a market database holds, and what is read out of it: the schema, the *)
(* identity and the constraints of market/store.py, and the latest           *)
(* observation per request of market/projection.py.                          *)
(*                                                                           *)
(* Instants are integers, Fractions of them to a second.  An observation     *)
(* stands for its row without the columns no constraint or order looks at    *)
(* (evidence, hash of the artifact, payload).                                *)
EXTENDS FiniteSets, Integers

CONSTANTS
  Surface,    \* surfaces of the game that are observed
  Fractions   \* bound: instants told apart within a second

ASSUME MarketStoreAssumption == Fractions \in Nat \ {0}

-----------------------------------------------------------------------------
(* Identity of a file: its application id and user version, both zero in a   *)
(* new file, its tables and its journal mode.                                *)
Unset == 0
ApplicationId == 1
UserVersion == 1
ExpectedTables == {"observation"}

NoFile ==
  [there |-> FALSE, application |-> Unset, version |-> Unset, tables |-> {}, wal |-> FALSE,
   rows |-> {}]

EmptyFile == [NoFile EXCEPT !.there = TRUE]

Tables == {"observation", "other"}

(* A row, and what a file may say of itself, to this release or another's.  *)
Row ==
  [id : Int, surface : Surface, key : STRING, at : Int, sequence : Int, response : STRING]

File ==
  [there : BOOLEAN, application : Int, version : Int, tables : SUBSET Tables,
   wal : BOOLEAN, rows : SUBSET Row]

IsEmpty(seen) == seen.application = Unset /\ seen.version = Unset /\ seen.tables = {}

PreflightAcceptsAnyOwner(seen) ==
  seen.application = Unset => IsEmpty(seen)

(* The check before anything is written: an empty file, or one whose marks   *)
(* are ours.                                                                 *)
PreflightAccepts(seen) ==
  IF seen.application = Unset
  THEN IsEmpty(seen)
  ELSE seen.application = ApplicationId /\ seen.version = UserVersion

InitialisedWithoutVersion(file) ==
  [file EXCEPT !.tables = ExpectedTables, !.application = ApplicationId]

(* The schema and its marks are made by one transaction.                     *)
Initialised(file) ==
  [file EXCEPT !.tables = ExpectedTables, !.application = ApplicationId,
               !.version = UserVersion]

Validates(file) ==
  /\ file.wal
  /\ file.application = ApplicationId
  /\ file.version = UserVersion
  /\ file.tables = ExpectedTables

-----------------------------------------------------------------------------
(* captured_at is given with an offset and kept in UTC.                      *)
CanonicalUnshifted(given) == given.clock

Canonical(given) == given.clock - given.offset

(* Whole seconds are written without a fraction, and "Z" comes after ".":    *)
(* the text of a whole second comes after the ones of its fractions.         *)
TextRank(at) == IF at % Fractions = 0 THEN at + Fractions - 1 ELSE at - 1

Observation(id, content, given) ==
  [id |-> id, surface |-> content.surface, key |-> content.key, at |-> Canonical(given),
   sequence |-> content.sequence, response |-> content.response]

(* The unique index: what was answered to which request, and when.           *)
ContentOf(row) == <<row.surface, row.key, row.at, row.response>>

Conflicts(rows, new) ==
  \E row \in rows : row.id = new.id \/ ContentOf(row) = ContentOf(new)

(* ORDER BY captured_at, source_sequence, observation_id.                    *)
After(r, s) ==
  \/ TextRank(r.at) > TextRank(s.at)
  \/ r.at = s.at /\ r.sequence > s.sequence
  \/ r.at = s.at /\ r.sequence = s.sequence /\ r.id > s.id

Everything == "every surface"

Matching(rows, surface) == {row \in rows : surface \in {Everything, row.surface}}

SameRequest(r, s) == r.surface = s.surface /\ r.key = s.key

(* build_market_projection, one record at a time: latest[key] is replaced by *)
(* a record that comes after it.                                             *)
Replace(latest, record) ==
  IF \E known \in latest : SameRequest(known, record) /\ ~After(record, known)
  THEN latest
  ELSE {known \in latest : ~SameRequest(known, record)} \cup {record}

=============================================================================
