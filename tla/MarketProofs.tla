----------------------------- MODULE MarketProofs -----------------------------
(* Proofs about Market for any writers, work, offsets, files found at first  *)
(* and number of faults.                                                     *)
EXTENDS Market, FiniteSetTheorems, TLAPS

-----------------------------------------------------------------------------
(* The fixed marks of a database of this release, and what a file is before  *)
(* there is one, are of the right shape.                                     *)
LEMMA ConstantFiles ==
  /\ NoFile \in File
  /\ \A f \in File : Initialised(f) \in File /\ Initialised(f).rows = f.rows
<1>1. NoFile \in File
  BY DEF File, NoFile, Unset
<1>2. ASSUME NEW f \in File
      PROVE  Initialised(f) \in File /\ Initialised(f).rows = f.rows
  <2>1. ExpectedTables \in SUBSET Tables /\ ApplicationId \in Int /\ UserVersion \in Int
    BY DEF ExpectedTables, Tables, ApplicationId, UserVersion
  <2> QED
    BY <2>1 DEF File, Initialised
<1> QED
  BY <1>1, <1>2

LEMMA ClosedIsWriterState ==
  ASSUME NEW left \in SUBSET Content
  PROVE  Closed(left) \in WriterState
  BY ConstantFiles DEF Closed, WriterState, Places, Results

LEMMA KindIsKind == Kind \in Kinds
  BY DEF Kind, Kinds

(* An observation made of a content with any offset has that content: the    *)
(* offset is taken off again.                                                *)
LEMMA ObservationOfContent ==
  ASSUME NEW id \in Nat, NEW content \in Content, NEW offset \in Offset
  PROVE  LET row == Observation(id, content, [clock |-> content.at + offset, offset |-> offset])
         IN row \in Row /\ ContentOf(row) = ContentOf(content)
<1> DEFINE given == [clock |-> content.at + offset, offset |-> offset]
<1>1. /\ content.surface \in Surface /\ content.key \in STRING /\ content.at \in Nat
      /\ content.sequence \in Nat /\ content.response \in STRING /\ offset \in Int
  BY MarketAssumption
<1>2. Canonical(given) = content.at
  BY <1>1 DEF Canonical
<1>3. Observation(id, content, given) =
        [id |-> id, surface |-> content.surface, key |-> content.key, at |-> content.at,
         sequence |-> content.sequence, response |-> content.response]
  BY <1>2 DEF Observation
<1> QED
  BY <1>1, <1>3 DEF Row, ContentOf

(* The initial state has the right shape.                                    *)
LEMMA TypeInit == Init => TypeOK
<1> SUFFICES ASSUME Init PROVE TypeOK
  OBVIOUS
<1>1. writer \in [Writer -> WriterState]
  BY ClosedIsWriterState, MarketAssumption DEF Init
<1>2. reader \in ReaderState
  BY DEF Init, Idle, ReaderState
<1> QED
  BY <1>1, <1>2, MarketAssumption DEF Init, TypeOK

(* Going to another place keeps the rest of the writers' states.             *)
LEMMA GoesKeepsType ==
  ASSUME TypeOK, NEW w \in Writer, NEW place \in Places, Goes(w, place)
  PROVE  writer' \in [Writer -> WriterState]
  BY SMTT(30) DEF TypeOK, Goes, WriterState

(* A writer is given a new state, the others keep theirs.                    *)
LEMMA UpdateKeepsType ==
  ASSUME TypeOK, NEW w \in Writer, NEW state \in WriterState,
         writer' = [writer EXCEPT ![w] = state]
  PROVE  writer' \in [Writer -> WriterState]
  BY DEF TypeOK

(* What a step may change of a writer's state.                               *)
LEMMA ChangedState ==
  ASSUME NEW state \in WriterState, NEW place \in Places
  PROVE  /\ \A seen \in File, result \in Results :
              [state EXCEPT !.pc = place, !.seen = seen, !.result = result] \in WriterState
         /\ \A new \in SUBSET [content : Content, row : Row] :
              [state EXCEPT !.pc = place, !.new = new] \in WriterState
         /\ \A done \in SUBSET Content :
              [state EXCEPT !.pc = place, !.new = {}, !.left = state.left \ done] \in WriterState
         /\ \A round \in {"preflight", "bootstrap"} :
              [state EXCEPT !.pc = place, !.round = round] \in WriterState
         /\ \A mark \in Int :
              /\ [state EXCEPT !.pc = place, !.seen.application = mark] \in WriterState
              /\ [state EXCEPT !.pc = place, !.seen.version = mark] \in WriterState
<1>1. \A seen \in File, result \in Results :
        [state EXCEPT !.pc = place, !.seen = seen, !.result = result] \in WriterState
  BY DEF WriterState
<1>2. \A new \in SUBSET [content : Content, row : Row] :
        [state EXCEPT !.pc = place, !.new = new] \in WriterState
  BY DEF WriterState
<1>3. \A done \in SUBSET Content :
        [state EXCEPT !.pc = place, !.new = {}, !.left = state.left \ done] \in WriterState
  BY DEF WriterState
<1>4. \A round \in {"preflight", "bootstrap"} :
        [state EXCEPT !.pc = place, !.round = round] \in WriterState
  BY DEF WriterState
<1>5. \A mark \in Int :
        /\ [state EXCEPT !.pc = place, !.seen.application = mark] \in WriterState
        /\ [state EXCEPT !.pc = place, !.seen.version = mark] \in WriterState
  <2> TAKE mark \in Int
  <2>1. /\ [state.seen EXCEPT !.application = mark] \in File
        /\ [state.seen EXCEPT !.version = mark] \in File
    BY DEF WriterState, File
  <2>2. \A seen \in File : [state EXCEPT !.pc = place, !.seen = seen] \in WriterState
    BY DEF WriterState
  <2>3. /\ [state EXCEPT !.pc = place, !.seen.application = mark]
             = [state EXCEPT !.pc = place, !.seen = [state.seen EXCEPT !.application = mark]]
        /\ [state EXCEPT !.pc = place, !.seen.version = mark]
             = [state EXCEPT !.pc = place, !.seen = [state.seen EXCEPT !.version = mark]]
    BY DEF WriterState
  <2> QED
    BY <2>1, <2>2, <2>3
<1> QED
  BY <1>1, <1>2, <1>3, <1>4, <1>5

LEMMA FailsKeepsType ==
  ASSUME TypeOK, NEW w \in Writer, NEW result \in Results, Fails(w, result)
  PROVE  writer' \in [Writer -> WriterState] /\ lock' \in Writer \cup {Nobody}
<1> DEFINE state == [writer[w] EXCEPT !.pc = "closed", !.seen = NoFile, !.result = result]
<1>1. state \in WriterState
  BY ConstantFiles, ChangedState DEF TypeOK, Places
<1>2. writer' = [writer EXCEPT ![w] = state]
  BY DEF Fails
<1> QED
  BY <1>1, <1>2, UpdateKeepsType DEF Fails, TypeOK

(* Steps that open the database.                                             *)
LEMMA TypeOpening ==
  ASSUME TypeOK, NEW w \in Writer,
         \/ Open(w) \/ ReadApplication(w) \/ ReadVersion(w) \/ ReadTablesFirst(w)
         \/ UseWal(w) \/ ReadTablesAgain(w) \/ BeginInitialize(w) \/ InitializeSchema(w)
         \/ ValidateExisting(w)
  PROVE  TypeOK'
<1> USE DEF TypeOK
<1>1. CASE Open(w)
  <2>1. \A v \in Writer : writer[v].left \in SUBSET Content /\ writer[v] \in WriterState
    BY DEF WriterState
  <2>2. \A v \in Writer : writer'[v] \in WriterState
    <3> TAKE v \in Writer
    <3>1. CASE v = w
      <4>1. Closed(writer[w].left) \in WriterState
        BY <2>1, ClosedIsWriterState
      <4>2. writer'[w] = [Closed(writer[w].left) EXCEPT !.pc = "application", !.began = Kind,
               !.alone = \A u \in Writer : writer[u].pc \notin Opening]
        BY <1>1 DEF Open
      <4> QED
        BY <4>1, <4>2, <3>1, KindIsKind DEF WriterState, Places, Opening
    <3>2. CASE v # w
      BY <1>1, <2>1, <3>2, ZenonT(60) DEF Open, WriterState
    <3> QED
      BY <3>1, <3>2
  <2> QED
    BY <1>1, <2>2 DEF Open
<1>2. CASE ReadApplication(w)
  <2> DEFINE state == [writer[w] EXCEPT !.pc = "version", !.seen.application = file.application]
  <2>1. state \in WriterState
    BY <1>2, ChangedState DEF ReadApplication, File, Places, Opening
  <2>2. writer' = [writer EXCEPT ![w] = state]
    BY <1>2 DEF ReadApplication
  <2> QED
    BY <1>2, <2>1, <2>2, UpdateKeepsType DEF ReadApplication, File
<1>3. CASE ReadVersion(w)
  <2> DEFINE state == [writer[w] EXCEPT !.pc = "tables", !.seen.version = file.version]
  <2>1. state \in WriterState
    BY <1>3, ChangedState DEF ReadVersion, File, Places, Opening
  <2>2. writer' = [writer EXCEPT ![w] = state]
    BY <1>3 DEF ReadVersion
  <2> QED
    BY <1>3, <2>1, <2>2, UpdateKeepsType DEF ReadVersion
<1>4. CASE ReadTablesFirst(w)
  BY <1>4, GoesKeepsType, FailsKeepsType DEF ReadTablesFirst, Places, Opening, Results
<1>5. CASE UseWal(w)
  <2> DEFINE state == [writer[w] EXCEPT !.pc = "application", !.round = "bootstrap"]
  <2>1. state \in WriterState
    BY <1>5, ChangedState DEF UseWal, Places, Opening
  <2>2. writer' = [writer EXCEPT ![w] = state]
    BY <1>5 DEF UseWal
  <2> QED
    BY <1>5, <2>1, <2>2, UpdateKeepsType DEF UseWal, File
<1>6. CASE ReadTablesAgain(w)
  BY <1>6, GoesKeepsType DEF ReadTablesAgain, Places, Opening
<1>7. CASE BeginInitialize(w)
  BY <1>7, GoesKeepsType DEF BeginInitialize, Places, Opening
<1>8. CASE InitializeSchema(w)
  BY <1>8, GoesKeepsType, FailsKeepsType, ConstantFiles
     DEF InitializeSchema, Places, Opening, Results
<1>9. CASE ValidateExisting(w)
  BY <1>9, ClosedIsWriterState, FailsKeepsType
     DEF ValidateExisting, WriterState, Places, Results
<1> QED
  BY <1>1, <1>2, <1>3, <1>4, <1>5, <1>6, <1>7, <1>8, <1>9

(* What a writer is about to append.                                         *)
LEMMA NewIsRows ==
  ASSUME TypeOK, NEW w \in Writer
  PROVE  NewRows(w) \in SUBSET Row /\ Contents(w) \in SUBSET Content
  BY DEF TypeOK, WriterState, NewRows, Contents

(* Steps that append.                                                        *)
LEMMA TypeAppending ==
  ASSUME TypeOK, NEW w \in Writer,
         \/ BeginAppend(w) \/ InsertConflicts(w) \/ Insert(w) \/ CommitAppend(w)
         \/ Told(w) \/ Close(w)
  PROVE  TypeOK'
<1> USE DEF TypeOK
<1>1. CASE BeginAppend(w)
  <2>1. PICK content \in writer[w].left, offset \in Offset :
       writer' = [writer EXCEPT ![w] =
         [@ EXCEPT !.pc = "insert",
            !.new = {[content |-> content,
                      row |-> Observation(minted + 1, content,
                                [clock |-> content.at + offset, offset |-> offset])]}]]
    BY <1>1 DEF BeginAppend
  <2> DEFINE row == Observation(minted + 1, content,
                                [clock |-> content.at + offset, offset |-> offset])
             new == {[content |-> content, row |-> row]}
             state == [writer[w] EXCEPT !.pc = "insert", !.new = new]
  <2>2. content \in Content /\ minted + 1 \in Nat
    BY DEF WriterState
  <2>3. row \in Row
    BY <2>2, ObservationOfContent
  <2> HIDE DEF row
  <2>4. state \in WriterState
    <3>1. new \in SUBSET [content : Content, row : Row]
      BY <2>2, <2>3
    <3> HIDE DEF new
    <3> QED
      BY <3>1, ChangedState DEF Places
  <2>5. writer' = [writer EXCEPT ![w] = state]
    BY <2>1 DEF row
  <2> QED
    BY <1>1, <2>2, <2>4, <2>5, UpdateKeepsType DEF BeginAppend
<1>2. CASE InsertConflicts(w)
  <2> DEFINE state == [writer[w] EXCEPT !.pc = "open", !.new = {},
                               !.left = writer[w].left \ Contents(w)]
  <2>1. state \in WriterState
    BY <1>2, ChangedState, NewIsRows DEF InsertConflicts, Places
  <2>2. writer' = [writer EXCEPT ![w] = state]
    BY <1>2 DEF InsertConflicts, GoesOn
  <2> QED
    BY <1>2, <2>1, <2>2, UpdateKeepsType DEF InsertConflicts, Rollback
<1>3. CASE Insert(w)
  BY <1>3, GoesKeepsType DEF Insert, Places
<1>4. CASE CommitAppend(w)
  <2>1. file' \in File
    BY <1>4, NewIsRows DEF CommitAppend, File
  <2>2. reader' \in ReaderState
    BY <1>4, <2>1 DEF CommitAppend, ReaderState, File
  <2> QED
    BY <1>4, <2>1, <2>2, GoesKeepsType DEF CommitAppend, Places
<1>5. CASE Told(w)
  <2> DEFINE state == [writer[w] EXCEPT !.pc = "open", !.new = {},
                               !.left = writer[w].left \ Contents(w)]
  <2>1. state \in WriterState
    BY <1>5, ChangedState, NewIsRows DEF Told, Places
  <2>2. writer' = [writer EXCEPT ![w] = state]
    BY <1>5 DEF Told, GoesOn
  <2> QED
    BY <1>5, <2>1, <2>2, UpdateKeepsType DEF Told
<1>6. CASE Close(w)
  BY <1>6, ClosedIsWriterState DEF Close
<1> QED
  BY <1>1, <1>2, <1>3, <1>4, <1>5, <1>6

(* Steps of the reader.                                                      *)
LEMMA TypeReading ==
  ASSUME TypeOK, Read
  PROVE  TypeOK'
<1> USE DEF TypeOK
<1>1. CASE Ask
  <2>1. Asked \subseteq Surface \cup {Everything} /\ file.rows \in SUBSET Row
    BY MarketAssumption DEF File
  <2>2. PICK surface \in Asked :
          reader' = [Idle EXCEPT
            !.pc = IF file.there THEN "validate" ELSE "told",
            !.result = IF file.there THEN "none" ELSE "unavailable",
            !.surface = surface, !.began = Validates(file), !.moments = {file.rows}]
    BY <1>1 DEF Ask
  <2>3. Validates(file) \in BOOLEAN
    BY DEF Validates
  <2>4. reader' \in ReaderState
    BY <2>1, <2>2, <2>3 DEF Idle, ReaderState
  <2> QED
    BY <1>1, <2>4 DEF Ask
<1>2. CASE OpenReadOnly
  BY <1>2 DEF OpenReadOnly, ReaderState
<1>3. CASE Select
  BY <1>3 DEF Select, ReaderState, Matching, File
<1>4. CASE Fetch
  <2>1. PICK row \in Remaining :
          reader' = [reader EXCEPT !.rows = Remaining \ {row}, !.count = @ + 1,
                                   !.latest = Replace(@, row)]
    BY <1>4 DEF Fetch
  <2>2. row \in Row /\ Remaining \in SUBSET Row
    BY DEF Remaining, ReaderState
  <2>3. Replace(reader.latest, row) \in SUBSET Row
    BY <2>2 DEF Replace, ReaderState
  <2>4. reader' \in ReaderState
    <3> DEFINE latest == Replace(reader.latest, row)
    <3> HIDE DEF latest
    <3>1. reader' = [reader EXCEPT !.rows = Remaining \ {row}, !.count = reader.count + 1,
                                   !.latest = latest]
      BY <2>1 DEF latest
    <3>2. latest \in SUBSET Row /\ Remaining \ {row} \in SUBSET Row
      BY <2>2, <2>3 DEF latest
    <3>3. reader.count + 1 \in Nat
      BY DEF ReaderState
    <3> QED
      BY <3>1, <3>2, <3>3 DEF ReaderState
  <2> QED
    BY <1>4, <2>4 DEF Fetch
<1>5. CASE Answer
  BY <1>5 DEF Answer, ReaderState
<1>6. CASE Finish
  BY <1>6 DEF Finish, Idle, ReaderState
<1> QED
  BY <1>1, <1>2, <1>3, <1>4, <1>5, <1>6 DEF Read

(* Every step keeps the shapes.                                              *)
LEMMA TypeStep ==
  ASSUME TypeOK, [Next]_vars
  PROVE  TypeOK'
<1>1. ASSUME NEW w \in Writer, TimeOut(w) PROVE TypeOK'
  <2>1. writer' \in [Writer -> WriterState] /\ lock' \in Writer \cup {Nobody}
    BY <1>1, FailsKeepsType DEF TimeOut, Results
  <2> QED
    BY <1>1, <2>1, MarketAssumption DEF TimeOut, TypeOK
<1>2. ASSUME NEW w \in Writer, Crash(w) PROVE TypeOK'
  <2>1. writer[w].left \in SUBSET Content
    BY DEF TypeOK, WriterState
  <2> QED
    BY <1>2, <2>1, ClosedIsWriterState, MarketAssumption DEF Crash, TypeOK
<1>3. CASE UNCHANGED vars
  BY <1>3 DEF vars, TypeOK
<1> QED
  BY <1>1, <1>2, <1>3, TypeOpening, TypeAppending, TypeReading DEF Next, Step

(* Files, writers and the reader always have the shapes Market gives them.   *)
THEOREM TypeCorrect == Spec => []TypeOK
<1>1. TypeOK /\ [Next]_vars => TypeOK'
  BY TypeStep
<1> QED
  BY <1>1, TypeInit, PTL DEF Spec

-----------------------------------------------------------------------------
(* The inductive invariant for StoredOnce: a row that passed the unique      *)
(* index is committed under the lock it was checked under.                   *)
Distinct == \A r, s \in file.rows : r.id = s.id \/ ContentOf(r) = ContentOf(s) => r = s

Locked(w) == writer[w].pc \in {"create", "insert", "commit"} => lock = w

Fresh(w) ==
  /\ writer[w].pc = "insert" => \A row \in file.rows, new \in NewRows(w) : row.id # new.id
  /\ writer[w].pc = "commit" => \A new \in NewRows(w) : ~Conflicts(file.rows, new)

(* Ids are minted afresh.                                                    *)
Numbered == \A row \in file.rows : row.id <= minted

OneNew(w) ==
  /\ \A n \in writer[w].new : n.row.id <= minted
  /\ \A m, n \in writer[w].new : m = n
  /\ \A n \in writer[w].new : ContentOf(n.row) = ContentOf(n.content)

Written(w) == writer[w].pc = "told" => NewRows(w) \subseteq file.rows

Known(w) == \A content \in Work[w] \ writer[w].left : Stored(content)

AppendInv(w) == Locked(w) /\ Fresh(w) /\ OneNew(w) /\ Written(w) /\ Known(w)

StoreInv == Distinct /\ Numbered /\ \A w \in Writer : AppendInv(w)

LEMMA StoreInit == Init => StoreInv
<1> SUFFICES ASSUME Init PROVE StoreInv
  OBVIOUS
<1>1. Distinct /\ Numbered
  BY MarketAssumption DEF Init, Distinct, Numbered
<1>2. ASSUME NEW w \in Writer PROVE AppendInv(w)
  <2>1. writer[w].pc = "closed" /\ writer[w].new = {} /\ writer[w].left = Work[w]
    BY DEF Init, Closed
  <2> QED
    BY <2>1 DEF AppendInv, Locked, Fresh, OneNew, Written, Known
<1> QED
  BY <1>1, <1>2 DEF StoreInv

(* A writer that keeps its place, and its observation or none, while the     *)
(* rows stay keeps its part of the invariant, unless the lock is taken from it.        *)
LEMMA StandsStill ==
  ASSUME TypeOK, StoreInv, NEW v \in Writer, file'.rows = file.rows, minted' >= minted,
         minted' \in Nat,
         writer'[v].new \in {writer[v].new, {}}, writer'[v].left = writer[v].left,
         \/ writer'[v].pc = writer[v].pc /\ (lock' = lock \/ lock # v)
         \/ writer'[v].pc \notin {"create", "insert", "commit", "told"}
  PROVE  AppendInv(v)'
<1>1. Locked(v)'
  BY DEF StoreInv, AppendInv, Locked
<1>2. Fresh(v)'
  BY DEF StoreInv, AppendInv, Fresh, NewRows, Conflicts
<1>3. OneNew(v)'
  BY DEF StoreInv, AppendInv, OneNew, TypeOK, WriterState, Row
<1>4. Written(v)'
  BY DEF StoreInv, AppendInv, Written, NewRows
<1>5. Known(v)'
  BY DEF StoreInv, AppendInv, Known, Stored
<1> QED
  BY <1>1, <1>2, <1>3, <1>4, <1>5 DEF AppendInv

(* A step of one writer leaves the others where they are, and takes the lock *)
(* from none of them.                                                        *)
LEMMA OthersStandStill ==
  ASSUME TypeOK, StoreInv, NEW w \in Writer, NEW v \in Writer \ {w},
         Step(w) \/ TimeOut(w) \/ Crash(w)
  PROVE  /\ writer'[v].pc = writer[v].pc
         /\ writer'[v].new = writer[v].new
         /\ writer'[v].left = writer[v].left
         /\ lock' = lock \/ lock # v
<1> USE DEF TypeOK
<1>0. writer[w].pc \in {"create", "insert", "commit"} => lock = w
  BY DEF StoreInv, AppendInv, Locked
<1>1. CASE Open(w)
  BY <1>1 DEF Open, WriterState
<1>2. CASE ReadApplication(w) \/ ReadVersion(w) \/ ReadTablesFirst(w) \/ UseWal(w)
  BY <1>2 DEF ReadApplication, ReadVersion, ReadTablesFirst, UseWal, Goes, Fails
<1>3. CASE ReadTablesAgain(w) \/ BeginInitialize(w)
  BY <1>3, MarketAssumption DEF ReadTablesAgain, BeginInitialize, Goes
<1>4. CASE InitializeSchema(w)
  BY <1>0, <1>4 DEF InitializeSchema, Goes, Fails
<1>5. CASE ValidateExisting(w)
  BY <1>5 DEF ValidateExisting, Fails
<1>6. CASE BeginAppend(w)
  BY <1>6, MarketAssumption DEF BeginAppend
<1>7. CASE InsertConflicts(w) \/ CommitAppend(w)
  BY <1>0, <1>7 DEF InsertConflicts, CommitAppend, Goes, GoesOn, Rollback
<1>8. CASE Insert(w) \/ Told(w) \/ Close(w)
  BY <1>8 DEF Insert, Told, Close, Goes, GoesOn
<1>9. CASE TimeOut(w) \/ Crash(w)
  BY <1>9 DEF TimeOut, Crash, Fails
<1> QED
  BY <1>1, <1>2, <1>3, <1>4, <1>5, <1>6, <1>7, <1>8, <1>9 DEF Step

(* Where an opening that fails, and one that succeeds, leaves its writer.    *)
LEMMA FailsStands ==
  ASSUME TypeOK, NEW w \in Writer, NEW result \in Results, Fails(w, result)
  PROVE  /\ writer'[w].pc = "closed" /\ writer'[w].new = writer[w].new
         /\ writer'[w].left = writer[w].left
<1> DEFINE state == writer[w]
<1>1. state \in WriterState /\ w \in DOMAIN writer
  BY DEF TypeOK
<1>2. writer'[w] = [state EXCEPT !.pc = "closed", !.seen = NoFile, !.result = result]
  BY <1>1 DEF Fails
<1> HIDE DEF state
<1>3. /\ writer'[w].pc = "closed" /\ writer'[w].new = state.new
      /\ writer'[w].left = state.left
  BY <1>1, <1>2 DEF WriterState
<1> QED
  BY <1>3 DEF state

LEMMA ClosedStands ==
  ASSUME NEW left
  PROVE  /\ Closed(left).pc = "closed" /\ Closed(left).new = {} /\ Closed(left).left = left
         /\ [Closed(left) EXCEPT !.pc = "open"].pc = "open"
         /\ [Closed(left) EXCEPT !.pc = "open"].new = {}
         /\ [Closed(left) EXCEPT !.pc = "open"].left = left
  BY DEF Closed

(* A step of the opening, a timeout or a kill keeps the rows, and what the   *)
(* writer has left; if the writer has an observation after it, it had it.    *)
LEMMA RestKeepsRows ==
  ASSUME TypeOK, NEW w \in Writer,
         \/ Open(w) \/ ReadApplication(w) \/ ReadVersion(w) \/ ReadTablesFirst(w)
         \/ UseWal(w) \/ ReadTablesAgain(w) \/ BeginInitialize(w) \/ InitializeSchema(w)
         \/ ValidateExisting(w) \/ Close(w) \/ TimeOut(w) \/ Crash(w)
  PROVE  /\ file'.rows = file.rows
         /\ writer'[w].new \in {writer[w].new, {}}
         /\ writer'[w].left = writer[w].left
         /\ writer'[w].pc \in {"create"} => lock' = w
         /\ writer'[w].pc \notin {"insert", "commit", "told"}
<1> USE DEF TypeOK
<1>1. CASE Open(w)
  BY <1>1 DEF Open, Closed, WriterState
<1>2. CASE ReadApplication(w) \/ ReadVersion(w)
  <2> DEFINE state == writer[w]
  <2>1. state \in WriterState /\ file'.rows = file.rows
    BY <1>2 DEF ReadApplication, ReadVersion, File
  <2>2. \/ writer'[w] = [state EXCEPT !.pc = "version", !.seen.application = file.application]
        \/ writer'[w] = [state EXCEPT !.pc = "tables", !.seen.version = file.version]
    BY <1>2 DEF ReadApplication, ReadVersion
  <2> HIDE DEF state
  <2>3. /\ writer'[w].pc \in {"version", "tables"} /\ writer'[w].new = state.new
        /\ writer'[w].left = state.left
    BY <2>1, <2>2 DEF WriterState
  <2> QED
    BY <2>1, <2>3 DEF state
<1>3. CASE ReadTablesFirst(w)
  BY <1>3, ZenonT(60) DEF ReadTablesFirst, Goes, Fails, WriterState
<1>4. CASE UseWal(w)
  BY <1>4 DEF UseWal, File, WriterState
<1>5. CASE ReadTablesAgain(w) \/ BeginInitialize(w)
  BY <1>5 DEF ReadTablesAgain, BeginInitialize, Goes, WriterState
<1>6. CASE InitializeSchema(w)
  <2>1. CASE "observation" \in file.tables
    BY <1>6, <2>1, FailsStands DEF InitializeSchema, Results
  <2>2. CASE "observation" \notin file.tables
    BY <1>6, <2>2, ConstantFiles DEF InitializeSchema, Goes, WriterState
  <2> QED
    BY <2>1, <2>2
<1>7. CASE ValidateExisting(w)
  <2>1. CASE Validates(file)
    <3>1. writer'[w] = [Closed(writer[w].left) EXCEPT !.pc = "open"]
      BY <1>7, <2>1 DEF ValidateExisting
    <3> QED
      BY <1>7, <2>1, <3>1, ClosedStands DEF ValidateExisting
  <2>2. CASE ~Validates(file)
    BY <1>7, <2>2, FailsStands DEF ValidateExisting, Results
  <2> QED
    BY <1>7, <2>1, <2>2 DEF ValidateExisting
<1>8. CASE Close(w)
  BY <1>8 DEF Close, Closed, WriterState
<1>9. CASE TimeOut(w)
  BY <1>9, FailsStands DEF TimeOut, Results
<1>10. CASE Crash(w)
  BY <1>10, ClosedStands DEF Crash
<1> QED
  BY <1>1, <1>2, <1>3, <1>4, <1>5, <1>6, <1>7, <1>8, <1>9, <1>10

(* Opening, closing, a timeout and a kill keep the invariant.                *)
LEMMA RestKeepsStore ==
  ASSUME TypeOK, StoreInv, NEW w \in Writer, Step(w) \/ TimeOut(w) \/ Crash(w),
         \/ Open(w) \/ ReadApplication(w) \/ ReadVersion(w) \/ ReadTablesFirst(w)
         \/ UseWal(w) \/ ReadTablesAgain(w) \/ BeginInitialize(w) \/ InitializeSchema(w)
         \/ ValidateExisting(w) \/ Close(w) \/ TimeOut(w) \/ Crash(w)
  PROVE  StoreInv'
<1>0. minted' = minted
    BY DEF Open, ReadApplication, ReadVersion, ReadTablesFirst, UseWal, ReadTablesAgain,
           BeginInitialize, InitializeSchema, ValidateExisting, Close, TimeOut, Crash
<1>1. Distinct' /\ Numbered'
  BY <1>0, RestKeepsRows DEF StoreInv, Distinct, Numbered
<1>2. AppendInv(w)'
  <2>1. /\ file'.rows = file.rows /\ writer'[w].new \in {writer[w].new, {}}
        /\ writer'[w].left = writer[w].left /\ (writer'[w].pc = "create" => lock' = w)
        /\ writer'[w].pc \notin {"insert", "commit", "told"}
    BY RestKeepsRows
  <2>2. Locked(w)' /\ Fresh(w)' /\ Written(w)'
    BY <2>1 DEF Locked, Fresh, Written
  <2>3. OneNew(w)'
    BY <2>1, <1>0 DEF StoreInv, AppendInv, OneNew
  <2>4. Known(w)'
    BY <2>1 DEF StoreInv, AppendInv, Known, Stored
  <2> QED
    BY <2>2, <2>3, <2>4 DEF AppendInv
<1>3. ASSUME NEW v \in Writer \ {w} PROVE AppendInv(v)'
  BY <1>0, OthersStandStill, RestKeepsRows, StandsStill DEF TypeOK
<1> QED
  BY <1>1, <1>2, <1>3 DEF StoreInv

(* An append that ends, with the content found or told to be there.          *)
LEMMA EndedKeepsStore ==
  ASSUME TypeOK, StoreInv, NEW w \in Writer, InsertConflicts(w) \/ Told(w)
  PROVE  StoreInv'
<1>1. file'.rows = file.rows
  BY DEF InsertConflicts, Told
<1>2. Distinct' /\ Numbered'
  BY <1>1 DEF StoreInv, Distinct, Numbered, InsertConflicts, Told
<1>3. /\ writer'[w].pc = "open" /\ writer'[w].new = {}
      /\ writer'[w].left = writer[w].left \ Contents(w)
  BY DEF InsertConflicts, Told, GoesOn, TypeOK, WriterState
<1>4. \A content \in Contents(w) : Stored(content)
  <2> SUFFICES ASSUME NEW n \in writer[w].new PROVE Stored(n.content)
    BY DEF Contents
  <2>1. ContentOf(n.row) = ContentOf(n.content) /\ n.row \in NewRows(w)
    BY DEF StoreInv, AppendInv, OneNew, NewRows
  <2>2. CASE Told(w)
    BY <2>1, <2>2 DEF Told, StoreInv, AppendInv, Written, Stored
  <2>3. CASE InsertConflicts(w)
    <3>0. \A row \in file.rows : row.id # n.row.id
      BY <2>1, <2>3 DEF InsertConflicts, StoreInv, AppendInv, Fresh
    <3>1. PICK row \in NewRows(w) : Conflicts(file.rows, row)
      BY <2>3 DEF InsertConflicts
    <3>2. row = n.row
      BY <3>1, <2>1 DEF NewRows, StoreInv, AppendInv, OneNew
    <3> QED
      BY <3>0, <3>1, <3>2, <2>1 DEF Conflicts, Stored
  <2> QED
    BY <2>2, <2>3
<1>5. AppendInv(w)'
  <2>1. Locked(w)' /\ Fresh(w)' /\ OneNew(w)' /\ Written(w)'
    BY <1>3 DEF Locked, Fresh, OneNew, Written
  <2>2. Known(w)'
    BY <1>1, <1>3, <1>4 DEF StoreInv, AppendInv, Known, Stored
  <2> QED
    BY <2>1, <2>2 DEF AppendInv
<1>6. ASSUME NEW v \in Writer \ {w} PROVE AppendInv(v)'
  <2>1. minted' = minted
    BY DEF InsertConflicts, Told
  <2> QED
    BY <1>1, <2>1, OthersStandStill, StandsStill DEF Step, TypeOK
<1> QED
  BY <1>2, <1>5, <1>6 DEF StoreInv

(* An append that begins, under the lock, with an observation nobody has.    *)
LEMMA BegunKeepsStore ==
  ASSUME TypeOK, StoreInv, NEW w \in Writer, BeginAppend(w)
  PROVE  StoreInv'
<1>1. PICK content \in writer[w].left, offset \in Offset :
       writer' = [writer EXCEPT ![w] =
         [@ EXCEPT !.pc = "insert",
            !.new = {[content |-> content,
                      row |-> Observation(minted + 1, content,
                                [clock |-> content.at + offset, offset |-> offset])]}]]
  BY DEF BeginAppend
<1> DEFINE row == Observation(minted + 1, content,
                              [clock |-> content.at + offset, offset |-> offset])
           new == {[content |-> content, row |-> row]}
<1>2. content \in Content /\ minted \in Nat
  BY DEF TypeOK, WriterState
<1>3. ContentOf(row) = ContentOf(content) /\ row.id = minted + 1
  BY <1>2, ObservationOfContent DEF Observation
<1>4. /\ writer'[w].pc = "insert" /\ writer'[w].new = new
      /\ writer'[w].left = writer[w].left
  BY <1>1 DEF TypeOK, WriterState
<1> HIDE DEF row
<1>5. file'.rows = file.rows /\ lock' = w /\ minted' = minted + 1
  BY DEF BeginAppend
<1>6. Distinct' /\ Numbered'
  BY <1>2, <1>5 DEF StoreInv, Distinct, Numbered, TypeOK, File, Row
<1>7. AppendInv(w)'
  <2>1. Locked(w)' /\ Written(w)'
    BY <1>4, <1>5 DEF Locked, Written
  <2>2. Fresh(w)'
    BY <1>2, <1>3, <1>4, <1>5 DEF Fresh, NewRows, StoreInv, Numbered, TypeOK, File, Row
  <2>3. OneNew(w)'
    BY <1>2, <1>3, <1>4, <1>5 DEF OneNew
  <2>4. Known(w)'
    BY <1>4, <1>5 DEF StoreInv, AppendInv, Known, Stored
  <2> QED
    BY <2>1, <2>2, <2>3, <2>4 DEF AppendInv
<1>8. ASSUME NEW v \in Writer \ {w} PROVE AppendInv(v)'
  BY <1>2, <1>5, OthersStandStill, StandsStill DEF Step
<1> QED
  BY <1>6, <1>7, <1>8 DEF StoreInv

(* The unique index is checked.                                              *)
LEMMA InsertKeepsStore ==
  ASSUME TypeOK, StoreInv, NEW w \in Writer, Insert(w)
  PROVE  StoreInv'
<1>1. /\ writer'[w].pc = "commit" /\ writer'[w].new = writer[w].new
      /\ writer'[w].left = writer[w].left
      /\ file'.rows = file.rows /\ lock' = lock /\ minted' = minted
      /\ writer[w].pc = "insert"
  BY DEF Insert, Goes, TypeOK, WriterState
<1>2. Distinct' /\ Numbered'
  BY <1>1 DEF StoreInv, Distinct, Numbered
<1>3. AppendInv(w)'
  <2>1. Fresh(w)'
    BY <1>1 DEF Insert, Fresh, NewRows
  <2> QED
    BY <1>1, <2>1 DEF StoreInv, AppendInv, Locked, Written, OneNew, Known, Stored
<1>4. ASSUME NEW v \in Writer \ {w} PROVE AppendInv(v)'
  BY <1>1, OthersStandStill, StandsStill DEF Step, TypeOK
<1> QED
  BY <1>2, <1>3, <1>4 DEF StoreInv

(* A row is added: it has passed the index, and nobody else is in a          *)
(* transaction.                                                              *)
LEMMA CommitKeepsStore ==
  ASSUME TypeOK, StoreInv, NEW w \in Writer, CommitAppend(w)
  PROVE  StoreInv'
<1>1. /\ writer'[w].pc = "told" /\ writer'[w].new = writer[w].new
      /\ writer'[w].left = writer[w].left
      /\ file'.rows = file.rows \cup NewRows(w) /\ lock' = Nobody /\ minted' = minted
      /\ writer[w].pc = "commit" /\ lock = w
  BY DEF CommitAppend, Goes, TypeOK, WriterState, File, StoreInv, AppendInv, Locked
<1>2. \A r, s \in NewRows(w) : r = s
  BY DEF StoreInv, AppendInv, OneNew, NewRows
<1>3. \A r \in file.rows, s \in NewRows(w) : r.id # s.id /\ ContentOf(r) # ContentOf(s)
  BY <1>1 DEF StoreInv, AppendInv, Fresh, Conflicts
<1>4. Distinct'
  BY <1>1, <1>2, <1>3 DEF StoreInv, Distinct
<1>5. Numbered'
  BY <1>1 DEF StoreInv, AppendInv, OneNew, NewRows, Numbered
<1>6. \A content : Stored(content) => Stored(content)'
  BY <1>1 DEF Stored
<1>7. AppendInv(w)'
  BY <1>1, <1>6 DEF StoreInv, AppendInv, Locked, Fresh, OneNew, Written, NewRows, Known
<1>8. ASSUME NEW v \in Writer \ {w} PROVE AppendInv(v)'
  <2>1. /\ writer'[v].pc = writer[v].pc /\ writer'[v].new = writer[v].new
        /\ writer'[v].left = writer[v].left
    BY OthersStandStill DEF Step
  <2>2. writer[v].pc \notin {"create", "insert", "commit"}
    BY <1>1 DEF StoreInv, AppendInv, Locked
  <2> QED
    BY <1>1, <1>6, <2>1, <2>2
       DEF StoreInv, AppendInv, Locked, Fresh, OneNew, Written, NewRows, Known
<1> QED
  BY <1>4, <1>5, <1>7, <1>8 DEF StoreInv

LEMMA StoreStep ==
  ASSUME TypeOK, StoreInv, [Next]_vars
  PROVE  StoreInv'
<1>1. ASSUME NEW w \in Writer, Step(w) \/ TimeOut(w) \/ Crash(w) PROVE StoreInv'
  BY <1>1, RestKeepsStore, EndedKeepsStore, BegunKeepsStore, InsertKeepsStore, CommitKeepsStore
     DEF Step
<1>2. CASE Read \/ UNCHANGED vars
  <2>1. UNCHANGED <<file, lock, writer, minted>>
    BY <1>2 DEF Read, Ask, OpenReadOnly, Select, Fetch, Answer, Finish, vars
  <2> QED
    BY <2>1 DEF StoreInv, Distinct, Numbered, AppendInv, Locked, Fresh, OneNew, Written, Known,
                NewRows, Stored
<1> QED
  BY <1>1, <1>2 DEF Next

(* Every response is stored once, and none that the caller knows to be       *)
(* stored is missing, however many writers retry and are killed.             *)
THEOREM ResponsesAreStoredOnce == Spec => []StoredOnce
<1>1. StoreInv => StoredOnce
  BY DEF StoreInv, AppendInv, Distinct, Known, StoredOnce
<1>2. TypeOK /\ StoreInv /\ [Next]_vars => StoreInv'
  BY StoreStep
<1> QED
  BY <1>1, <1>2, StoreInit, TypeCorrect, PTL DEF Spec

-----------------------------------------------------------------------------
(* The inductive invariant for ForeignIsUntouched: who is past the preflight *)
(* has seen a file that is empty or ours, and what a preflight has read of   *)
(* somebody else's file is what it says.                                     *)
Kept(w) ==
  Foreign(file) =>
    \/ writer[w].pc = "closed"
    \/ /\ writer[w].round = "preflight"
       /\ writer[w].pc \in {"application", "version", "tables"}
       /\ writer[w].pc \in {"version", "tables"} => writer[w].seen.application = file.application
       /\ writer[w].pc = "tables" => writer[w].seen.version = file.version

Connected(w) == writer[w].pc \notin {"closed", "application"} => file.there

ForeignInv == (file.there \/ IsEmpty(file)) /\ \A w \in Writer : Kept(w) /\ Connected(w)

(* A file that is not somebody else's does not become somebody else's, and   *)
(* one that is stays as it is.                                               *)
LEMMA ForeignStays ==
  ASSUME TypeOK, ForeignInv, [Next]_vars
  PROVE  /\ file'.there \/ IsEmpty(file')
         /\ Foreign(file) => file' = file
         /\ Foreign(file') => Foreign(file)
<1> DEFINE same == /\ file'.application = file.application /\ file'.version = file.version
                   /\ file'.tables = file.tables /\ file'.there = file.there
<1>1. ASSUME NEW w \in Writer, ReadApplication(w)
      PROVE  /\ file'.there
             /\ file.there => file' = file
             /\ ~file.there => IsEmpty(file')
  <2>1. file' = [file EXCEPT !.there = TRUE] /\ file \in File
    BY <1>1 DEF ReadApplication, TypeOK
  <2> QED
    BY <2>1 DEF ForeignInv, File, IsEmpty
<1>2. ASSUME NEW w \in Writer, UseWal(w) PROVE same /\ ~Foreign(file)
  BY <1>2 DEF UseWal, TypeOK, File, ForeignInv, Kept
<1>3. ASSUME NEW w \in Writer, CommitAppend(w) PROVE same /\ ~Foreign(file)
  BY <1>3 DEF CommitAppend, TypeOK, File, ForeignInv, Kept
<1>4. ASSUME NEW w \in Writer, InitializeSchema(w)
      PROVE  file' = file \/ (~Foreign(file) /\ ~Foreign(file') /\ file'.there)
  BY <1>4 DEF InitializeSchema, Initialised, TypeOK, File, ForeignInv, Kept, Connected, Foreign
<1>5. \/ file' = file
      \/ \E w \in Writer : \/ ReadApplication(w) \/ UseWal(w) \/ CommitAppend(w)
                           \/ InitializeSchema(w)
  BY DEF Next, Read, Step, Ask, OpenReadOnly, Select, Fetch, Answer, Finish, Open, ReadVersion,
         ReadTablesFirst, ReadTablesAgain, BeginInitialize, ValidateExisting, BeginAppend,
         InsertConflicts, Insert, Told, Close, TimeOut, Crash, vars
<1>6. CASE file' = file
  BY <1>6 DEF ForeignInv
<1>7. CASE \E w \in Writer : ReadApplication(w)
  BY <1>1, <1>7 DEF Foreign
<1>8. CASE \E w \in Writer : UseWal(w) \/ CommitAppend(w)
  BY <1>2, <1>3, <1>8 DEF Foreign, IsEmpty, ForeignInv
<1>9. CASE \E w \in Writer : InitializeSchema(w)
  BY <1>4, <1>6, <1>9
<1> QED
  BY <1>5, <1>6, <1>7, <1>8, <1>9

(* The step of another writer, or of the reader, keeps what a preflight has  *)
(* read true.                                                                *)
LEMMA StillKept ==
  ASSUME TypeOK, ForeignInv, [Next]_vars, NEW v \in Writer,
         /\ writer'[v].pc = writer[v].pc /\ writer'[v].round = writer[v].round
         /\ writer'[v].seen = writer[v].seen
  PROVE  Kept(v)' /\ Connected(v)'
<1>1. file.there => file'.there
  BY DEF TypeOK, File, Next, Read, Step, Ask, OpenReadOnly, Select, Fetch, Answer, Finish, Open,
         ReadApplication, ReadVersion, ReadTablesFirst, UseWal, ReadTablesAgain, BeginInitialize,
         InitializeSchema, Initialised, ValidateExisting, BeginAppend, InsertConflicts, Insert,
         CommitAppend, Told, Close, TimeOut, Crash, vars
<1> QED
  BY <1>1, ForeignStays DEF ForeignInv, Kept, Connected

LEMMA OthersKeepReading ==
  ASSUME TypeOK, NEW w \in Writer, NEW v \in Writer \ {w}, Step(w) \/ TimeOut(w) \/ Crash(w)
  PROVE  /\ writer'[v].pc = writer[v].pc /\ writer'[v].round = writer[v].round
         /\ writer'[v].seen = writer[v].seen
<1>1. CASE Open(w)
  BY <1>1 DEF Open, TypeOK, WriterState
<1>2. CASE ~Open(w)
  BY <1>2 DEF TypeOK, Step, ReadApplication, ReadVersion, ReadTablesFirst, UseWal,
              ReadTablesAgain, BeginInitialize, InitializeSchema, ValidateExisting, BeginAppend,
              InsertConflicts, Insert, CommitAppend, Told, Close, TimeOut, Crash, Goes, GoesOn,
              Fails
<1> QED
  BY <1>1, <1>2

(* The step of a writer over somebody else's file reads what the file says,  *)
(* or ends.                                                                  *)
LEMMA ActorKept ==
  ASSUME TypeOK, ForeignInv, NEW w \in Writer, Step(w) \/ TimeOut(w) \/ Crash(w)
  PROVE  Kept(w)' /\ Connected(w)'
<1> DEFINE state == writer[w]
<1>0. state \in WriterState /\ file \in File /\ [Next]_vars
  BY DEF TypeOK, Next
<1>1. CASE Open(w)
  <2>1. writer'[w].pc = "application" /\ writer'[w].round = "preflight"
    BY <1>1 DEF Open, Closed, TypeOK
  <2> QED
    BY <2>1 DEF Kept, Connected
<1>2. CASE ReadApplication(w)
  <2>1. writer'[w] = [state EXCEPT !.pc = "version", !.seen.application = file.application]
    BY <1>2 DEF ReadApplication, TypeOK
  <2>2. /\ writer'[w].pc = "version" /\ writer'[w].round = state.round
        /\ writer'[w].seen.application = file.application
    <3> HIDE DEF state
    <3> QED
      BY <1>0, <2>1 DEF WriterState, File
  <2>3. file'.there /\ file'.application = file.application
    BY <1>0, <1>2 DEF ReadApplication, File
  <2>4. Foreign(file') => Foreign(file)
    BY <1>0, ForeignStays
  <2> QED
    BY <1>2, <2>2, <2>3, <2>4 DEF Kept, Connected, ForeignInv, ReadApplication
<1>3. CASE ReadVersion(w)
  <2>1. writer'[w] = [state EXCEPT !.pc = "tables", !.seen.version = file.version]
    BY <1>3 DEF ReadVersion, TypeOK
  <2>2. /\ writer'[w].pc = "tables" /\ writer'[w].round = state.round
        /\ writer'[w].seen.version = file.version
        /\ writer'[w].seen.application = state.seen.application
    <3> HIDE DEF state
    <3> QED
      BY <1>0, <2>1 DEF WriterState, File
  <2> QED
    BY <1>3, <2>2 DEF Kept, Connected, ForeignInv, ReadVersion
<1>4. CASE ReadTablesFirst(w)
  <2>1. CASE PreflightAccepts(Seen(w))
    <3>1. /\ Seen(w).application = state.seen.application
          /\ Seen(w).version = state.seen.version /\ Seen(w).tables = file.tables
      BY <1>0 DEF Seen, WriterState, File
    <3>2. ~Foreign(file)
      BY <1>4, <2>1, <3>1
         DEF ReadTablesFirst, ForeignInv, Kept, Foreign, PreflightAccepts, IsEmpty
    <3>3. file' = file /\ file.there
      BY <1>4 DEF ReadTablesFirst, ForeignInv, Connected
    <3> QED
      BY <3>2, <3>3 DEF Kept, Connected
  <2>2. CASE ~PreflightAccepts(Seen(w))
    BY <1>4, <2>2, FailsStands DEF ReadTablesFirst, Results, Kept, Connected
  <2> QED
    BY <2>1, <2>2
<1>5. CASE UseWal(w) \/ ReadTablesAgain(w) \/ BeginInitialize(w) \/ InitializeSchema(w)
           \/ ValidateExisting(w) \/ BeginAppend(w) \/ InsertConflicts(w) \/ Insert(w)
           \/ CommitAppend(w) \/ Told(w)
  <2>1. ~Foreign(file) /\ file.there
    BY <1>5 DEF ForeignInv, Kept, Connected, UseWal, ReadTablesAgain, BeginInitialize,
                InitializeSchema, ValidateExisting, BeginAppend, InsertConflicts, Insert,
                CommitAppend, Told
  <2>2. file'.there
    BY <1>0, <1>5, <2>1
       DEF File, UseWal, ReadTablesAgain, BeginInitialize, InitializeSchema, Initialised,
           ValidateExisting, BeginAppend, InsertConflicts, Insert, CommitAppend, Told
  <2> QED
    BY <1>0, <2>1, <2>2, ForeignStays DEF Kept, Connected
<1>6. CASE Close(w) \/ Crash(w)
  <2>1. writer'[w].pc = "closed"
    BY <1>6 DEF Close, Crash, Closed, TypeOK
  <2> QED
    BY <2>1 DEF Kept, Connected
<1>7. CASE TimeOut(w)
  BY <1>7, FailsStands DEF TimeOut, Results, Kept, Connected
<1> QED
  BY <1>1, <1>2, <1>3, <1>4, <1>5, <1>6, <1>7 DEF Step

LEMMA ForeignStep ==
  ASSUME TypeOK, ForeignInv, [Next]_vars
  PROVE  ForeignInv'
<1>1. (file.there \/ IsEmpty(file))'
  BY ForeignStays
<1>2. ASSUME NEW w \in Writer, Step(w) \/ TimeOut(w) \/ Crash(w), NEW v \in Writer
      PROVE  Kept(v)' /\ Connected(v)'
  BY <1>2, ActorKept, OthersKeepReading, StillKept
<1>3. ASSUME Read \/ UNCHANGED vars, NEW v \in Writer PROVE Kept(v)' /\ Connected(v)'
  <2>1. writer' = writer
    BY <1>3 DEF Read, Ask, OpenReadOnly, Select, Fetch, Answer, Finish, vars
  <2> QED
    BY <2>1, StillKept
<1> QED
  BY <1>1, <1>2, <1>3 DEF ForeignInv, Next

(* No step changes a database that somebody else made, or another release,   *)
(* whoever reads it while whoever else makes one.                            *)
THEOREM ForeignFilesAreUntouched == Spec => ForeignIsUntouched
<1>1. Init => ForeignInv
  <2>1. Init => \A w \in Writer : writer[w].pc = "closed"
    BY DEF Init, Closed
  <2> QED
    BY <2>1, MarketAssumption DEF Init, ForeignInv, Kept, Connected
<1>2. TypeOK /\ ForeignInv /\ [Next]_vars => ForeignInv'
  BY ForeignStep
<1>3. TypeOK /\ ForeignInv /\ [Next]_vars => [Foreign(file) => UNCHANGED file]_vars
  BY ForeignStays
<1> QED
  BY <1>1, <1>2, <1>3, TypeCorrect, PTL DEF Spec, ForeignIsUntouched

-----------------------------------------------------------------------------
(* The inductive invariant for the answers.  Until the rows are selected,    *)
(* what is committed is one of the moments; half way through, the rows       *)
(* fetched and the rows that remain are those of one moment, each that       *)
(* remains comes after each fetched, and what has been kept and counted is   *)
(* the projection of the rows fetched.                                       *)
Waiting ==
  /\ reader.result = "none" /\ file.rows \in reader.moments
  /\ reader.latest = {} /\ reader.count = 0

Halfway(rows) ==
  /\ reader.rows \subseteq rows
  /\ \A r \in reader.rows, s \in rows \ reader.rows : After(r, s)
  /\ IsFiniteSet(rows \ reader.rows)
  /\ IsProjection(reader.latest, reader.count, rows \ reader.rows)

ReadInv ==
  /\ reader.pc \in {"validate", "select"} => Waiting
  /\ reader.pc = "fetch" =>
       /\ reader.result = "none"
       /\ \E rows \in reader.moments : Halfway(Matching(rows, reader.surface))
  /\ reader.result = "answered" => reader.pc = "told" /\ AnswersAreOneMoment

(* Of two rows at most one comes after the other.                            *)
LEMMA AfterIsAsymmetric ==
  ASSUME NEW r \in Row, NEW s \in Row, After(r, s)
  PROVE  ~After(s, r)
<1>1. \A at \in Int : TextRank(at) \in Int
  BY MarketStoreAssumption DEF TextRank
<1>2. r.at \in Int /\ s.at \in Int /\ r.sequence \in Int /\ s.sequence \in Int
      /\ r.id \in Int /\ s.id \in Int
  BY DEF Row
<1>3. TextRank(r.at) \in Int /\ TextRank(s.at) \in Int
  BY <1>1, <1>2
<1> QED
  BY <1>2, <1>3 DEF After

(* Replacing the latest row of a request by one that comes after all the     *)
(* rows so far makes the projection of the rows with that one.               *)
LEMMA ReplaceProjects ==
  ASSUME NEW rows \in SUBSET Row, NEW row \in Row \ rows, NEW latest, NEW count,
         IsFiniteSet(rows), IsProjection(latest, count, rows),
         \A s \in rows : After(row, s)
  PROVE  /\ IsFiniteSet(rows \cup {row})
         /\ IsProjection(Replace(latest, row), count + 1, rows \cup {row})
<1>1. IsFiniteSet(rows \cup {row}) /\ Cardinality(rows \cup {row}) = count + 1
  BY FS_AddElement DEF IsProjection
<1>2. latest = {r \in rows : \A s \in rows : SameRequest(r, s) /\ r # s => After(r, s)}
  BY DEF IsProjection
<1>3. \A s \in rows : After(row, s) /\ ~After(s, row)
  BY AfterIsAsymmetric
<1>4. Replace(latest, row) = {known \in latest : ~SameRequest(known, row)} \cup {row}
  BY <1>2, <1>3 DEF Replace
<1>5. SameRequest(row, row) /\ \A r \in rows : SameRequest(r, row) <=> SameRequest(row, r)
  BY DEF SameRequest
<1>6. {known \in latest : ~SameRequest(known, row)} \cup {row}
        = {r \in rows \cup {row} :
             \A s \in rows \cup {row} : SameRequest(r, s) /\ r # s => After(r, s)}
  <2>1. ASSUME NEW r \in rows
        PROVE  (r \in latest /\ ~SameRequest(r, row))
                 <=> \A s \in rows \cup {row} : SameRequest(r, s) /\ r # s => After(r, s)
    BY <1>2, <1>3
  <2>2. \A s \in rows \cup {row} : SameRequest(row, s) /\ row # s => After(row, s)
    BY <1>3
  <2> QED
    BY <1>2, <2>1, <2>2
<1> QED
  BY <1>1, <1>4, <1>6 DEF IsProjection

(* The next row fetched is the first of those that remain.                   *)
LEMMA FetchGoesOn ==
  ASSUME TypeOK, ReadInv, Fetch
  PROVE  ReadInv'
<1>1. PICK row \in Remaining :
        /\ \A other \in Remaining \ {row} : After(other, row)
        /\ reader' = [reader EXCEPT !.rows = Remaining \ {row}, !.count = @ + 1,
                                    !.latest = Replace(@, row)]
  BY DEF Fetch
<1> DEFINE kept == Replace(reader.latest, row)
<1> HIDE DEF kept
<1>2. /\ reader'.pc = "fetch" /\ reader'.result = "none"
      /\ reader'.moments = reader.moments /\ reader'.surface = reader.surface
      /\ reader'.rows = reader.rows \ {row} /\ reader'.count = reader.count + 1
      /\ reader'.latest = kept
  <2>1. reader' = [reader EXCEPT !.rows = reader.rows \ {row}, !.count = reader.count + 1,
                                 !.latest = kept]
    BY <1>1 DEF Remaining, kept
  <2>2. reader.pc = "fetch" /\ reader.result = "none"
    BY DEF Fetch, ReadInv
  <2> QED
    BY <2>1, <2>2 DEF TypeOK, ReaderState
<1>3. PICK moment \in reader.moments : Halfway(Matching(moment, reader.surface))
  BY DEF Fetch, ReadInv
<1> DEFINE rows == Matching(moment, reader.surface)
           done == rows \ reader.rows
<1>4. rows \in SUBSET Row /\ row \in rows /\ row \in reader.rows
  BY <1>1, <1>3 DEF TypeOK, ReaderState, Matching, Halfway, Remaining
<1>5. rows \ (reader.rows \ {row}) = done \cup {row}
  BY <1>4
<1> HIDE DEF rows
<1>6. /\ IsFiniteSet(done \cup {row})
      /\ IsProjection(kept, reader.count + 1, done \cup {row})
  <2>1. done \in SUBSET Row /\ row \in Row \ done
    BY <1>4
  <2>2. /\ IsFiniteSet(done) /\ IsProjection(reader.latest, reader.count, done)
        /\ \A s \in done : After(row, s)
    BY <1>3, <1>4 DEF Halfway, rows
  <2> HIDE DEF done
  <2> QED
    BY <2>1, <2>2, ReplaceProjects DEF kept
<1>7. Halfway(rows)'
  <2>1. rows' = rows
    BY <1>2 DEF rows
  <2>2. \A r \in reader.rows \ {row}, s \in done \cup {row} : After(r, s)
    BY <1>1, <1>3 DEF Halfway, Remaining, rows
  <2>3. reader.rows \ {row} \subseteq rows
    BY <1>3 DEF Halfway, rows
  <2> QED
    BY <1>2, <1>5, <1>6, <2>1, <2>2, <2>3 DEF Halfway
<1> QED
  BY <1>2, <1>3, <1>7 DEF ReadInv, rows

(* A writer's step leaves the reader what it knows, and adds what it commits *)
(* to the moments.                                                           *)
LEMMA WriterKeepsReading ==
  ASSUME TypeOK, ReadInv, NEW w \in Writer, Step(w) \/ TimeOut(w) \/ Crash(w)
  PROVE  ReadInv'
<1>1. CASE CommitAppend(w)
  <2>1. CASE reader.pc \in {"idle", "told"}
    <3>1. reader' = reader
      BY <1>1, <2>1 DEF CommitAppend
    <3> QED
      BY <2>1, <3>1 DEF ReadInv, AnswersAreOneMoment
  <2>2. CASE reader.pc \notin {"idle", "told"}
    <3>1. /\ reader'.moments = reader.moments \cup {file'.rows}
          /\ reader'.pc = reader.pc /\ reader'.result = reader.result
          /\ reader'.rows = reader.rows /\ reader'.latest = reader.latest
          /\ reader'.count = reader.count /\ reader'.surface = reader.surface
      BY <1>1, <2>2 DEF CommitAppend, TypeOK, ReaderState
    <3> QED
      BY <2>2, <3>1 DEF ReadInv, Waiting, Halfway
  <2> QED
    BY <2>1, <2>2
<1>2. CASE ~CommitAppend(w)
  <2>1. reader' = reader
    BY <1>2 DEF Step, Open, ReadApplication, ReadVersion, ReadTablesFirst, UseWal,
                ReadTablesAgain, BeginInitialize, InitializeSchema, ValidateExisting,
                BeginAppend, InsertConflicts, Insert, Told, Close, TimeOut, Crash
  <2>2. file'.rows = file.rows
    BY <1>2, RestKeepsRows DEF Step, BeginAppend, InsertConflicts, Insert, Told
  <2> QED
    BY <2>1, <2>2 DEF ReadInv, Waiting, Halfway, AnswersAreOneMoment
<1> QED
  BY <1>1, <1>2

LEMMA ReadStep ==
  ASSUME TypeOK, ReadInv, [Next]_vars
  PROVE  ReadInv'
<1>1. CASE Ask
  <2>1. PICK surface \in Asked :
          reader' = [Idle EXCEPT
            !.pc = IF file.there THEN "validate" ELSE "told",
            !.result = IF file.there THEN "none" ELSE "unavailable",
            !.surface = surface, !.began = Validates(file), !.moments = {file.rows}]
    BY <1>1 DEF Ask
  <2>2. /\ reader'.result = (IF file.there THEN "none" ELSE "unavailable")
        /\ reader'.pc = (IF file.there THEN "validate" ELSE "told")
        /\ reader'.moments = {file.rows} /\ reader'.latest = {} /\ reader'.count = 0
    BY <2>1 DEF Idle
  <2>3. file' = file
    BY <1>1 DEF Ask
  <2> QED
    BY <2>2, <2>3 DEF ReadInv, Waiting
<1>2. CASE OpenReadOnly
  BY <1>2 DEF OpenReadOnly, ReadInv, Waiting, TypeOK, ReaderState
<1>3. CASE Select
  <2> DEFINE rows == Matching(file.rows, reader.surface)
  <2>1. /\ reader'.pc = "fetch" /\ reader'.result = "none" /\ reader'.rows = rows
        /\ reader'.moments = reader.moments /\ reader'.surface = reader.surface
        /\ reader'.latest = {} /\ reader'.count = 0
        /\ file.rows \in reader.moments /\ file' = file
    BY <1>3 DEF Select, ReadInv, Waiting, TypeOK, ReaderState
  <2>2. rows \ rows = {} /\ IsFiniteSet({}) /\ Cardinality({}) = 0
    BY FS_EmptySet
  <2>3. Halfway(rows)'
    <3> HIDE DEF rows
    <3>1. IsProjection({}, 0, rows \ rows)
      BY <2>2 DEF IsProjection
    <3>2. reader'.rows = rows'
      BY <2>1 DEF rows
    <3>3. rows' \ rows' = {}
      OBVIOUS
    <3> QED
      BY <2>1, <2>2, <3>2, <3>3, <3>1 DEF Halfway
  <2> QED
    BY <2>1, <2>3 DEF ReadInv
<1>4. CASE Fetch
  BY <1>4, FetchGoesOn
<1>5. CASE Answer
  <2>1. PICK moment \in reader.moments : Halfway(Matching(moment, reader.surface))
    BY <1>5 DEF Answer, ReadInv
  <2>2. Matching(moment, reader.surface) \ reader.rows = Matching(moment, reader.surface)
    BY <1>5 DEF Answer, Remaining
  <2>3. IsProjection(reader.latest, reader.count, Matching(moment, reader.surface))
    BY <2>1, <2>2 DEF Halfway
  <2>4. /\ reader'.pc = "told" /\ reader'.result = "answered"
        /\ reader'.moments = reader.moments /\ reader'.surface = reader.surface
        /\ reader'.latest = reader.latest /\ reader'.count = reader.count
    BY <1>5 DEF Answer, TypeOK, ReaderState
  <2> QED
    BY <2>1, <2>3, <2>4 DEF ReadInv, AnswersAreOneMoment
<1>6. CASE Finish
  BY <1>6 DEF Finish, Idle, ReadInv
<1>7. CASE UNCHANGED vars
  BY <1>7 DEF vars, ReadInv, Waiting, Halfway, AnswersAreOneMoment
<1>8. CASE \E w \in Writer : Step(w) \/ TimeOut(w) \/ Crash(w)
  BY <1>8, WriterKeepsReading
<1> QED
  BY <1>1, <1>2, <1>3, <1>4, <1>5, <1>6, <1>7, <1>8 DEF Next, Read

(* Whatever is committed while the rows are read one by one, an answer is    *)
(* the projection of what was committed at one moment since it was asked     *)
(* for.                                                                      *)
THEOREM AnswersAreMoments == Spec => []AnswersAreOneMoment
<1>1. Init => ReadInv
  BY DEF Init, Idle, ReadInv
<1>2. ReadInv => AnswersAreOneMoment
  BY DEF ReadInv, AnswersAreOneMoment
<1>3. TypeOK /\ ReadInv /\ [Next]_vars => ReadInv'
  BY ReadStep
<1> QED
  BY <1>1, <1>2, <1>3, TypeCorrect, PTL DEF Spec

-----------------------------------------------------------------------------
(* The inductive invariant for RefusalIsDue.  Who opens a made database goes *)
(* on finding it made; who opens alone one that is not finds it empty until  *)
(* it has made it, and reads what it says.                                   *)
Ours == file.application = ApplicationId /\ file.version = UserVersion /\ file.tables = ExpectedTables

Whole == file.application = ApplicationId /\ file.version = UserVersion => Ours

Reads(w) ==
  /\ writer[w].pc \in {"version", "tables"} => writer[w].seen.application = file.application
  /\ writer[w].pc = "tables" => writer[w].seen.version = file.version

OverMade(w) == Validates(file) /\ Reads(w) /\ writer[w].pc \notin {"initialize", "create"}

Alone(w) ==
  /\ \A v \in Writer \ {w} : writer[v].pc \notin Opening
  /\ IsEmpty(file) \/ Ours
  /\ Reads(w)
  /\ writer[w].round = "bootstrap" => file.wal
  /\ writer[w].pc \in {"initialize", "create", "validate"} => writer[w].round = "bootstrap"
  /\ writer[w].pc \in {"initialize", "create"} => IsEmpty(file)
  /\ writer[w].pc = "validate" => Ours

Due(w) ==
  IF writer[w].pc \in Opening
  THEN /\ writer[w].result = "none"
       /\ writer[w].began \in Kinds
       /\ writer[w].began = "made" => OverMade(w)
       /\ writer[w].began = "neither" /\ writer[w].alone => Alone(w)
  ELSE writer[w].result \in {"incompatible", "failed"} =>
         \/ writer[w].began = "foreign"
         \/ writer[w].began = "neither" /\ ~writer[w].alone

ReaderDue ==
  /\ reader.pc \notin {"idle", "told"} => reader.result = "none" /\ (reader.began => Validates(file))
  /\ reader.result = "incompatible" => ~reader.began

DueInv == Whole /\ ReaderDue /\ \A w \in Writer : Due(w)

(* The marks of a file, its tables and its journal mode stay, but for the    *)
(* transaction that makes the schema and the writer that switches to WAL.    *)
LEMMA MarksStay ==
  ASSUME TypeOK, [Next]_vars, \A w \in Writer : ~InitializeSchema(w)
  PROVE  /\ file'.application = file.application /\ file'.version = file.version
         /\ file'.tables = file.tables
         /\ file.wal => file'.wal
<1>1. \/ file' = file
      \/ \E w \in Writer : ReadApplication(w) \/ UseWal(w) \/ CommitAppend(w)
  BY DEF Next, Read, Step, Ask, OpenReadOnly, Select, Fetch, Answer, Finish, Open, ReadVersion,
         ReadTablesFirst, ReadTablesAgain, BeginInitialize, ValidateExisting, BeginAppend,
         InsertConflicts, Insert, Told, Close, TimeOut, Crash, vars
<1> QED
  BY <1>1 DEF ReadApplication, UseWal, CommitAppend, TypeOK, File

LEMMA SchemaMakes ==
  ASSUME TypeOK, NEW w \in Writer, InitializeSchema(w)
  PROVE  \/ "observation" \in file.tables /\ file' = file
         \/ /\ "observation" \notin file.tables
            /\ file'.application = ApplicationId /\ file'.version = UserVersion
            /\ file'.tables = ExpectedTables /\ file'.wal = file.wal
  BY DEF InitializeSchema, Initialised, TypeOK, File

(* A made database stays made, and marks of this release stay with its       *)
(* tables.                                                                   *)
LEMMA MadeStays ==
  ASSUME TypeOK, [Next]_vars
  PROVE  /\ Validates(file) => Validates(file')
         /\ Whole => Whole'
<1>1. CASE \E w \in Writer : InitializeSchema(w)
  BY <1>1, SchemaMakes DEF Validates, Whole, Ours, ExpectedTables
<1>2. CASE \A w \in Writer : ~InitializeSchema(w)
  BY <1>2, MarksStay DEF Validates, Whole, Ours
<1> QED
  BY <1>1, <1>2

(* What the step of one writer leaves of what another knows.                 *)
LEMMA OthersStayDue ==
  ASSUME TypeOK, DueInv, NEW w \in Writer, NEW v \in Writer \ {w},
         Step(w) \/ TimeOut(w) \/ Crash(w)
  PROVE  Due(v)'
<1>0. [Next]_vars
  BY DEF Next
<1>1. /\ writer'[v].pc = writer[v].pc /\ writer'[v].round = writer[v].round
      /\ writer'[v].seen = writer[v].seen
  BY OthersKeepReading
<1>2. /\ writer'[v].result = writer[v].result /\ writer'[v].began = writer[v].began
      /\ writer'[v].alone \in {writer[v].alone, FALSE}
      /\ writer'[v].alone => ~Open(w)
  <2>1. CASE Open(w)
    BY <2>1 DEF Open, TypeOK, WriterState
  <2>2. CASE ~Open(w)
    BY <2>2 DEF TypeOK, Step, ReadApplication, ReadVersion, ReadTablesFirst, UseWal,
                ReadTablesAgain, BeginInitialize, InitializeSchema, ValidateExisting,
                BeginAppend, InsertConflicts, Insert, CommitAppend, Told, Close, TimeOut,
                Crash, Goes, GoesOn, Fails
  <2> QED
    BY <2>1, <2>2
<1>3. Due(v)
  BY DEF DueInv
<1>4. CASE writer[v].pc \notin Opening
  <2>1. writer[v].alone \in BOOLEAN
    BY DEF TypeOK, WriterState
  <2> QED
    BY <1>1, <1>2, <1>3, <1>4, <2>1 DEF Due
<1>5. CASE writer[v].pc \in Opening
  <2>1. ASSUME writer[v].began = "made" PROVE OverMade(v)'
    <3>1. OverMade(v) /\ Validates(file')
      BY <1>0, <1>3, <1>5, <2>1, MadeStays DEF Due, OverMade
    <3> QED
      BY <1>1, <3>1 DEF OverMade, Reads, Validates
  <2>2. ASSUME writer[v].began = "neither", writer'[v].alone PROVE Alone(v)'
    <3>1. Alone(v) /\ ~Open(w)
      BY <1>2, <1>3, <1>5, <2>2 DEF Due
    <3>2. writer[w].pc \notin Opening
      BY <3>1 DEF Alone
    <3>3. \/ BeginAppend(w) \/ InsertConflicts(w) \/ Insert(w) \/ CommitAppend(w) \/ Told(w)
          \/ Close(w) \/ Crash(w)
      BY <3>1, <3>2
         DEF Opening, Step, TimeOut, ReadApplication, ReadVersion, ReadTablesFirst, UseWal,
             ReadTablesAgain, BeginInitialize, InitializeSchema, ValidateExisting
    <3>4. /\ file'.application = file.application /\ file'.version = file.version
          /\ file'.tables = file.tables /\ file'.wal = file.wal
      BY <3>3 DEF BeginAppend, InsertConflicts, Insert, CommitAppend, Told, Close, Crash,
                  TypeOK, File
    <3>5. writer'[w].pc \notin Opening
      <4>1. writer'[w].pc \in {"insert", "open", "commit", "told", "closed"}
        <5>1. CASE BeginAppend(w)
          BY <5>1 DEF BeginAppend, TypeOK, WriterState
        <5>2. CASE InsertConflicts(w) \/ Told(w)
          <6>1. writer' = [writer EXCEPT ![w] = [writer[w] EXCEPT !.pc = "open", !.new = {},
                             !.left = writer[w].left \ Contents(w)]]
            BY <5>2 DEF InsertConflicts, Told, GoesOn
          <6> QED
            BY <6>1 DEF TypeOK, WriterState
        <5>3. CASE Insert(w) \/ CommitAppend(w)
          BY <5>3 DEF Insert, CommitAppend, Goes, TypeOK, WriterState
        <5>4. CASE Close(w) \/ Crash(w)
          BY <5>4, ClosedStands DEF Close, Crash, TypeOK
        <5> QED
          BY <3>3, <5>1, <5>2, <5>3, <5>4
      <4> QED
        BY <4>1 DEF Opening
    <3>6. \A u \in Writer \ {w} : writer'[u].pc = writer[u].pc
      BY OthersKeepReading
    <3> QED
      BY <1>1, <3>1, <3>4, <3>5, <3>6 DEF Alone, IsEmpty, Ours, Reads
  <2> QED
    BY <1>1, <1>2, <1>3, <1>5, <2>1, <2>2 DEF Due
<1> QED
  BY <1>4, <1>5

(* An opening that is refused.                                               *)
LEMMA RefusedIsDue ==
  ASSUME TypeOK, NEW w \in Writer, NEW result \in Results, Fails(w, result),
         result \in {"incompatible", "failed"} =>
           writer[w].began = "foreign" \/ (writer[w].began = "neither" /\ ~writer[w].alone)
  PROVE  Due(w)'
<1> DEFINE state == writer[w]
<1>1. state \in WriterState /\ w \in DOMAIN writer
  BY DEF TypeOK
<1>2. writer'[w] = [state EXCEPT !.pc = "closed", !.seen = NoFile, !.result = result]
  BY <1>1 DEF Fails
<1> HIDE DEF state
<1>3. /\ writer'[w].pc = "closed" /\ writer'[w].result = result
      /\ writer'[w].began = state.began /\ writer'[w].alone = state.alone
  BY <1>1, <1>2 DEF WriterState
<1> QED
  BY <1>3 DEF state, Due, Opening

(* An opening that goes on.                                                  *)
LEMMA GoesOnDue ==
  ASSUME TypeOK, DueInv, NEW w \in Writer, Step(w), writer[w].pc \in Opening,
         /\ writer'[w].pc \in Opening /\ writer'[w].result = writer[w].result
         /\ writer'[w].began = writer[w].began /\ writer'[w].alone = writer[w].alone,
         writer[w].began = "made" =>
           Reads(w)' /\ writer'[w].pc \notin {"initialize", "create"},
         writer[w].began = "neither" /\ writer[w].alone =>
           /\ (IsEmpty(file) \/ Ours)' /\ Reads(w)'
           /\ writer'[w].round = "bootstrap" => file'.wal
           /\ writer'[w].pc \in {"initialize", "create", "validate"} =>
                writer'[w].round = "bootstrap"
           /\ writer'[w].pc \in {"initialize", "create"} => IsEmpty(file')
           /\ writer'[w].pc = "validate" => Ours'
  PROVE  Due(w)'
<1>1. Due(w) /\ [Next]_vars
  BY DEF DueInv, Next
<1>2. writer[w].began = "made" => OverMade(w)'
  BY <1>1, MadeStays DEF Due, OverMade
<1>3. \A u \in Writer \ {w} : writer'[u].pc = writer[u].pc
  BY OthersKeepReading
<1>4. writer[w].began = "neither" /\ writer[w].alone => Alone(w)'
  BY <1>1, <1>3 DEF Due, Alone
<1> QED
  BY <1>1, <1>2, <1>4 DEF Due

(* The writer that opens.                                                    *)
LEMMA OpenerIsDue ==
  ASSUME TypeOK, ForeignInv, DueInv, NEW w \in Writer,
         \/ Open(w) \/ ReadApplication(w) \/ ReadVersion(w) \/ ReadTablesFirst(w) \/ UseWal(w)
         \/ ReadTablesAgain(w) \/ BeginInitialize(w) \/ InitializeSchema(w)
         \/ ValidateExisting(w)
  PROVE  Due(w)'
<1> DEFINE state == writer[w]
<1>0. state \in WriterState /\ file \in File /\ [Next]_vars /\ Step(w) /\ Due(w) /\ Whole
  BY DEF TypeOK, Next, Step, DueInv
<1>1. CASE Open(w)
  <2>1. /\ writer'[w].pc = "application" /\ writer'[w].round = "preflight"
        /\ writer'[w].result = "none" /\ writer'[w].began = Kind
        /\ writer'[w].alone = (\A u \in Writer : writer[u].pc \notin Opening)
    BY <1>1 DEF Open, Closed, TypeOK
  <2>2. file' = file
    BY <1>1 DEF Open
  <2>3. Reads(w)'
    BY <2>1 DEF Reads
  <2>4. ASSUME Kind = "made" PROVE OverMade(w)'
    BY <2>1, <2>2, <2>3, <2>4 DEF OverMade, Kind
  <2>5. ASSUME Kind = "neither", \A u \in Writer : writer[u].pc \notin Opening
        PROVE  Alone(w)'
    <3>1. IsEmpty(file) \/ Ours
      BY <1>0, <2>5 DEF Kind, Foreign, ForeignInv, Whole
    <3>2. \A u \in Writer \ {w} : writer'[u].pc = writer[u].pc
      BY <1>0, OthersKeepReading
    <3> QED
      BY <2>1, <2>2, <2>3, <2>5, <3>1, <3>2 DEF Alone, Ours
  <2> QED
    BY <2>1, <2>4, <2>5, KindIsKind DEF Due, Opening
<1>2. CASE ReadApplication(w)
  <2>1. writer'[w] = [state EXCEPT !.pc = "version", !.seen.application = file.application]
    BY <1>2 DEF ReadApplication, TypeOK
  <2>2. /\ writer'[w].pc = "version" /\ writer'[w].round = state.round
        /\ writer'[w].seen.application = file.application
        /\ writer'[w].result = state.result /\ writer'[w].began = state.began
        /\ writer'[w].alone = state.alone
    <3> HIDE DEF state
    <3> QED
      BY <1>0, <2>1 DEF WriterState, File
  <2>3. /\ file'.application = file.application /\ file'.version = file.version
        /\ file'.tables = file.tables /\ file'.wal = file.wal
    BY <1>0, <1>2 DEF ReadApplication, File
  <2>4. Reads(w)' /\ state.pc = "application"
    BY <1>2, <2>2, <2>3 DEF Reads, ReadApplication
  <2> HIDE DEF state
  <2>5. state.began = "neither" /\ state.alone => Alone(w)
    BY <1>0, <2>4 DEF Due, Opening, state
  <2> QED
    BY <1>0, <2>2, <2>3, <2>4, <2>5, GoesOnDue DEF state, Alone, IsEmpty, Ours, Opening
<1>3. CASE ReadVersion(w)
  <2>1. writer'[w] = [state EXCEPT !.pc = "tables", !.seen.version = file.version]
    BY <1>3 DEF ReadVersion, TypeOK
  <2>2. /\ writer'[w].pc = "tables" /\ writer'[w].round = state.round
        /\ writer'[w].seen.version = file.version
        /\ writer'[w].seen.application = state.seen.application
        /\ writer'[w].result = state.result /\ writer'[w].began = state.began
        /\ writer'[w].alone = state.alone
    <3> HIDE DEF state
    <3> QED
      BY <1>0, <2>1 DEF WriterState, File
  <2>3. file' = file /\ state.pc = "version"
    BY <1>3 DEF ReadVersion
  <2> HIDE DEF state
  <2>4. state.began = "made" => OverMade(w)
    BY <1>0, <2>3 DEF Due, Opening, state
  <2>5. state.began = "neither" /\ state.alone => Alone(w)
    BY <1>0, <2>3 DEF Due, Opening, state
  <2>6. Reads(w) => Reads(w)'
    BY <2>2, <2>3 DEF Reads, state
  <2> QED
    BY <1>0, <2>2, <2>3, <2>4, <2>5, <2>6, GoesOnDue
       DEF state, Alone, OverMade, IsEmpty, Ours, Opening
<1>4. CASE ReadTablesFirst(w)
  <2>1. /\ Seen(w).application = state.seen.application
        /\ Seen(w).version = state.seen.version /\ Seen(w).tables = file.tables
    BY <1>0 DEF Seen, WriterState, File
  <2>2. state.pc = "tables" /\ state.round = "preflight" /\ file' = file
    BY <1>4 DEF ReadTablesFirst
  <2>3. state.began = "made" => OverMade(w)
    BY <1>0, <2>2 DEF Due, Opening
  <2>4. state.began = "neither" /\ state.alone => Alone(w)
    BY <1>0, <2>2 DEF Due, Opening
  <2>5. state.began \in Kinds
    BY <1>0, <2>2 DEF Due, Opening
  <2>6. CASE PreflightAccepts(Seen(w))
    <3>1. /\ writer'[w].pc = "journal" /\ writer'[w].round = state.round
          /\ writer'[w].result = state.result /\ writer'[w].began = state.began
          /\ writer'[w].alone = state.alone
      BY <1>4, <2>6 DEF ReadTablesFirst, Goes, TypeOK, WriterState
    <3>2. Reads(w)'
      BY <3>1 DEF Reads
    <3> QED
      BY <1>0, <2>2, <2>3, <2>4, <3>1, <3>2, GoesOnDue DEF Alone, IsEmpty, Ours, Opening
  <2>7. CASE ~PreflightAccepts(Seen(w))
    <3>1. ~(state.began = "made") /\ ~(state.began = "neither" /\ state.alone)
      BY <2>1, <2>2, <2>3, <2>4, <2>7
         DEF OverMade, Alone, Reads, Validates, Ours, IsEmpty, PreflightAccepts, ApplicationId,
             UserVersion, Unset
    <3>2. Fails(w, "incompatible")
      BY <1>4, <2>7 DEF ReadTablesFirst
    <3> QED
      BY <2>5, <3>1, <3>2, RefusedIsDue DEF Kinds, Results
  <2> QED
    BY <2>6, <2>7
<1>5. CASE UseWal(w)
  <2>1. /\ writer'[w].pc = "application" /\ writer'[w].round = "bootstrap"
        /\ writer'[w].result = state.result /\ writer'[w].began = state.began
        /\ writer'[w].alone = state.alone /\ state.pc = "journal"
    BY <1>5 DEF UseWal, TypeOK, WriterState
  <2>2. /\ file'.application = file.application /\ file'.version = file.version
        /\ file'.tables = file.tables /\ file'.wal
    BY <1>5 DEF UseWal, TypeOK, File
  <2>3. Reads(w)'
    BY <2>1 DEF Reads
  <2>4. state.began = "neither" /\ state.alone => Alone(w)
    BY <1>0, <2>1 DEF Due, Opening
  <2> QED
    BY <1>0, <2>1, <2>2, <2>3, <2>4, GoesOnDue DEF Alone, IsEmpty, Ours, Opening
<1>6. CASE ReadTablesAgain(w)
  <2>1. /\ Seen(w).application = state.seen.application
        /\ Seen(w).version = state.seen.version /\ Seen(w).tables = file.tables
    BY <1>0 DEF Seen, WriterState, File
  <2>2. /\ writer'[w].pc = (IF IsEmpty(Seen(w)) THEN "initialize" ELSE "validate")
        /\ writer'[w].round = "bootstrap" /\ state.round = "bootstrap"
        /\ writer'[w].result = state.result /\ writer'[w].began = state.began
        /\ writer'[w].alone = state.alone /\ state.pc = "tables" /\ file' = file
    BY <1>6 DEF ReadTablesAgain, Goes, TypeOK, WriterState
  <2>3. Reads(w)'
    BY <2>2 DEF Reads
  <2>4. state.began = "made" => OverMade(w)
    BY <1>0, <2>2 DEF Due, Opening
  <2>5. state.began = "neither" /\ state.alone => Alone(w)
    BY <1>0, <2>2 DEF Due, Opening
  <2>6. state.began = "made" => ~IsEmpty(Seen(w))
    BY <2>1, <2>2, <2>4 DEF OverMade, Reads, Validates, IsEmpty, ApplicationId, Unset
  <2>7. state.began = "neither" /\ state.alone => (IsEmpty(Seen(w)) <=> IsEmpty(file))
    BY <2>1, <2>2, <2>5 DEF Alone, Reads, IsEmpty
  <2> QED
    BY <1>0, <2>2, <2>3, <2>5, <2>6, <2>7, GoesOnDue DEF Alone, Ours, Opening
<1>7. CASE BeginInitialize(w)
  <2>1. /\ writer'[w].pc = "create" /\ writer'[w].round = state.round
        /\ writer'[w].result = state.result /\ writer'[w].began = state.began
        /\ writer'[w].alone = state.alone /\ state.pc = "initialize" /\ file' = file
    BY <1>7 DEF BeginInitialize, Goes, TypeOK, WriterState
  <2>2. Reads(w)'
    BY <2>1 DEF Reads
  <2>3. state.began # "made"
    BY <1>0, <2>1 DEF Due, Opening, OverMade
  <2>4. state.began = "neither" /\ state.alone => Alone(w)
    BY <1>0, <2>1 DEF Due, Opening
  <2> QED
    BY <1>0, <2>1, <2>2, <2>3, <2>4, GoesOnDue DEF Alone, Ours, Opening
<1>8. CASE InitializeSchema(w)
  <2>1. state.pc = "create"
    BY <1>8 DEF InitializeSchema
  <2>2. state.began # "made" /\ state.began \in Kinds
    BY <1>0, <2>1 DEF Due, Opening, OverMade
  <2>3. state.began = "neither" /\ state.alone => Alone(w)
    BY <1>0, <2>1 DEF Due, Opening
  <2>4. CASE "observation" \in file.tables
    <3>1. ~(state.began = "neither" /\ state.alone)
      BY <2>1, <2>3, <2>4 DEF Alone, IsEmpty
    <3>2. Fails(w, "failed")
      BY <1>8, <2>4 DEF InitializeSchema
    <3> QED
      BY <2>2, <3>1, <3>2, RefusedIsDue DEF Kinds, Results
  <2>5. CASE "observation" \notin file.tables
    <3>1. /\ writer'[w].pc = "validate" /\ writer'[w].round = state.round
          /\ writer'[w].result = state.result /\ writer'[w].began = state.began
          /\ writer'[w].alone = state.alone
      BY <1>8, <2>5 DEF InitializeSchema, Goes, TypeOK, WriterState
    <3>2. Ours' /\ file'.wal = file.wal
      BY <1>8, <2>5, SchemaMakes DEF Ours
    <3>3. Reads(w)'
      BY <3>1 DEF Reads
    <3> QED
      BY <1>0, <2>1, <2>2, <2>3, <3>1, <3>2, <3>3, GoesOnDue DEF Alone, Opening
  <2> QED
    BY <2>4, <2>5
<1>9. CASE ValidateExisting(w)
  <2>1. state.pc = "validate"
    BY <1>9 DEF ValidateExisting
  <2>2. CASE Validates(file)
    <3>1. writer'[w].pc = "open" /\ writer'[w].result = "none"
      BY <1>9, <2>2 DEF ValidateExisting, Closed, TypeOK
    <3> QED
      BY <3>1 DEF Due, Opening
  <2>3. CASE ~Validates(file)
    <3>1. /\ state.began = "made" => OverMade(w)
          /\ state.began = "neither" /\ state.alone => Alone(w)
          /\ state.began \in Kinds
      BY <1>0, <2>1 DEF Due, Opening
    <3>2. ~(state.began = "made") /\ ~(state.began = "neither" /\ state.alone)
      BY <2>1, <2>3, <3>1 DEF OverMade, Alone, Validates, Ours
    <3>3. Fails(w, "incompatible")
      BY <1>9, <2>3 DEF ValidateExisting
    <3> QED
      BY <3>1, <3>2, <3>3, RefusedIsDue DEF Kinds, Results
  <2> QED
    BY <2>2, <2>3
<1> QED
  BY <1>1, <1>2, <1>3, <1>4, <1>5, <1>6, <1>7, <1>8, <1>9

(* The writer that appends, closes, is killed or times out.                  *)
LEMMA AppenderIsDue ==
  ASSUME TypeOK, DueInv, NEW w \in Writer,
         \/ BeginAppend(w) \/ InsertConflicts(w) \/ Insert(w) \/ CommitAppend(w) \/ Told(w)
         \/ Close(w) \/ TimeOut(w) \/ Crash(w)
  PROVE  Due(w)'
<1>0. Due(w)
  BY DEF DueInv
<1>1. CASE BeginAppend(w)
  <2>1. /\ writer'[w].pc = "insert" /\ writer'[w].result = writer[w].result
        /\ writer'[w].began = writer[w].began /\ writer'[w].alone = writer[w].alone
        /\ writer[w].pc = "open"
    BY <1>1, ZenonT(60) DEF BeginAppend, TypeOK, WriterState
  <2> QED
    BY <1>0, <2>1 DEF Due, Opening
<1>2. CASE InsertConflicts(w) \/ Told(w)
  <2>1. /\ writer'[w].pc = "open" /\ writer'[w].result = writer[w].result
        /\ writer'[w].began = writer[w].began /\ writer'[w].alone = writer[w].alone
        /\ writer[w].pc \in {"insert", "told"}
    BY <1>2 DEF InsertConflicts, Told, GoesOn, TypeOK, WriterState
  <2> QED
    BY <1>0, <2>1 DEF Due, Opening
<1>3. CASE Insert(w) \/ CommitAppend(w)
  <2>1. /\ writer'[w].pc \in {"commit", "told"} /\ writer'[w].result = writer[w].result
        /\ writer'[w].began = writer[w].began /\ writer'[w].alone = writer[w].alone
        /\ writer[w].pc \in {"insert", "commit"}
    BY <1>3 DEF Insert, CommitAppend, Goes, TypeOK, WriterState
  <2> QED
    BY <1>0, <2>1 DEF Due, Opening
<1>4. CASE Close(w) \/ Crash(w)
  <2>1. writer'[w].pc = "closed" /\ writer'[w].result = "none"
    BY <1>4 DEF Close, Crash, Closed, TypeOK
  <2> QED
    BY <2>1 DEF Due, Opening
<1>5. CASE TimeOut(w)
  BY <1>5, RefusedIsDue DEF TimeOut, Results
<1> QED
  BY <1>1, <1>2, <1>3, <1>4, <1>5

LEMMA DueStep ==
  ASSUME TypeOK, ForeignInv, DueInv, [Next]_vars
  PROVE  DueInv'
<1>1. Whole'
  BY MadeStays DEF DueInv
<1>2. ASSUME NEW w \in Writer, Step(w) \/ TimeOut(w) \/ Crash(w)
      PROVE  \A v \in Writer : Due(v)'
  BY <1>2, OthersStayDue, OpenerIsDue, AppenderIsDue DEF Step
<1>3. ASSUME Read \/ UNCHANGED vars PROVE \A v \in Writer : Due(v)'
  <2>1. writer' = writer /\ file' = file
    BY <1>3 DEF Read, Ask, OpenReadOnly, Select, Fetch, Answer, Finish, vars
  <2> QED
    BY <2>1 DEF DueInv, Due, OverMade, Alone, Reads, Ours
<1>4. ReaderDue'
  <2>1. Validates(file) => Validates(file')
    BY MadeStays
  <2>2. CASE reader' = reader
    BY <2>1, <2>2 DEF DueInv, ReaderDue
  <2>3. CASE \E w \in Writer : CommitAppend(w)
    <3>1. /\ reader'.pc = reader.pc /\ reader'.result = reader.result
          /\ reader'.began = reader.began
      BY <2>3 DEF CommitAppend, TypeOK, ReaderState
    <3> QED
      BY <2>1, <3>1 DEF DueInv, ReaderDue
  <2>4. CASE Ask
    <3>1. /\ reader'.result \in {"none", "unavailable"} /\ reader'.began = Validates(file)
          /\ reader'.pc # "told" => reader'.result = "none"
      BY <2>4 DEF Ask, Idle
    <3> QED
      BY <2>1, <3>1 DEF ReaderDue
  <2>5. CASE OpenReadOnly
    <3>1. /\ reader'.began = reader.began /\ reader.pc = "validate"
          /\ \/ Validates(file) /\ reader'.result = reader.result /\ reader'.pc = "select"
             \/ ~Validates(file) /\ reader'.pc = "told"
      BY <2>5 DEF OpenReadOnly, TypeOK, ReaderState
    <3> QED
      BY <2>1, <3>1 DEF DueInv, ReaderDue
  <2>6. CASE Select \/ Fetch
    <3>1. /\ reader'.began = reader.began /\ reader'.result = reader.result
          /\ reader.pc \in {"select", "fetch"}
      <4>1. CASE Select
        BY <4>1 DEF Select, TypeOK, ReaderState
      <4>2. CASE Fetch
        BY <4>2 DEF Fetch, TypeOK, ReaderState
      <4> QED
        BY <2>6, <4>1, <4>2
    <3> QED
      BY <2>1, <3>1 DEF DueInv, ReaderDue
  <2>7. CASE Answer
    BY <2>7 DEF Answer, ReaderDue, TypeOK, ReaderState
  <2>8. CASE Finish
    BY <2>8 DEF Finish, Idle, ReaderDue
  <2>9. ASSUME NEW w \in Writer, Step(w) \/ TimeOut(w) \/ Crash(w), ~CommitAppend(w)
        PROVE  reader' = reader
    BY <2>9 DEF Step, Open, ReadApplication, ReadVersion, ReadTablesFirst, UseWal,
                ReadTablesAgain, BeginInitialize, InitializeSchema, ValidateExisting,
                BeginAppend, InsertConflicts, Insert, Told, Close, TimeOut, Crash
  <2> QED
    BY <2>2, <2>3, <2>4, <2>5, <2>6, <2>7, <2>8, <2>9 DEF Next, Read, vars
<1> QED
  BY <1>1, <1>2, <1>3, <1>4 DEF Next, DueInv

(* An opening is refused for what the file is or because two writers make it *)
(* at once, whatever a writer killed half way has left behind; a reader that *)
(* asks over a made database is not refused.                                 *)
THEOREM RefusalsAreDue == Spec => []RefusalIsDue
<1>1. Init => DueInv
  <2> SUFFICES ASSUME Init PROVE DueInv
    OBVIOUS
  <2>1. \A w \in Writer : Due(w)
    BY DEF Init, Closed, Due, Opening
  <2>2. Whole
    BY MarksAssumption DEF Init, Whole, Ours
  <2>3. ReaderDue
    BY DEF Init, Idle, ReaderDue
  <2> QED
    BY <2>1, <2>2, <2>3 DEF DueInv
<1>2. Init => ForeignInv
  <2>1. Init => \A w \in Writer : writer[w].pc = "closed"
    BY DEF Init, Closed
  <2> QED
    BY <2>1, MarketAssumption DEF Init, ForeignInv, Kept, Connected
<1>3. TypeOK /\ ForeignInv /\ [Next]_vars => ForeignInv'
  BY ForeignStep
<1>4. TypeOK /\ ForeignInv /\ DueInv /\ [Next]_vars => DueInv'
  BY DueStep
<1>5. DueInv => RefusalIsDue
  BY DEF DueInv, Due, ReaderDue, RefusalIsDue, Opening
<1> QED
  BY <1>1, <1>2, <1>3, <1>4, <1>5, TypeCorrect, PTL DEF Spec
=============================================================================
