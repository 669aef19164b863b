------------------------- MODULE CurrentStateProofs -------------------------
(* Proofs about CurrentState for any number of rebuilders, readers, sessions *)
(* and files, and for operators that start rebuilds whenever they like       *)
(* (SoloUpgrade may be FALSE); and about Replay, for any finished sessions    *)
(* and any events in them.                                                   *)
EXTENDS CurrentState, FiniteSetTheorems, SequenceTheorems, WellFoundedInduction, TLAPS

-----------------------------------------------------------------------------
(* The inductive invariant.                                                  *)

(* A staged file is whole, and nobody else can reach it.                     *)
StagedIsPrivate(p) ==
  run[p].staged # 0 =>
    /\ run[p].staged # path
    /\ store[run[p].staged] = [schema |-> "current", snapshot |-> run[p].plan]
    /\ \A q \in Process : run[q].file # run[p].staged
    /\ \A q \in Process \ {p} : run[q].staged # run[p].staged

(* Who counts, reads or writes rows has a database of this release open;     *)
(* before that it was found to be one, or an empty file.                     *)
OpenedIsCurrent(p) ==
  /\ run[p].pc \in Known => Opened(p).schema = "current"
  /\ run[p].pc \in {"bootstrap", "initialize"} => Opened(p).schema \in {"blank", "current"}

(* What is about to be replaced was recognized as an older database; by now  *)
(* another upgrade may have replaced it.                                     *)
UpgradesOlder(p) ==
  /\ run[p].pc \in {"sidecars", "stage", "replace"} => run[p].upgrade
  /\ run[p].upgrade /\ run[p].pc \in {"probed", "sidecars", "stage", "replace"} =>
       path # 0 /\ store[path].schema \in {"older", "current"}

FilesInv == \A p \in Process : StagedIsPrivate(p) /\ OpenedIsCurrent(p) /\ UpgradesOlder(p)

(* The last reading of a process began when its file held a member of since, *)
(* and since holds all that the file has held from then on.                  *)
FollowsFile(p) ==
  /\ run[p].final => run[p].pc \in {"meta", "ledger", "rows", "closing"}
  /\ run[p].final /\ run[p].pc \in {"meta", "ledger", "rows"} =>
       Opened(p).snapshot \in run[p].since
  /\ run[p].final /\ run[p].pc \in {"ledger", "rows"} =>
       run[p].reading["meta"] \in run[p].since \ {None}
  /\ run[p].result = "done" => run[p].pc = "closing"

(* An answer is what the file held at some moment of the reading.            *)
AnswerIsWhole(p) ==
  run[p].result = "done" =>
    \E S \in run[p].since :
      IF S = None THEN run[p].reading = Nothing ELSE Shows(run[p].reading, S)

ReadingInv == \A p \in Process : AnswerIsWhole(p) /\ FollowsFile(p)

-----------------------------------------------------------------------------
(* A new file is one that nobody has.                                        *)
LEMMA NewFileIsUnused ==
  ASSUME HasRoom
  PROVE  NewFile \in File /\ Unused(NewFile)
  BY DEF HasRoom, NewFile

(* A process that does not run has a state of the right shape.               *)
LEMMA IdleIsRunState == Idle \in RunState
  BY DEF Idle, RunState, Places, Results, Maybe, Reading, Nothing, Parts

(* The initial state has the right shape.                                    *)
LEMMA TypeInit == Init => TypeOK
<1> SUFFICES ASSUME Init PROVE TypeOK
  OBVIOUS
<1>1. run \in [Process -> RunState] /\ \A p \in Process : run[p] = Idle
  BY IdleIsRunState DEF Init
<1>2. PICK content \in {[schema |-> schema, snapshot |-> None] : schema \in Schemas}
                        \cup {[schema |-> "current", snapshot |-> S] : S \in {{}, Early}},
           present \in {0, 1} :
        /\ path = present
        /\ store = [f \in File |-> IF f = 1 /\ present = 1 THEN content ELSE Blank]
  BY DEF Init
<1>3. content \in Content /\ Blank \in Content
  BY CurrentStateAssumption DEF Content, Schemas, Maybe, Blank
<1>4. store \in [File -> Content] /\ path \in File \cup {0}
  BY <1>2, <1>3, CurrentStateAssumption
<1>5. \A p \in Process : Tidy(p)
  BY <1>1 DEF Tidy, Idle, Known, Connected
<1>6. finished \subseteq Session /\ sidecar \in BOOLEAN
  BY CurrentStateAssumption DEF Init
<1>7. stops \in 0..MaxStops /\ reads \in 0..MaxReads
  BY CurrentStateAssumption DEF Init
<1> QED
  BY <1>1, <1>4, <1>5, <1>6, <1>7 DEF TypeOK

(* So has one that has met an error.                                         *)
LEMMA ErrorIsRunState ==
  ASSUME TypeOK, NEW p \in Process, NEW result \in Results
  PROVE  [Idle EXCEPT !.pc = "closing", !.result = result, !.file = run[p].file,
                      !.rw = run[p].rw, !.alone = run[p].alone] \in RunState
  BY IdleIsRunState DEF TypeOK, RunState, Idle, Places

(* An error ends in the place where connections are closed.                  *)
LEMMA EndsKeepsType ==
  ASSUME TypeOK, NEW p \in Process, NEW result \in Results, Ends(p, result),
         UNCHANGED path
  PROVE  run' \in [Process -> RunState] /\ \A q \in Process : Tidy(q)'
  <1> DEFINE r == [Idle EXCEPT !.pc = "closing", !.result = result, !.file = run[p].file,
                               !.rw = run[p].rw, !.alone = run[p].alone]
  <1>1. r \in RunState
    BY ErrorIsRunState
  <1>2. run' = [run EXCEPT ![p] = r]
    BY DEF Ends
  <1>3. r.pc = "closing" /\ r.file = run[p].file /\ r.rw = run[p].rw /\ r.staged = 0
    BY DEF Idle
  <1> QED
    BY <1>1, <1>2, <1>3 DEF TypeOK, Tidy, Known, Connected
(* A transaction changes what a file holds, and the place of who commits.    *)
LEMMA CommitsKeepsType ==
  ASSUME TypeOK, NEW p \in Process, NEW f \in File, NEW snapshot \in Maybe,
         NEW next \in Known, p \in Rebuilder, run[p].pc \in Connected, UNCHANGED path,
         Commits(p, f, snapshot, next)
  PROVE  /\ store' \in [File -> Content]
         /\ run' \in [Process -> RunState]
         /\ \A q \in Process : Tidy(q)'
<1>1. store' \in [File -> Content]
  BY DEF Commits, TypeOK, Content, Schemas
<1> DEFINE seen(q) == IF run[q].final /\ run[q].file = f
                        THEN run[q].since \cup {snapshot} ELSE run[q].since
           place(q) == IF q = p THEN next ELSE run[q].pc
<1>2. \A q \in Process : run[q] \in RunState /\ seen(q) \in SUBSET Maybe /\ place(q) \in Places
  BY DEF TypeOK, RunState, Known, Places
<1>3. \A q \in Process : run'[q] = [run[q] EXCEPT !.since = seen(q), !.pc = place(q)]
  BY DEF Commits
<1> HIDE DEF seen, place
<1>4. \A q \in Process :
         /\ run'[q] \in RunState
         /\ run'[q].pc = place(q) /\ run'[q].file = run[q].file /\ run'[q].staged = run[q].staged
         /\ run'[q].rw = run[q].rw /\ run'[q].plan = run[q].plan
  <2> TAKE q \in Process
  <2> DEFINE r == run[q]  now == run'[q]  s == seen(q)  c == place(q)
  <2>1. r \in RunState /\ s \in SUBSET Maybe /\ c \in Places
    BY <1>2
  <2>2. now = [r EXCEPT !.since = s, !.pc = c]
    BY <1>3
  <2> HIDE DEF r, now, s, c
  <2>3. /\ now \in RunState
        /\ now.pc = c /\ now.file = r.file /\ now.staged = r.staged
        /\ now.rw = r.rw /\ now.plan = r.plan
    BY <2>1, <2>2 DEF RunState
  <2> QED
    BY <2>3 DEF r, now, c
<1>5. run' \in [Process -> RunState]
  BY <1>4 DEF Commits
<1>6. ASSUME NEW q \in Process PROVE Tidy(q)'
  <2>1. CASE q = p
    <3>1. run'[q].pc = next
      BY <1>4, <2>1 DEF place
    <3>2. Tidy(p)
      BY DEF TypeOK
    <3> QED
      BY <1>4, <2>1, <3>1, <3>2, CurrentStateAssumption DEF Tidy, Known, Connected
  <2>2. CASE q # p
    <3>1. run'[q].pc = run[q].pc
      BY <1>4, <2>2 DEF place
    <3> QED
      BY <1>4, <3>1 DEF TypeOK, Tidy
  <2> QED
    BY <2>1, <2>2
<1> QED
  BY <1>1, <1>5, <1>6

(* Who starts has its new state; the others know that they are not alone.    *)
LEMMA StartsKeepsType ==
  ASSUME TypeOK, NEW p \in Process, NEW state \in RunState, Starts(p, state),
         UNCHANGED path
  PROVE  /\ run' \in [Process -> RunState]
         /\ \A q \in Process \ {p} : Tidy(q)'
         /\ run'[p] = [state EXCEPT !.alone = (Running = {})]
<1>1. \A q \in Process : [run[q] EXCEPT !.alone = FALSE] \in RunState
  BY DEF TypeOK, RunState
<1>2. [state EXCEPT !.alone = (Running = {})] \in RunState
  BY DEF RunState
<1>3. run' \in [Process -> RunState] /\ run'[p] = [state EXCEPT !.alone = (Running = {})]
  BY <1>1, <1>2 DEF Starts
<1>4. ASSUME NEW q \in Process \ {p} PROVE Tidy(q)'
  <2>1. run'[q] = [run[q] EXCEPT !.alone = FALSE]
    BY DEF Starts
  <2>2. /\ run'[q].pc = run[q].pc /\ run'[q].file = run[q].file /\ run'[q].staged = run[q].staged
        /\ run'[q].rw = run[q].rw /\ run'[q].plan = run[q].plan
    BY <2>1 DEF TypeOK, RunState
  <2> QED
    BY <2>2 DEF TypeOK, Tidy
<1> QED
  BY <1>3, <1>4
(* A step of one process keeps the shape if its new state has it.            *)
LEMMA StepKeepsType ==
  ASSUME TypeOK, NEW p \in Process, NEW state \in RunState, Tidy(p)',
         run' = [run EXCEPT ![p] = state],
         path' \in File \cup {0}, path # 0 => path' # 0,
         store' \in [File -> Content], sidecar' \in BOOLEAN, finished' \subseteq Session,
         stops' \in 0..MaxStops, reads' \in 0..MaxReads
  PROVE  TypeOK'
<1>1. run' \in [Process -> RunState]
  BY DEF TypeOK
<1>2. \A q \in Process : Tidy(q)'
  <2> TAKE q \in Process
  <2>1. q # p => run'[q] = run[q]
    BY DEF TypeOK
  <2> QED
    BY <2>1 DEF TypeOK, Tidy
<1> QED
  BY <1>1, <1>2 DEF TypeOK

(* What is at a file is a content; its snapshot may be one.                  *)
LEMMA OpenedIsContent ==
  ASSUME TypeOK, NEW p \in Process, run[p].pc \in Connected
  PROVE  /\ run[p].file \in File /\ Opened(p) \in Content /\ Opened(p).snapshot \in Maybe
         /\ Opened(p) = store[run[p].file]
  BY DEF TypeOK, Tidy, Opened, Content, RunState

(* Two fields that many steps set.                                           *)
LEMMA PlaceAndFile ==
  ASSUME NEW r \in RunState, NEW pc \in Places, NEW file \in File \cup {0}, NEW rw \in BOOLEAN
  PROVE  /\ [r EXCEPT !.pc = pc] \in RunState
         /\ [r EXCEPT !.pc = pc, !.file = file, !.rw = rw] \in RunState
  BY DEF RunState

(* A process that has a file open and goes on within the current database.   *)
LEMMA GoesKeepsType ==
  ASSUME TypeOK, NEW p \in Process, NEW from \in Places, NEW next \in Places,
         Steps(p, from), Goes(p, next), UNCHANGED <<finished, path, store, sidecar, stops, reads>>,
         \/ from \in Known /\ next \in Known \ {"commit"}
         \/ from = "sidecars" /\ next = "stage"
         \/ from = "bootstrap" /\ next \in {"initialize", "count"}
  PROVE  TypeOK'
<1> DEFINE r == run[p]  state == [r EXCEPT !.pc = next]
<1>1. r \in RunState /\ Tidy(p) /\ r.pc = from
  BY DEF TypeOK, Steps
<1>2. run' = [run EXCEPT ![p] = state]
  BY DEF Goes
<1>3. state \in RunState /\ state.pc = next /\ state.file = r.file /\ state.rw = r.rw
      /\ state.staged = r.staged /\ state.plan = r.plan
  BY <1>1, PlaceAndFile DEF RunState
<1>4. run'[p] = state
  BY <1>2 DEF TypeOK
<1> HIDE DEF state
<1>5. Tidy(p)'
  BY <1>1, <1>3, <1>4 DEF Tidy, Known, Connected
<1> QED
  BY <1>2, <1>3, <1>5, StepKeepsType DEF TypeOK

(* A validation that found nothing wrong.                                    *)
LEMMA ValidatedKeepsType ==
  ASSUME TypeOK, NEW p \in Process, Validated(p), run[p].pc \in {"countRows", "meta", "rows"},
         UNCHANGED <<finished, path, store, sidecar, stops, reads>>
  PROVE  TypeOK'
<1> DEFINE r == run[p]  found == {Opened(p).snapshot}
           state == IF p \in Rebuilder /\ ~r.upgrade
                      THEN [r EXCEPT !.pc = "commit", !.reading = Nothing]
                      ELSE [r EXCEPT !.pc = "meta", !.final = TRUE, !.since = found,
                                     !.reading = Nothing]
<1>1. r \in RunState /\ Tidy(p) /\ r.pc \in Known
  BY DEF TypeOK, Known
<1>2. found \in SUBSET Maybe /\ Nothing \in Reading
  BY <1>1, OpenedIsContent DEF Connected, Nothing, Reading, Maybe
<1>3. run' = [run EXCEPT ![p] = state]
  BY DEF Validated
<1> HIDE DEF found
<1>4. state \in RunState /\ state.pc \in {"commit", "meta"} /\ state.file = r.file /\ state.rw = r.rw
      /\ state.staged = r.staged /\ state.plan = r.plan
      /\ (p \notin Rebuilder => state.pc = "meta")
  <2>1. CASE p \in Rebuilder /\ ~r.upgrade
    BY <1>1, <1>2, <2>1 DEF RunState, Places
  <2>2. CASE ~(p \in Rebuilder /\ ~r.upgrade)
    BY <1>1, <1>2, <2>2 DEF RunState, Places
  <2> QED
    BY <2>1, <2>2
<1>5. run'[p] = state
  BY <1>3 DEF TypeOK
<1> HIDE DEF state
<1>6. Tidy(p)'
  BY <1>1, <1>4, <1>5, CurrentStateAssumption DEF Tidy, Known, Connected
<1> QED
  BY <1>3, <1>4, <1>6, StepKeepsType DEF TypeOK

(* A step that only ends in an error.                                        *)
LEMMA ErrorKeepsType ==
  ASSUME TypeOK, NEW p \in Process, NEW result \in Results, Ends(p, result),
         UNCHANGED <<finished, path, store, sidecar, stops, reads>>
  PROVE  TypeOK'
  BY EndsKeepsType DEF TypeOK

(* A snapshot that was read validates the database or is the answer.         *)
LEMMA HasReadKeepsType ==
  ASSUME TypeOK, NEW p \in Process, NEW reading \in Reading, HasRead(p, reading),
         run[p].pc \in {"meta", "rows"},
         UNCHANGED <<finished, path, store, sidecar, stops, reads>>
  PROVE  TypeOK'
<1>1. CASE ~run[p].final
  BY <1>1, ValidatedKeepsType DEF HasRead
<1>2. CASE run[p].final /\ p \in Rebuilder /\ run[p].upgrade /\ reading["meta"] # run[p].plan
  BY <1>2, ErrorKeepsType DEF HasRead, Results, Errors
<1>3. CASE run[p].final /\ ~(p \in Rebuilder /\ run[p].upgrade /\ reading["meta"] # run[p].plan)
  <2> DEFINE r == run[p]
             state == [r EXCEPT !.pc = "closing", !.result = "done", !.reading = reading]
  <2>1. run' = [run EXCEPT ![p] = state]
    BY <1>3 DEF HasRead
  <2>2. r \in RunState /\ Tidy(p) /\ r.pc \in Known /\ r.pc \notin {"replace", "reopen"}
    BY DEF TypeOK, Known
  <2>3. state \in RunState /\ state.pc = "closing" /\ state.file = r.file /\ state.rw = r.rw
        /\ state.staged = r.staged /\ state.plan = r.plan
    BY <2>2 DEF RunState, Places, Results
  <2>4. run'[p] = state
    BY <2>1 DEF TypeOK
  <2> HIDE DEF state
  <2>5. Tidy(p)'
    BY <2>2, <2>3, <2>4 DEF Tidy, Known, Connected
  <2> QED
    BY <2>1, <2>3, <2>5, StepKeepsType DEF TypeOK
<1> QED
  BY <1>1, <1>2, <1>3

(* Parts are read one after the other.                                       *)
LEMMA ReadIsReading ==
  ASSUME TypeOK, NEW p \in Process, NEW part \in Parts, run[p].pc \in Connected
  PROVE  Read(p, part) \in Reading
<1>1. run[p].reading \in Reading /\ Opened(p).snapshot \in Maybe
  BY OpenedIsContent DEF TypeOK, RunState
<1> QED
  BY <1>1 DEF Read, Reading

(* A part that was read goes to the process that reads.                      *)
LEMMA ReadingKeepsType ==
  ASSUME TypeOK, NEW p \in Process, NEW part \in Parts,
         NEW next \in {"ledger", "rows"}, run[p].pc \in {"meta", "ledger"},
         run' = [run EXCEPT ![p].pc = next, ![p].reading = Read(p, part)],
         UNCHANGED <<finished, path, store, sidecar, stops, reads>>
  PROVE  TypeOK'
<1> DEFINE r == run[p]  reading == Read(p, part)
           state == [r EXCEPT !.pc = next, !.reading = reading]
<1>1. run' = [run EXCEPT ![p] = state]
  OBVIOUS
<1>2. r \in RunState /\ Tidy(p) /\ r.pc \in Known /\ reading \in Reading
  BY ReadIsReading DEF TypeOK, Known, Connected
<1> HIDE DEF reading
<1>3. state \in RunState /\ state.pc = next /\ state.file = r.file /\ state.rw = r.rw
      /\ state.staged = r.staged /\ state.plan = r.plan
  BY <1>2 DEF RunState, Places
<1>4. run'[p] = state
  BY <1>1 DEF TypeOK
<1> HIDE DEF state
<1>5. Tidy(p)'
  BY <1>2, <1>3, <1>4 DEF Tidy, Known, Connected
<1> QED
  BY <1>1, <1>3, <1>5, StepKeepsType DEF TypeOK

(* A connection that only reads, to the file at the path.                    *)
LEMMA OpensIsRunState ==
  ASSUME TypeOK, path # 0, NEW r \in RunState
  PROVE  /\ OpensReadOnly(r) \in RunState
         /\ OpensReadOnly(r).pc \in {"count", "closing"}
         /\ OpensReadOnly(r).file = path /\ OpensReadOnly(r).file # 0
         /\ OpensReadOnly(r).rw = FALSE
         /\ OpensReadOnly(r).staged = r.staged /\ OpensReadOnly(r).plan = r.plan
<1> DEFINE pc == IF store[path].schema = "current" THEN "count" ELSE "closing"
           result == IF store[path].schema = "current" THEN "none" ELSE "incompatible"
<1>1. path \in File /\ pc \in Places /\ pc \in {"count", "closing"} /\ result \in Results
  BY DEF TypeOK, Places, Results, Errors
<1>2. 0 \notin File
  BY CurrentStateAssumption
<1>3. OpensReadOnly(r) = [r EXCEPT !.file = path, !.rw = FALSE, !.pc = pc, !.result = result]
  BY DEF OpensReadOnly
<1> HIDE DEF pc, result
<1> QED
  BY <1>1, <1>2, <1>3, ZenonT(60) DEF RunState

(* How a rebuild starts: by looking at the path, or refused at once.         *)
LEMMA LaunchIs ==
  ASSUME TypeOK, NEW b \in Rebuilder, Launch(b)
  PROVE  \E state \in RunState :
           /\ Starts(b, state)
           /\ state.file = 0 /\ state.staged = 0 /\ ~state.upgrade /\ ~state.final
           /\ state.plan = finished
           /\ \/ Replays[finished] /\ state.pc = "probe" /\ state.result = "none"
              \/ ~Replays[finished] /\ state.pc = "closing" /\ state.result = "invalid"
<1>1. CASE Replays[finished]
  <2> DEFINE state == [Idle EXCEPT !.pc = "probe", !.plan = finished]
  <2>1. /\ state \in RunState /\ state.file = 0 /\ state.staged = 0 /\ ~state.upgrade
        /\ ~state.final /\ state.plan = finished /\ state.pc = "probe" /\ state.result = "none"
    BY IdleIsRunState DEF RunState, Idle, Places, TypeOK, Maybe
  <2>2. Starts(b, state)
    BY <1>1 DEF Launch
  <2> HIDE DEF state
  <2> QED
    BY <1>1, <2>1, <2>2
<1>2. CASE ~Replays[finished]
  <2> DEFINE state == [Idle EXCEPT !.pc = "closing", !.plan = finished, !.result = "invalid"]
  <2>1. /\ state \in RunState /\ state.file = 0 /\ state.staged = 0 /\ ~state.upgrade
        /\ ~state.final /\ state.plan = finished /\ state.pc = "closing"
        /\ state.result = "invalid"
    BY IdleIsRunState DEF RunState, Idle, Places, TypeOK, Maybe, Results, Errors
  <2>2. Starts(b, state)
    BY <1>2 DEF Launch
  <2> HIDE DEF state
  <2> QED
    BY <1>2, <2>1, <2>2
<1> QED
  BY <1>1, <1>2

(* The operations keep the shape of the state.                               *)
LEMMA TypeStep == TypeOK /\ [Next]_vars => TypeOK'
<1> SUFFICES ASSUME TypeOK, [Next]_vars PROVE TypeOK'
  OBVIOUS
<1> USE CurrentStateAssumption
<1>0. ASSUME NEW p \in Process
      PROVE  run[p] \in RunState /\ Tidy(p)
  BY DEF TypeOK
<1>1. CASE UNCHANGED vars
  BY <1>1 DEF vars, TypeOK, Tidy
<1>2. ASSUME NEW s \in Session, EndSession(s) PROVE TypeOK'
  BY <1>2 DEF EndSession, TypeOK, Tidy
<1>3. ASSUME NEW b \in Rebuilder, Launch(b) PROVE TypeOK'
  <2>1. PICK state \in RunState :
               /\ Starts(b, state)
               /\ state.file = 0 /\ state.staged = 0 /\ ~state.upgrade /\ ~state.final
               /\ state.plan = finished
               /\ \/ state.pc = "probe" /\ state.result = "none"
                  \/ state.pc = "closing" /\ state.result = "invalid"
    BY <1>3, LaunchIs
  <2>2. UNCHANGED <<finished, path, store, sidecar, stops, reads>>
    BY <1>3 DEF Launch
  <2>3. /\ run' \in [Process -> RunState]
        /\ \A q \in Process \ {b} : Tidy(q)'
        /\ run'[b] = [state EXCEPT !.alone = (Running = {})]
    BY <2>1, <2>2, StartsKeepsType DEF Process
  <2>4. Tidy(b)'
    <3>1. /\ run'[b].pc = state.pc /\ run'[b].file = 0 /\ run'[b].staged = 0
          /\ run'[b].plan = finished /\ b \notin Reader
      BY <2>1, <2>3, CurrentStateAssumption DEF RunState
    <3>2. finished # None
      BY CurrentStateAssumption DEF TypeOK
    <3> QED
      BY <2>1, <3>1, <3>2 DEF Tidy, Known, Connected
  <2> QED
    BY <2>2, <2>3, <2>4 DEF TypeOK
<1>5. ASSUME NEW p \in Process, Probe(p) PROVE TypeOK'
  <2>1. CASE path = 0
    <3> DEFINE state == [run[p] EXCEPT !.pc = "open"]
    <3>1. run' = [run EXCEPT ![p] = state] /\ UNCHANGED <<finished, path, store, sidecar, stops, reads>>
      BY <1>5, <2>1 DEF Probe, Goes
    <3>2. state \in RunState
      BY <1>0, PlaceAndFile DEF Places
    <3>4. Tidy(p)'
      BY <1>0, <1>5, <3>1 DEF TypeOK, Tidy, Probe, Steps, Known, Connected, RunState
    <3> QED
      BY <3>1, <3>2, <3>4, StepKeepsType DEF TypeOK
  <2>2. CASE path # 0
    <3> DEFINE r == run[p]  older == (store[path].schema = "older")
               state == [r EXCEPT !.pc = "probed", !.file = path, !.rw = TRUE, !.upgrade = older]
    <3>1. run' = [run EXCEPT ![p] = state] /\ UNCHANGED <<finished, path, store, stops, reads>>
      BY <1>5, <2>2 DEF Probe
    <3>2. r \in RunState /\ older \in BOOLEAN /\ path \in File
      BY <2>2 DEF TypeOK
    <3>3. sidecar' \in BOOLEAN
      BY <1>5, <2>2 DEF Probe, Beside, TypeOK
    <3>4. p \in Rebuilder /\ r.pc = "probe" /\ r.staged = 0 /\ r.plan # None
      BY <1>0, <1>5 DEF Probe, Steps, Tidy, Process, Known
    <3> HIDE DEF r, older
    <3>5. state \in RunState /\ state.pc = "probed" /\ state.file = path /\ state.staged = 0
          /\ state.plan # None
      BY <3>2, <3>4 DEF RunState, Places
    <3>6. Tidy(p)'
      BY <2>2, <3>1, <3>4, <3>5 DEF TypeOK, Tidy, Known, Connected
    <3> QED
      BY <3>1, <3>3, <3>5, <3>6, StepKeepsType DEF TypeOK
  <2> QED
    BY <2>1, <2>2
<1>6. ASSUME NEW p \in Process, ProbeCloses(p) PROVE TypeOK'
  <2> DEFINE r == run[p]  next == IF r.upgrade THEN "sidecars" ELSE "open"
             state == [r EXCEPT !.pc = next, !.file = 0, !.rw = FALSE]
  <2>1. run' = [run EXCEPT ![p] = state] /\ UNCHANGED <<finished, path, store, stops, reads>>
    BY <1>6 DEF ProbeCloses
  <2>2. sidecar' \in BOOLEAN
    BY <1>6 DEF ProbeCloses, AfterClose
  <2>3. /\ r \in RunState /\ r.staged = 0 /\ p \in Rebuilder /\ r.plan # None
        /\ next \in Places /\ next \in {"sidecars", "open"}
    BY <1>0, <1>6 DEF ProbeCloses, Steps, Tidy, Process, Known, Places
  <2> HIDE DEF r, next
  <2>4. state \in RunState /\ state.pc = next /\ state.file = 0 /\ state.staged = 0
        /\ state.plan # None
    BY <2>3 DEF RunState
  <2>5. run'[p] = state
    BY <2>1 DEF TypeOK
  <2> HIDE DEF state
  <2>6. Tidy(p)'
    BY <2>3, <2>4, <2>5 DEF Tidy, Known, Connected
  <2> QED
    BY <2>1, <2>2, <2>4, <2>6, StepKeepsType DEF TypeOK
<1>7. ASSUME NEW p \in Process, CheckSidecars(p) PROVE TypeOK'
  <2>1. UNCHANGED <<finished, path, store, sidecar, stops, reads>> /\ Steps(p, "sidecars")
    BY <1>7 DEF CheckSidecars
  <2>2. CASE sidecar
    BY <1>7, <2>1, <2>2, ErrorKeepsType DEF CheckSidecars, Results, Errors
  <2>3. CASE ~sidecar
    BY <1>7, <2>1, <2>3, GoesKeepsType DEF CheckSidecars, Places
  <2> QED
    BY <2>2, <2>3
<1>8. ASSUME NEW p \in Process, Stage(p) PROVE TypeOK'
  <2> DEFINE r == run[p]  f == NewFile
             state == [r EXCEPT !.pc = "replace", !.staged = f]
  <2>1. /\ run' = [run EXCEPT ![p] = state] /\ UNCHANGED <<finished, path, sidecar, stops, reads>>
        /\ store' = [store EXCEPT ![f] = [schema |-> "current", snapshot |-> r.plan]]
    BY <1>8 DEF Stage
  <2>2. f \in File /\ f # 0
    BY <1>8, NewFileIsUnused DEF Stage
  <2>3. r \in RunState /\ r.pc = "stage" /\ r.file = 0 /\ p \in Rebuilder /\ r.plan # None
    BY <1>0, <1>8 DEF Stage, Steps, Tidy, Process, Known, Connected
  <2> HIDE DEF r, f
  <2>4. state \in RunState /\ state.pc = "replace" /\ state.file = 0 /\ state.staged = f
        /\ state.plan # None
    BY <2>2, <2>3 DEF RunState, Places
  <2>5. [schema |-> "current", snapshot |-> r.plan] \in Content
    BY <2>3 DEF RunState, Content, Schemas
  <2>6. store' \in [File -> Content]
    BY <2>1, <2>5 DEF TypeOK
  <2>7. run'[p] = state
    BY <2>1 DEF TypeOK
  <2> HIDE DEF state
  <2>8. Tidy(p)'
    BY <2>2, <2>3, <2>4, <2>7 DEF Tidy, Known, Connected
  <2> QED
    BY <2>1, <2>4, <2>6, <2>8, StepKeepsType DEF TypeOK
<1>9. ASSUME NEW p \in Process, Replace(p) PROVE TypeOK'
  <2> DEFINE r == run[p]  state == [r EXCEPT !.pc = "reopen", !.staged = 0]
  <2>1. /\ run' = [run EXCEPT ![p] = state] /\ UNCHANGED <<finished, store, sidecar, stops, reads>>
        /\ path' = r.staged
    BY <1>9 DEF Replace
  <2>2. /\ r \in RunState /\ r.pc = "replace" /\ r.file = 0 /\ r.staged # 0 /\ p \in Rebuilder
        /\ r.plan # None
    BY <1>0, <1>9 DEF Replace, Steps, Tidy, Process, Known, Connected
  <2>3. path' \in File \cup {0} /\ path' # 0
    BY <2>1, <2>2 DEF RunState
  <2> HIDE DEF r
  <2>4. state \in RunState /\ state.pc = "reopen" /\ state.file = 0 /\ state.staged = 0
        /\ state.plan # None
    BY <2>2 DEF RunState, Places
  <2>5. run'[p] = state
    BY <2>1 DEF TypeOK
  <2> HIDE DEF state
  <2>6. Tidy(p)'
    BY <2>2, <2>3, <2>4, <2>5 DEF Tidy, Known, Connected
  <2> QED
    BY <2>1, <2>3, <2>4, <2>6, StepKeepsType DEF TypeOK
<1>10. ASSUME NEW p \in Process, Reopen(p) PROVE TypeOK'
  <2> DEFINE state == OpensReadOnly(run[p])
  <2>1. /\ run' = [run EXCEPT ![p] = state] /\ UNCHANGED <<finished, path, store, stops, reads>>
    BY <1>10 DEF Reopen
  <2>2. sidecar' \in BOOLEAN
    BY <1>10 DEF Reopen, Beside, TypeOK
  <2>3. /\ path # 0 /\ run[p].staged = 0 /\ p \in Rebuilder /\ run[p].plan # None
    BY <1>0, <1>10 DEF Reopen, Steps, Tidy, Process, Known
  <2>4. /\ state \in RunState /\ state.pc \in {"count", "closing"} /\ state.file # 0
        /\ state.staged = 0 /\ state.plan # None
    BY <1>0, <2>3, OpensIsRunState
  <2>5. run'[p] = state
    BY <2>1 DEF TypeOK
  <2> HIDE DEF state
  <2>6. Tidy(p)'
    BY <2>3, <2>4, <2>5 DEF Tidy, Known, Connected
  <2> QED
    BY <2>1, <2>2, <2>4, <2>6, StepKeepsType DEF TypeOK
<1>4. ASSUME NEW p \in Reader, Find(p) PROVE TypeOK'
  <2>1. reads' \in 0..MaxReads /\ UNCHANGED <<finished, path, store, stops>>
    BY <1>4 DEF Find, TypeOK
  <2>2. p \in Process /\ p \notin Rebuilder
    BY DEF Process
  <2>3. PICK state \in RunState :
          /\ Starts(p, state)
          /\ state.pc \in {"count", "closing"} /\ state.rw = FALSE /\ state.staged = 0
          /\ state.pc = "count" => state.file # 0
    <3>1. CASE path = 0
      <4> DEFINE state == [Idle EXCEPT !.pc = "closing", !.result = "done", !.since = {None}]
      <4>1. Starts(p, state)
        BY <1>4, <3>1 DEF Find
      <4>2. state \in RunState /\ state.pc = "closing" /\ state.rw = FALSE /\ state.staged = 0
        BY IdleIsRunState DEF RunState, Idle, Places, Results, Maybe
      <4> QED
        BY <4>1, <4>2
    <3>2. CASE path # 0
      <4>1. Starts(p, OpensReadOnly(Idle))
        BY <1>4, <3>2 DEF Find
      <4>2. OpensReadOnly(Idle).staged = 0
        BY <3>2, IdleIsRunState, OpensIsRunState DEF Idle
      <4> QED
        BY <3>2, <4>1, <4>2, IdleIsRunState, OpensIsRunState
    <3> QED
      BY <3>1, <3>2
  <2>4. sidecar' \in BOOLEAN
    BY <1>4 DEF Find, Beside, TypeOK
  <2>5. /\ run' \in [Process -> RunState]
        /\ \A q \in Process \ {p} : Tidy(q)'
        /\ run'[p] = [state EXCEPT !.alone = (Running = {})]
    BY <2>1, <2>2, <2>3, StartsKeepsType
  <2>6. Tidy(p)'
    BY <2>2, <2>3, <2>5 DEF Tidy, RunState, Known, Connected
  <2> QED
    BY <2>1, <2>4, <2>5, <2>6 DEF TypeOK
<1>11. ASSUME NEW p \in Process, Connect(p) PROVE TypeOK'
  <2> DEFINE r == run[p]  f == IF path = 0 THEN NewFile ELSE path
             marked == store'[f].schema # "blank"
             state == [r EXCEPT !.pc = "preflight", !.file = f, !.rw = TRUE, !.marked = marked]
  <2>1. /\ run' = [run EXCEPT ![p] = state] /\ UNCHANGED <<finished, stops, reads>>
        /\ path' = f /\ store' = IF path = 0 THEN [store EXCEPT ![f] = Blank] ELSE store
        /\ sidecar' = (sidecar \/ marked)
    BY <1>11 DEF Connect
  <2>2. f \in File /\ f # 0
    BY <1>11, NewFileIsUnused DEF Connect, TypeOK
  <2>3. /\ r \in RunState /\ r.pc = "open" /\ r.staged = 0 /\ p \in Rebuilder /\ r.plan # None
        /\ marked \in BOOLEAN
    BY <1>0, <1>11 DEF Connect, Steps, Tidy, Process, Known, Connected
  <2>4. store' \in [File -> Content]
    BY <2>1, <2>2 DEF TypeOK, Content, Blank, Schemas, Maybe
  <2> HIDE DEF r, f, marked
  <2>5. state \in RunState /\ state.pc = "preflight" /\ state.file = f /\ state.staged = 0
        /\ state.plan # None
    BY <2>2, <2>3, ZenonT(60) DEF RunState, Places
  <2>6. run'[p] = state
    BY <2>1 DEF TypeOK
  <2>7. sidecar' \in BOOLEAN
    BY <2>1, <2>3 DEF TypeOK
  <2> HIDE DEF state
  <2>8. Tidy(p)'
    BY <2>2, <2>3, <2>5, <2>6 DEF Tidy, Known, Connected
  <2> QED
    BY <2>1, <2>2, <2>4, <2>5, <2>7, <2>8, StepKeepsType DEF TypeOK
<1>12. ASSUME NEW p \in Process, Preflight(p) PROVE TypeOK'
  <2>1. UNCHANGED <<finished, path, store, stops, reads>> /\ Steps(p, "preflight")
    BY <1>12 DEF Preflight
  <2>2. CASE Opened(p).schema = (IF run[p].marked THEN "current" ELSE "blank")
    <3> DEFINE r == run[p]  state == [r EXCEPT !.pc = "bootstrap", !.marked = FALSE]
    <3>1. run' = [run EXCEPT ![p] = state]
      BY <1>12, <2>2 DEF Preflight
    <3>2. sidecar' \in BOOLEAN
      BY <1>12, <2>2 DEF Preflight, TypeOK
    <3>3. /\ r \in RunState /\ r.staged = 0 /\ p \in Rebuilder /\ r.plan # None /\ r.file # 0
      BY <1>0, <2>1 DEF Steps, Tidy, Process, Known, Connected
    <3> HIDE DEF r
    <3>4. state \in RunState /\ state.pc = "bootstrap" /\ state.file = r.file /\ state.staged = 0
          /\ state.plan # None
      BY <3>3 DEF RunState, Places
    <3>5. run'[p] = state
      BY <3>1 DEF TypeOK
    <3> HIDE DEF state
    <3>6. Tidy(p)'
      BY <3>3, <3>4, <3>5 DEF Tidy, Known, Connected
    <3> QED
      BY <2>1, <3>1, <3>2, <3>4, <3>6, StepKeepsType DEF TypeOK
  <2>3. CASE Opened(p).schema # (IF run[p].marked THEN "current" ELSE "blank")
    BY <1>12, <2>1, <2>3, ErrorKeepsType DEF Preflight, Results, Errors
  <2> QED
    BY <2>2, <2>3
<1>13. ASSUME NEW p \in Process, Bootstrap(p) PROVE TypeOK'
  <2> DEFINE next == IF Opened(p).schema = "blank" THEN "initialize" ELSE "count"
  <2>1. Steps(p, "bootstrap") /\ Goes(p, next)
        /\ UNCHANGED <<finished, path, store, sidecar, stops, reads>>
    BY <1>13 DEF Bootstrap
  <2>2. next \in {"initialize", "count"}
    OBVIOUS
  <2> QED
    BY <2>1, <2>2, GoesKeepsType DEF Places
<1>14. ASSUME NEW p \in Process, Initialize(p) PROVE TypeOK'
  <2>1. UNCHANGED <<finished, path, sidecar, stops, reads>> /\ Steps(p, "initialize")
    BY <1>14 DEF Initialize
  <2>2. CASE Opened(p).schema = "blank"
    <3>1. Commits(p, run[p].file, None, "count")
      BY <1>14, <2>2 DEF Initialize
    <3>2. p \in Rebuilder /\ run[p].file \in File /\ run[p].pc \in Connected
      BY <1>0, <2>1, OpenedIsContent DEF Steps, Tidy, Process, Known, Connected
    <3>3. /\ store' \in [File -> Content]
          /\ run' \in [Process -> RunState]
          /\ \A q \in Process : Tidy(q)'
      BY <2>1, <3>1, <3>2, CommitsKeepsType DEF Known, Maybe
    <3> QED
      BY <2>1, <3>3 DEF TypeOK
  <2>3. CASE Opened(p).schema # "blank"
    BY <1>14, <2>1, <2>3, ErrorKeepsType DEF Initialize, Results, Errors
  <2> QED
    BY <2>2, <2>3
<1>15. ASSUME NEW p \in Process, CountMeta(p) PROVE TypeOK'
  <2> DEFINE r == run[p]  some == Opened(p).snapshot # None
             state == [r EXCEPT !.pc = "countRows", !.some = some]
  <2>1. run' = [run EXCEPT ![p] = state] /\ UNCHANGED <<finished, path, store, sidecar, stops, reads>>
    BY <1>15 DEF CountMeta
  <2>2. r \in RunState /\ Tidy(p) /\ r.pc = "count" /\ some \in BOOLEAN
    BY <1>0, <1>15 DEF CountMeta, Steps
  <2> HIDE DEF some
  <2>3. state \in RunState /\ state.pc = "countRows" /\ state.file = r.file /\ state.rw = r.rw
        /\ state.staged = r.staged /\ state.plan = r.plan
    BY <2>2 DEF RunState, Places
  <2>4. run'[p] = state
    BY <2>1 DEF TypeOK
  <2> HIDE DEF state
  <2>5. Tidy(p)'
    BY <2>2, <2>3, <2>4 DEF Tidy, Known, Connected
  <2> QED
    BY <2>1, <2>3, <2>5, StepKeepsType DEF TypeOK
<1>16. ASSUME NEW p \in Process, CountRows(p) PROVE TypeOK'
  <2>1. UNCHANGED <<finished, path, store, sidecar, stops, reads>> /\ Steps(p, "countRows")
    BY <1>16 DEF CountRows
  <2>2. CASE run[p].some
    <3> DEFINE r == run[p]  state == [r EXCEPT !.pc = "meta", !.some = FALSE]
    <3>1. run' = [run EXCEPT ![p] = state]
      BY <1>16, <2>2 DEF CountRows
    <3>2. r \in RunState /\ Tidy(p) /\ r.pc = "countRows"
      BY <1>0, <2>1 DEF Steps
    <3>3. state \in RunState /\ state.pc = "meta" /\ state.file = r.file /\ state.rw = r.rw
          /\ state.staged = r.staged /\ state.plan = r.plan
      BY <3>2 DEF RunState, Places
    <3>4. run'[p] = state
      BY <3>1 DEF TypeOK
    <3> HIDE DEF state
    <3>5. Tidy(p)'
      BY <3>2, <3>3, <3>4 DEF Tidy, Known, Connected
    <3> QED
      BY <2>1, <3>1, <3>3, <3>5, StepKeepsType DEF TypeOK
  <2>3. CASE ~run[p].some /\ Opened(p).snapshot \in {None, {}}
    BY <1>16, <2>1, <2>3, ValidatedKeepsType DEF CountRows, Steps
  <2>4. CASE ~run[p].some /\ Opened(p).snapshot \notin {None, {}}
    BY <1>16, <2>1, <2>4, ErrorKeepsType DEF CountRows, Results, Errors
  <2> QED
    BY <2>2, <2>3, <2>4
<1>17. ASSUME NEW p \in Process, ReadMeta(p) PROVE TypeOK'
  <2>1. UNCHANGED <<finished, path, store, sidecar, stops, reads>> /\ run[p].pc = "meta"
    BY <1>17 DEF ReadMeta, Steps
  <2>2. CASE Opened(p).snapshot = None
    <3>1. HasRead(p, Nothing) /\ Nothing \in Reading
      BY <1>17, <2>2 DEF ReadMeta, Nothing, Reading, Maybe
    <3> QED
      BY <2>1, <3>1, HasReadKeepsType
  <2>3. CASE Opened(p).snapshot # None
    <3>1. run' = [run EXCEPT ![p].pc = "ledger", ![p].reading = Read(p, "meta")]
      BY <1>17, <2>3 DEF ReadMeta
    <3> QED
      BY <2>1, <3>1, ReadingKeepsType DEF Parts
  <2> QED
    BY <2>2, <2>3
<1>18. ASSUME NEW p \in Process, ReadLedger(p) PROVE TypeOK'
  <2>1. /\ UNCHANGED <<finished, path, store, sidecar, stops, reads>> /\ run[p].pc = "ledger"
        /\ run' = [run EXCEPT ![p].pc = "rows", ![p].reading = Read(p, "ledger")]
    BY <1>18 DEF ReadLedger, Steps
  <2> QED
    BY <2>1, ReadingKeepsType DEF Parts
<1>19. ASSUME NEW p \in Process, ReadRows(p) PROVE TypeOK'
  <2>1. UNCHANGED <<finished, path, store, sidecar, stops, reads>> /\ run[p].pc = "rows"
    BY <1>19 DEF ReadRows, Steps
  <2>2. CASE Coherent(Read(p, "rows"))
    <3>1. HasRead(p, Read(p, "rows"))
      BY <1>19, <2>2 DEF ReadRows
    <3>2. Read(p, "rows") \in Reading
      BY <2>1, ReadIsReading DEF Parts, Connected, Known
    <3> QED
      BY <2>1, <3>1, <3>2, HasReadKeepsType
  <2>3. CASE ~Coherent(Read(p, "rows"))
    BY <1>19, <2>1, <2>3, ErrorKeepsType DEF ReadRows, Results, Errors
  <2> QED
    BY <2>2, <2>3
<1>20. ASSUME NEW p \in Process, Commit(p) PROVE TypeOK'
  <2> DEFINE plan == run[p].plan  f == run[p].file
             seen(q) == IF q = p THEN {plan}
                        ELSE IF run[q].final /\ run[q].file = f
                               THEN run[q].since \cup {plan} ELSE run[q].since
             place(q) == IF q = p THEN "meta" ELSE run[q].pc
             last(q) == run[q].final \/ q = p
  <2>1. /\ UNCHANGED <<finished, path, sidecar, stops, reads>> /\ run[p].pc = "commit"
        /\ store' = [store EXCEPT ![f].snapshot = plan]
        /\ DOMAIN run' = Process
        /\ \A q \in Process :
             run'[q] = [run[q] EXCEPT !.since = seen(q), !.pc = place(q), !.final = last(q)]
    BY <1>20 DEF Commit, Steps
  <2>2. plan \in Maybe /\ f \in File
    BY <2>1, <1>0, OpenedIsContent DEF RunState, Connected, Known
  <2>3. store' \in [File -> Content]
    <3>1. store \in [File -> Content] /\ [store[f] EXCEPT !.snapshot = plan] \in Content
      BY <2>2 DEF TypeOK, Content
    <3>2. store' = [store EXCEPT ![f] = [store[f] EXCEPT !.snapshot = plan]]
      BY <2>1
    <3> QED
      BY <3>1, <3>2
  <2>4. ASSUME NEW q \in Process PROVE run'[q] \in RunState /\ Tidy(q)'
    <3> DEFINE r == run[q]  now == run'[q]  s == seen(q)  c == place(q)  l == last(q)
    <3>1. r \in RunState /\ Tidy(q) /\ s \in SUBSET Maybe /\ c \in Places /\ l \in BOOLEAN
      BY <1>0, <2>2 DEF RunState, Places
    <3>2. now = [r EXCEPT !.since = s, !.pc = c, !.final = l]
      BY <2>1
    <3>3. IF q = p THEN r.pc = "commit" /\ c = "meta" ELSE c = r.pc
      BY <2>1
    <3> HIDE DEF r, now, s, c, l
    <3>4. /\ now \in RunState
          /\ now.pc = c /\ now.file = r.file /\ now.staged = r.staged
          /\ now.rw = r.rw /\ now.plan = r.plan
      BY <3>1, <3>2 DEF RunState
    <3>5. Tidy(q)'
      <4>1. CASE q = p
        BY <2>1, <3>1, <3>3, <3>4, <4>1 DEF Tidy, r, now, Known, Connected
      <4>2. CASE q # p
        BY <2>1, <3>1, <3>3, <3>4, <4>2 DEF Tidy, r, now
      <4> QED
        BY <4>1, <4>2
    <3> QED
      BY <3>4, <3>5 DEF now
  <2>5. run' \in [Process -> RunState]
    BY <1>20, <2>4 DEF Commit
  <2> QED
    BY <2>1, <2>3, <2>4, <2>5 DEF TypeOK
<1>21. ASSUME NEW p \in Process, Close(p) PROVE TypeOK'
  <2>1. run' = [run EXCEPT ![p] = Idle] /\ UNCHANGED <<finished, path, store, stops, reads>>
        /\ sidecar' \in BOOLEAN
    BY <1>21 DEF Close, AfterClose
  <2>2. run'[p] = Idle
    BY <2>1 DEF TypeOK
  <2>3. Tidy(p)'
    BY <2>2 DEF Tidy, Idle, Known, Connected
  <2> QED
    BY <2>1, <2>3, IdleIsRunState, StepKeepsType DEF TypeOK
<1>22. ASSUME NEW p \in Rebuilder, ProbeFails(p) PROVE TypeOK'
  <2> DEFINE r == run[p]  state == [r EXCEPT !.upgrade = FALSE, !.alone = FALSE]
  <2>0. stops' \in 0..MaxStops
    BY <1>22 DEF ProbeFails, TypeOK
  <2>1. /\ run' = [run EXCEPT ![p] = state]
        /\ UNCHANGED <<finished, path, store, sidecar, reads>>
    BY <1>22 DEF ProbeFails
  <2>2. p \in Process /\ r \in RunState /\ Tidy(p)
    BY <1>0 DEF Process
  <2>3. state \in RunState /\ state.pc = r.pc /\ state.file = r.file /\ state.rw = r.rw
        /\ state.staged = r.staged /\ state.plan = r.plan
    BY <2>2 DEF RunState
  <2>4. run'[p] = state
    BY <2>1, <2>2 DEF TypeOK
  <2> HIDE DEF state
  <2>5. Tidy(p)'
    BY <2>1, <2>2, <2>3, <2>4 DEF Tidy
  <2> QED
    BY <2>0, <2>1, <2>2, <2>3, <2>5, StepKeepsType DEF TypeOK
<1>23. ASSUME NEW p \in Rebuilder, Fails(p) PROVE TypeOK'
  <2>1. /\ Ends(p, "failed") /\ UNCHANGED <<finished, path, store, sidecar, reads>>
        /\ stops' \in 0..MaxStops
    BY <1>23 DEF Fails, TypeOK
  <2>2. p \in Process /\ "failed" \in Results
    BY DEF Process, Results
  <2> QED
    BY <2>1, <2>2, EndsKeepsType DEF TypeOK
<1>24. ASSUME NEW p \in Rebuilder, Killed(p) PROVE TypeOK'
  <2>1. /\ run' = [run EXCEPT ![p] = Idle] /\ UNCHANGED <<finished, path, store, sidecar, reads>>
        /\ stops' \in 0..MaxStops
    BY <1>24 DEF Killed, TypeOK
  <2>2. p \in Process /\ run'[p] = Idle
    BY <2>1 DEF TypeOK, Process
  <2>3. Tidy(p)'
    BY <2>2 DEF Tidy, Idle, Known, Connected
  <2> QED
    BY <2>1, <2>2, <2>3, IdleIsRunState, StepKeepsType DEF TypeOK
<1> QED
  BY <1>1, <1>2, <1>3, <1>4, <1>5, <1>6, <1>7, <1>8, <1>9, <1>10, <1>11, <1>12, <1>13, <1>14,
     <1>15, <1>16, <1>17, <1>18, <1>19, <1>20, <1>21, <1>22, <1>23, <1>24 DEF Next, Step

(* For any number of processes and files: connections are closed, temporary  *)
(* files end with their upgrade, and readers never write.                    *)
THEOREM CurrentStateTypeCorrect == Spec => []TypeOK
<1>1. Init => TypeOK
  BY TypeInit
<1>2. TypeOK /\ [Next]_vars => TypeOK'
  BY TypeStep
<1> QED
  BY <1>1, <1>2, PTL DEF Spec
-----------------------------------------------------------------------------
(* Files.                                                                    *)

(* Another process keeps its files and its place.                            *)
SameFiles(q) ==
  /\ run'[q].pc = run[q].pc /\ run'[q].file = run[q].file /\ run'[q].staged = run[q].staged
  /\ run'[q].plan = run[q].plan /\ run'[q].upgrade = run[q].upgrade

(* A step that stages and moves nothing, and writes at most the file that p  *)
(* has open.                                                                 *)
LEMMA FilesFrame ==
  ASSUME TypeOK, TypeOK', FilesInv, NEW p \in Process, path' = path,
         \A q \in Process \ {p} : SameFiles(q),
         \A f \in File :
           store'[f] = store[f] \/ (f = run[p].file /\ store'[f].schema = "current"),
         run'[p].file \in {0, path, run[p].file}, run'[p].staged = 0,
         OpenedIsCurrent(p)', UpgradesOlder(p)'
  PROVE  FilesInv'
<1>1. ASSUME NEW q \in Process PROVE StagedIsPrivate(q)'
  <2>1. CASE q = p
    BY <2>1 DEF StagedIsPrivate
  <2>2. CASE q # p
    <3>1. SUFFICES ASSUME run'[q].staged # 0 PROVE StagedIsPrivate(q)'
      BY DEF StagedIsPrivate
    <3>2. SameFiles(q) /\ run[q].staged # 0 /\ run[q].staged \in File
      BY <2>2, <3>1 DEF SameFiles, TypeOK, RunState
    <3>3. /\ run[q].staged # path
          /\ store[run[q].staged] = [schema |-> "current", snapshot |-> run[q].plan]
          /\ \A t \in Process : run[t].file # run[q].staged
          /\ \A t \in Process \ {q} : run[t].staged # run[q].staged
      BY <3>2 DEF FilesInv, StagedIsPrivate
    <3>4. store'[run[q].staged] = store[run[q].staged]
      BY <3>2, <3>3
    <3>5. \A t \in Process : run'[t].file # run[q].staged
      BY <3>2, <3>3 DEF SameFiles
    <3>6. \A t \in Process \ {q} : run'[t].staged # run[q].staged
      BY <3>2, <3>3 DEF SameFiles
    <3> QED
      BY <3>2, <3>3, <3>4, <3>5, <3>6 DEF StagedIsPrivate, SameFiles
  <2> QED
    BY <2>1, <2>2
<1>2. ASSUME NEW q \in Process PROVE OpenedIsCurrent(q)'
  <2>1. CASE q # p
    <3>1. SameFiles(q) /\ OpenedIsCurrent(q)
      BY <2>1 DEF FilesInv
    <3>2. run[q].pc \in Known \cup {"bootstrap", "initialize"} => run[q].file \in File
      BY OpenedIsContent DEF Connected
    <3> QED
      BY <3>1, <3>2 DEF Opened, OpenedIsCurrent, SameFiles
  <2> QED
    BY <2>1
<1>3. ASSUME NEW q \in Process PROVE UpgradesOlder(q)'
  <2>1. CASE q # p
    <3>1. SameFiles(q) /\ UpgradesOlder(q)
      BY <2>1 DEF FilesInv
    <3>2. path # 0 => path \in File
      BY DEF TypeOK
    <3> QED
      BY <3>1, <3>2 DEF SameFiles, UpgradesOlder
  <2> QED
    BY <2>1
<1> QED
  BY <1>1, <1>2, <1>3 DEF FilesInv

(* Errors, and whoever starts, leave the files alone.                        *)
LEMMA EndsKeepsFiles ==
  ASSUME TypeOK, TypeOK', FilesInv, NEW p \in Process, NEW result \in Results, Ends(p, result),
         UNCHANGED <<path, store>>
  PROVE  FilesInv'
<1>1. run'[p].pc = "closing" /\ run'[p].file = run[p].file /\ run'[p].staged = 0
  BY DEF Ends, TypeOK, Idle
<1>2. \A q \in Process \ {p} : SameFiles(q)
  BY DEF Ends, SameFiles, TypeOK
<1>3. OpenedIsCurrent(p)' /\ UpgradesOlder(p)'
  BY <1>1 DEF OpenedIsCurrent, UpgradesOlder, Known
<1>4. path' = path /\ run'[p].file \in {0, path, run[p].file}
  BY <1>1
<1>6. \A f \in File : store'[f] = store[f]
  OBVIOUS
<1>7. \A f \in File :
           store'[f] = store[f] \/ (f = run[p].file /\ store'[f].schema = "current")
  BY <1>6
<1> QED
  BY <1>1, <1>2, <1>3, <1>4, <1>7, FilesFrame

(* A process that stays with its file, within the current database.          *)
LEMMA StaysKeepsFiles ==
  ASSUME TypeOK, TypeOK', FilesInv, NEW p \in Process, UNCHANGED <<path, store>>,
         run[p].pc \in Known, run'[p].pc \in Known \cup {"closing"},
         run'[p].file = run[p].file,
         \A q \in Process \ {p} : run'[q] = run[q]
  PROVE  FilesInv'
<1>1. run'[p].staged = 0
  BY DEF TypeOK, Tidy, Known
<1>2. \A q \in Process \ {p} : SameFiles(q)
  BY DEF SameFiles
<1>3. Opened(p).schema = "current"
  BY DEF FilesInv, OpenedIsCurrent
<1>4. OpenedIsCurrent(p)' /\ UpgradesOlder(p)'
  BY <1>3 DEF OpenedIsCurrent, UpgradesOlder, Known, Opened
<1>5. path' = path /\ run'[p].file \in {0, path, run[p].file}
  OBVIOUS
<1>6. \A f \in File : store'[f] = store[f]
  OBVIOUS
<1>7. \A f \in File :
           store'[f] = store[f] \/ (f = run[p].file /\ store'[f].schema = "current")
  BY <1>6
<1> QED
  BY <1>1, <1>2, <1>4, <1>5, <1>7, FilesFrame
(* Who starts has nothing staged; a reader may have opened a database.       *)
LEMMA StartsKeepsFiles ==
  ASSUME TypeOK, TypeOK', FilesInv, NEW p \in Process, NEW state \in RunState, Starts(p, state),
         UNCHANGED <<path, store>>, run[p].pc = "idle",
         state.staged = 0, state.upgrade = FALSE, state.file \in {0, path},
         state.pc \in {"probe", "closing"} \/ (state.pc = "count" /\ store[path].schema = "current"
                                              /\ state.file = path)
  PROVE  FilesInv'
<1>1. /\ run'[p].pc = state.pc /\ run'[p].file = state.file /\ run'[p].staged = 0
      /\ run'[p].upgrade = FALSE
  BY DEF Starts, RunState
<1>2. \A q \in Process \ {p} : SameFiles(q)
  BY DEF Starts, SameFiles, TypeOK, RunState
<1>3. OpenedIsCurrent(p)' /\ UpgradesOlder(p)'
  BY <1>1 DEF OpenedIsCurrent, UpgradesOlder, Known, Opened
<1>4. path' = path /\ run'[p].file \in {0, path, run[p].file}
  BY <1>1
<1>5. \A f \in File : store'[f] = store[f]
  OBVIOUS
<1> QED
  BY <1>1, <1>2, <1>3, <1>4, <1>5, FilesFrame

(* A step of p alone that changes no file: what it opens is at the path.     *)
LEMMA StepKeepsFiles ==
  ASSUME TypeOK, TypeOK', FilesInv, NEW p \in Process, UNCHANGED <<path, store>>,
         \A q \in Process \ {p} : run'[q] = run[q],
         run'[p].file \in {0, path, run[p].file}, run'[p].staged = 0,
         OpenedIsCurrent(p)', UpgradesOlder(p)'
  PROVE  FilesInv'
<1>1. \A q \in Process \ {p} : SameFiles(q)
  BY DEF SameFiles
<1>2. path' = path /\ \A f \in File : store'[f] = store[f]
  OBVIOUS
<1> QED
  BY <1>1, <1>2, FilesFrame

(* p stays with the file it has open, and nobody else is disturbed.          *)
StaysWithFile(p) ==
  /\ run'[p].pc \in Known \cup {"closing"} /\ run'[p].file = run[p].file
  /\ \A q \in Process \ {p} : run'[q] = run[q]

(* An error keeps the file open until it is closed.                          *)
LEMMA EndsStays ==
  ASSUME TypeOK, NEW p \in Process, NEW result \in Results, Ends(p, result)
  PROVE  StaysWithFile(p)
  BY DEF Ends, TypeOK, Idle, StaysWithFile

(* A validation that found nothing wrong keeps it open.                      *)
LEMMA ValidatedStays ==
  ASSUME TypeOK, NEW p \in Process, Validated(p)
  PROVE  StaysWithFile(p)
<1>1. run[p] \in RunState
  BY DEF TypeOK
<1>2. CASE p \in Rebuilder /\ ~run[p].upgrade
  <2>1. run' = [run EXCEPT ![p] = [run[p] EXCEPT !.pc = "commit", !.reading = Nothing]]
    BY <1>2 DEF Validated
  <2> QED
    BY <1>1, <2>1 DEF TypeOK, RunState, StaysWithFile, Known
<1>3. CASE ~(p \in Rebuilder /\ ~run[p].upgrade)
  <2> DEFINE found == {Opened(p).snapshot}
  <2>1. run' = [run EXCEPT ![p] = [run[p] EXCEPT !.pc = "meta", !.final = TRUE, !.since = found,
                                                 !.reading = Nothing]]
    BY <1>3 DEF Validated
  <2> HIDE DEF found
  <2> QED
    BY <1>1, <2>1 DEF TypeOK, RunState, StaysWithFile, Known
<1> QED
  BY <1>2, <1>3

(* A reading that has ended keeps it open.                                   *)
LEMMA HasReadStays ==
  ASSUME TypeOK, NEW p \in Process, NEW reading \in Reading, HasRead(p, reading)
  PROVE  StaysWithFile(p)
<1>1. CASE ~run[p].final
  BY <1>1, ValidatedStays DEF HasRead
<1>2. CASE run[p].final /\ p \in Rebuilder /\ run[p].upgrade /\ reading["meta"] # run[p].plan
  BY <1>2, EndsStays DEF HasRead, Results, Errors
<1>3. CASE run[p].final /\ ~(p \in Rebuilder /\ run[p].upgrade /\ reading["meta"] # run[p].plan)
  <2>1. run[p] \in RunState
    BY DEF TypeOK
  <2>2. run' = [run EXCEPT ![p] = [run[p] EXCEPT !.pc = "closing", !.result = "done",
                                                 !.reading = reading]]
    BY <1>3 DEF HasRead
  <2> QED
    BY <2>1, <2>2 DEF TypeOK, RunState, StaysWithFile
<1> QED
  BY <1>1, <1>2, <1>3

(* An upgrade moves only a whole file into place, and only over an older     *)
(* database or the result of another upgrade.                                *)
LEMMA FilesStep == TypeOK /\ TypeOK' /\ FilesInv /\ [Next]_vars => FilesInv'
<1> SUFFICES ASSUME TypeOK, TypeOK', FilesInv, [Next]_vars PROVE FilesInv'
  OBVIOUS
<1>0. ASSUME NEW p \in Process
      PROVE  /\ run[p] \in RunState /\ run'[p] \in RunState
             /\ StagedIsPrivate(p) /\ OpenedIsCurrent(p) /\ UpgradesOlder(p)
  BY DEF TypeOK, FilesInv
<1>1. CASE UNCHANGED vars
  BY <1>1 DEF vars, FilesInv, StagedIsPrivate, OpenedIsCurrent, UpgradesOlder, Opened
<1>2. ASSUME NEW s \in Session, EndSession(s) PROVE FilesInv'
  BY <1>2 DEF EndSession, FilesInv, StagedIsPrivate, OpenedIsCurrent, UpgradesOlder, Opened
<1>3. ASSUME NEW p \in Rebuilder, Launch(p) PROVE FilesInv'
  <2>1. PICK state \in RunState :
               /\ Starts(p, state)
               /\ state.file = 0 /\ state.staged = 0 /\ ~state.upgrade /\ ~state.final
               /\ state.plan = finished
               /\ \/ state.pc = "probe" /\ state.result = "none"
                  \/ state.pc = "closing" /\ state.result = "invalid"
    BY <1>3, LaunchIs
  <2>2. UNCHANGED <<path, store>> /\ run[p].pc = "idle" /\ p \in Process
    BY <1>3 DEF Launch, Process
  <2>3. state.upgrade = FALSE
    BY <2>1 DEF RunState
  <2> QED
    BY <2>1, <2>2, <2>3, StartsKeepsFiles
<1>4. ASSUME NEW p \in Reader, Find(p) PROVE FilesInv'
  <2>1. UNCHANGED <<path, store>> /\ run[p].pc = "idle" /\ p \in Process
    BY <1>4 DEF Find, Process
  <2>2. CASE path = 0
    <3> DEFINE state == [Idle EXCEPT !.pc = "closing", !.result = "done", !.since = {None}]
    <3>1. Starts(p, state)
      BY <1>4, <2>2 DEF Find
    <3>2. /\ state \in RunState /\ state.staged = 0 /\ state.upgrade = FALSE /\ state.file = 0
          /\ state.pc = "closing"
      BY IdleIsRunState DEF RunState, Idle, Places, Results, Maybe
    <3> HIDE DEF state
    <3> QED
      BY <2>1, <3>1, <3>2, StartsKeepsFiles
  <2>3. CASE path # 0
    <3> DEFINE state == OpensReadOnly(Idle)
    <3>1. Starts(p, state)
      BY <1>4, <2>3 DEF Find
    <3>2. /\ state \in RunState /\ state.staged = 0 /\ state.upgrade = FALSE /\ state.file = path
          /\ state.pc = "closing" \/ (state.pc = "count" /\ store[path].schema = "current")
      BY <2>3, IdleIsRunState, OpensIsRunState DEF Idle, OpensReadOnly
    <3> HIDE DEF state
    <3> QED
      BY <2>1, <3>1, <3>2, StartsKeepsFiles
  <2> QED
    BY <2>2, <2>3
<1>5. ASSUME NEW p \in Process, Probe(p) PROVE FilesInv'
  <2>1. UNCHANGED <<path, store>> /\ \A q \in Process \ {p} : run'[q] = run[q]
    BY <1>5 DEF Probe, Goes, TypeOK
  <2>2. /\ run[p].file = 0 /\ run[p].staged = 0 /\ run'[p].staged = 0
        /\ \/ run'[p].pc = "open" /\ run'[p].file = 0
           \/ /\ run'[p].pc = "probed" /\ run'[p].file = path /\ path # 0
              /\ run'[p].upgrade => store[path].schema = "older"
    <3>1. run[p].file = 0 /\ run[p].staged = 0
      BY <1>5 DEF Probe, Steps, TypeOK, Tidy, Known, Connected
    <3>2. CASE path = 0
      <4>1. run'[p] = [run[p] EXCEPT !.pc = "open"]
        BY <1>5, <3>2 DEF Probe, Goes, TypeOK
      <4> QED
        BY <1>0, <3>1, <4>1 DEF RunState
    <3>3. CASE path # 0
      <4>1. run'[p] = [run[p] EXCEPT !.pc = "probed", !.file = path, !.rw = TRUE,
                                     !.upgrade = (store[path].schema = "older")]
        BY <1>5, <3>3 DEF Probe, TypeOK
      <4> QED
        BY <1>0, <3>1, <3>3, <4>1 DEF RunState
    <3> QED
      BY <3>1, <3>2, <3>3
  <2>3. OpenedIsCurrent(p)' /\ UpgradesOlder(p)'
    BY <2>1, <2>2 DEF OpenedIsCurrent, UpgradesOlder, Known
  <2> QED
    BY <2>1, <2>2, <2>3, StepKeepsFiles
<1>6. ASSUME NEW p \in Process, ProbeCloses(p) PROVE FilesInv'
  <2>1. UNCHANGED <<path, store>> /\ \A q \in Process \ {p} : run'[q] = run[q]
    BY <1>6 DEF ProbeCloses, TypeOK
  <2>2. /\ run[p].pc = "probed" /\ run'[p].upgrade = run[p].upgrade /\ run'[p].file = 0
        /\ run'[p].staged = 0
        /\ run'[p].pc = IF run[p].upgrade THEN "sidecars" ELSE "open"
    BY <1>6 DEF ProbeCloses, Steps, TypeOK, Tidy
  <2>3. OpenedIsCurrent(p)' /\ UpgradesOlder(p)'
    BY <1>0, <2>1, <2>2 DEF OpenedIsCurrent, UpgradesOlder, Known
  <2> QED
    BY <2>1, <2>2, <2>3, StepKeepsFiles
<1>7. ASSUME NEW p \in Process, CheckSidecars(p) PROVE FilesInv'
  <2>1. UNCHANGED <<path, store>> /\ run[p].pc = "sidecars"
    BY <1>7 DEF CheckSidecars, Steps
  <2>2. CASE sidecar
    BY <1>7, <2>1, <2>2, EndsKeepsFiles DEF CheckSidecars, Results, Errors
  <2>3. CASE ~sidecar
    <3>1. /\ \A q \in Process \ {p} : run'[q] = run[q]
          /\ run'[p].pc = "stage" /\ run'[p].file = run[p].file /\ run'[p].staged = 0
          /\ run'[p].upgrade = run[p].upgrade
      <4>1. run' = [run EXCEPT ![p] = [run[p] EXCEPT !.pc = "stage"]] /\ run[p].staged = 0
        BY <1>7, <2>1, <2>3 DEF CheckSidecars, Goes, TypeOK, Tidy
      <4> QED
        BY <1>0, <4>1 DEF TypeOK, RunState
    <3>2. OpenedIsCurrent(p)' /\ UpgradesOlder(p)'
      BY <1>0, <2>1, <3>1 DEF OpenedIsCurrent, UpgradesOlder, Known
    <3> QED
      BY <2>1, <3>1, <3>2, StepKeepsFiles
  <2> QED
    BY <2>2, <2>3
<1>8. ASSUME NEW p \in Process, Stage(p) PROVE FilesInv'
  <2> DEFINE f == NewFile
  <2>1. /\ run' = [run EXCEPT ![p] = [run[p] EXCEPT !.pc = "replace", !.staged = f]]
        /\ path' = path /\ store' = [store EXCEPT ![f] = [schema |-> "current", snapshot |-> run[p].plan]]
        /\ run[p].pc = "stage"
    BY <1>8 DEF Stage, Steps
  <2>2. f \in File /\ f # path /\ \A q \in Process : run[q].file # f /\ run[q].staged # f
    BY <1>8, NewFileIsUnused DEF Stage, Unused
  <2> HIDE DEF f
  <2>3. /\ \A q \in Process \ {p} : run'[q] = run[q]
        /\ run'[p].pc = "replace" /\ run'[p].staged = f /\ run'[p].file = run[p].file
        /\ run'[p].upgrade = run[p].upgrade /\ run'[p].plan = run[p].plan
    BY <1>0, <2>1 DEF TypeOK, RunState
  <2>4. \A g \in File : g # f => store'[g] = store[g]
    BY <2>1 DEF TypeOK
  <2>5. store'[f] = [schema |-> "current", snapshot |-> run[p].plan]
    BY <2>1, <2>2 DEF TypeOK
  <2>6. ASSUME NEW q \in Process PROVE StagedIsPrivate(q)'
    <3>1. CASE q = p
      BY <2>1, <2>2, <2>3, <2>5, <3>1 DEF StagedIsPrivate
    <3>2. CASE q # p
      <4>1. run[q].staged # 0 => run[q].staged \in File \ {f}
        BY <1>0, <2>2 DEF RunState
      <4> QED
        BY <1>0, <2>1, <2>2, <2>3, <2>4, <3>2, <4>1 DEF StagedIsPrivate
    <3> QED
      BY <3>1, <3>2
  <2>7. ASSUME NEW q \in Process PROVE OpenedIsCurrent(q)'
    <3>1. CASE q = p
      BY <2>3, <3>1 DEF OpenedIsCurrent, Known
    <3>2. CASE q # p
      <4>1. run[q].pc \in Known \cup {"bootstrap", "initialize"} => run[q].file \in File \ {f}
        BY <2>2, OpenedIsContent DEF Connected
      <4> QED
        BY <1>0, <2>3, <2>4, <3>2, <4>1 DEF OpenedIsCurrent, Opened
    <3> QED
      BY <3>1, <3>2
  <2>8. ASSUME NEW q \in Process PROVE UpgradesOlder(q)'
    <3>1. path # 0 => store'[path] = store[path]
      BY <2>2, <2>4 DEF TypeOK
    <3>2. run'[q].upgrade = run[q].upgrade /\ (q # p => run'[q].pc = run[q].pc)
      BY <2>3
    <3> QED
      BY <1>0, <2>1, <2>3, <3>1, <3>2 DEF UpgradesOlder
  <2> QED
    BY <2>6, <2>7, <2>8 DEF FilesInv
<1>9. ASSUME NEW p \in Process, Replace(p) PROVE FilesInv'
  <2>1. /\ run' = [run EXCEPT ![p] = [run[p] EXCEPT !.pc = "reopen", !.staged = 0]]
        /\ store' = store /\ path' = run[p].staged /\ run[p].pc = "replace" /\ run[p].staged # 0
    BY <1>9 DEF Replace, Steps, TypeOK, Tidy
  <2>2. /\ \A q \in Process \ {p} : run'[q] = run[q]
        /\ run'[p].pc = "reopen" /\ run'[p].staged = 0 /\ run'[p].file = run[p].file
        /\ run'[p].upgrade = run[p].upgrade
    BY <1>0, <2>1 DEF TypeOK, RunState
  <2>3. store[run[p].staged].schema = "current"
        /\ \A q \in Process \ {p} : run[q].staged # run[p].staged
    <3>1. StagedIsPrivate(p)
      BY <1>0
    <3>2. /\ store[run[p].staged] = [schema |-> "current", snapshot |-> run[p].plan]
          /\ \A q \in Process \ {p} : run[q].staged # run[p].staged
      BY <2>1, <3>1 DEF StagedIsPrivate
    <3> QED
      BY <3>2
  <2>4. ASSUME NEW q \in Process PROVE StagedIsPrivate(q)'
    BY <1>0, <2>1, <2>2, <2>3 DEF StagedIsPrivate
  <2>5. ASSUME NEW q \in Process PROVE OpenedIsCurrent(q)'
    BY <1>0, <2>1, <2>2 DEF OpenedIsCurrent, Opened, Known
  <2>6. ASSUME NEW q \in Process PROVE UpgradesOlder(q)'
    BY <1>0, <2>1, <2>2, <2>3 DEF UpgradesOlder
  <2> QED
    BY <2>4, <2>5, <2>6 DEF FilesInv
<1>10. ASSUME NEW p \in Process, Reopen(p) PROVE FilesInv'
  <2>1. /\ run' = [run EXCEPT ![p] = OpensReadOnly(run[p])] /\ UNCHANGED <<path, store>>
        /\ run[p].pc = "reopen" /\ run[p].staged = 0 /\ path # 0
    BY <1>10 DEF Reopen, Steps, TypeOK, Tidy
  <2>2. /\ \A q \in Process \ {p} : run'[q] = run[q]
        /\ run'[p].file = path /\ run'[p].staged = 0 /\ run'[p].pc \in {"count", "closing"}
    BY <1>0, <2>1, OpensIsRunState DEF TypeOK
  <2>3. run'[p].pc = "count" => store[path].schema = "current"
    <3>1. run'[p] = OpensReadOnly(run[p])
      BY <2>1 DEF TypeOK
    <3> QED
      BY <1>0, <3>1 DEF OpensReadOnly, RunState
  <2>4. OpenedIsCurrent(p)' /\ UpgradesOlder(p)'
    BY <2>1, <2>2, <2>3 DEF OpenedIsCurrent, UpgradesOlder, Opened, Known
  <2> QED
    BY <2>1, <2>2, <2>4, StepKeepsFiles
<1>11. ASSUME NEW p \in Process, Connect(p) PROVE FilesInv'
  <2> DEFINE f == IF path = 0 THEN NewFile ELSE path
             marked == store'[f].schema # "blank"
  <2>1. /\ run' = [run EXCEPT ![p] = [run[p] EXCEPT !.pc = "preflight", !.file = f, !.rw = TRUE,
                                                     !.marked = marked]]
        /\ path' = f /\ store' = IF path = 0 THEN [store EXCEPT ![f] = Blank] ELSE store
        /\ run[p].staged = 0
    BY <1>11 DEF Connect, Steps, TypeOK, Tidy
  <2>2. /\ f \in File /\ f # 0
        /\ path = 0 => \A q \in Process : run[q].file # f /\ run[q].staged # f
        /\ path # 0 => f = path
    BY <1>11, NewFileIsUnused DEF Connect, TypeOK, Unused
  <2> HIDE DEF f, marked
  <2>3. /\ \A q \in Process \ {p} : run'[q] = run[q]
        /\ run'[p].pc = "preflight" /\ run'[p].staged = 0 /\ run'[p].file = f
    BY <1>0, <2>1 DEF TypeOK, RunState
  <2>4. \A g \in File : g # f => store'[g] = store[g]
    BY <2>1 DEF TypeOK
  <2>5. path # 0 => store' = store
    BY <2>1
  <2>6. ASSUME NEW q \in Process PROVE StagedIsPrivate(q)'
    <3>1. CASE q = p
      BY <2>3, <3>1 DEF StagedIsPrivate
    <3>2. CASE q # p /\ run[q].staged # 0
      <4>1. run[q].staged \in File /\ run[q].staged # f
        BY <1>0, <2>2, <3>2 DEF RunState, StagedIsPrivate
      <4>2. store'[run[q].staged] = store[run[q].staged] /\ run'[q] = run[q]
        BY <2>3, <2>4, <3>2, <4>1
      <4> QED
        BY <1>0, <2>1, <2>3, <3>2, <4>1, <4>2 DEF StagedIsPrivate
    <3>3. CASE q # p /\ run[q].staged = 0
      BY <2>3, <3>3 DEF StagedIsPrivate
    <3> QED
      BY <3>1, <3>2, <3>3
  <2>7. ASSUME NEW q \in Process PROVE OpenedIsCurrent(q)'
    <3>1. CASE q = p
      BY <2>3, <3>1 DEF OpenedIsCurrent, Known
    <3>2. CASE q # p
      <4>1. run[q].pc \in Known \cup {"bootstrap", "initialize"} =>
              run[q].file \in File /\ (path = 0 => run[q].file # f)
        BY <2>2, OpenedIsContent DEF Connected
      <4> QED
        BY <1>0, <2>3, <2>4, <2>5, <3>2, <4>1 DEF OpenedIsCurrent, Opened
    <3> QED
      BY <3>1, <3>2
  <2>8. ASSUME NEW q \in Process PROVE UpgradesOlder(q)'
    <3>1. CASE q = p
      BY <2>3, <3>1 DEF UpgradesOlder
    <3>2. CASE q # p
      BY <1>0, <2>1, <2>2, <2>3, <2>5, <3>2 DEF UpgradesOlder
    <3> QED
      BY <3>1, <3>2
  <2> QED
    BY <2>6, <2>7, <2>8 DEF FilesInv
<1>12. ASSUME NEW p \in Process, Preflight(p) PROVE FilesInv'
  <2>1. UNCHANGED <<path, store>> /\ run[p].pc = "preflight"
    BY <1>12 DEF Preflight, Steps
  <2>2. CASE Opened(p).schema = (IF run[p].marked THEN "current" ELSE "blank")
    <3>1. /\ run' = [run EXCEPT ![p] = [run[p] EXCEPT !.pc = "bootstrap", !.marked = FALSE]]
          /\ run[p].staged = 0
      BY <1>12, <2>1, <2>2 DEF Preflight, TypeOK, Tidy
    <3>2. /\ \A q \in Process \ {p} : run'[q] = run[q]
          /\ run'[p].pc = "bootstrap" /\ run'[p].file = run[p].file /\ run'[p].staged = 0
      BY <1>0, <3>1 DEF TypeOK, RunState
    <3>3. OpenedIsCurrent(p)' /\ UpgradesOlder(p)'
      BY <2>1, <2>2, <3>2 DEF OpenedIsCurrent, UpgradesOlder, Opened, Known
    <3> QED
      BY <2>1, <3>2, <3>3, StepKeepsFiles
  <2>3. CASE Opened(p).schema # (IF run[p].marked THEN "current" ELSE "blank")
    BY <1>12, <2>1, <2>3, EndsKeepsFiles DEF Preflight, Results, Errors
  <2> QED
    BY <2>2, <2>3
<1>13. ASSUME NEW p \in Process, Bootstrap(p) PROVE FilesInv'
  <2> DEFINE next == IF Opened(p).schema = "blank" THEN "initialize" ELSE "count"
  <2>1. /\ run' = [run EXCEPT ![p] = [run[p] EXCEPT !.pc = next]]
        /\ UNCHANGED <<path, store>> /\ run[p].staged = 0 /\ run[p].pc = "bootstrap"
    BY <1>13 DEF Bootstrap, Goes, Steps, TypeOK, Tidy
  <2>2. Opened(p).schema \in {"blank", "current"}
    BY <1>0, <2>1 DEF OpenedIsCurrent
  <2>3. /\ next \in {"initialize", "count"}
        /\ next = "count" => Opened(p).schema = "current"
    BY <2>2
  <2> HIDE DEF next
  <2>4. /\ \A q \in Process \ {p} : run'[q] = run[q]
        /\ run'[p].pc = next /\ run'[p].file = run[p].file /\ run'[p].staged = 0
    BY <1>0, <2>1 DEF TypeOK, RunState
  <2>5. OpenedIsCurrent(p)' /\ UpgradesOlder(p)'
    BY <2>1, <2>2, <2>3, <2>4 DEF OpenedIsCurrent, UpgradesOlder, Opened, Known
  <2> QED
    BY <2>1, <2>4, <2>5, StepKeepsFiles
<1>14. ASSUME NEW p \in Process, Initialize(p) PROVE FilesInv'
  <2>1. UNCHANGED path /\ run[p].pc = "initialize" /\ run[p].staged = 0
    BY <1>14 DEF Initialize, Steps, TypeOK, Tidy
  <2>2. CASE Opened(p).schema = "blank"
    <3>1. Commits(p, run[p].file, None, "count") /\ run[p].file \in File
      BY <1>14, <2>1, <2>2, OpenedIsContent DEF Initialize, Connected
    <3>2. ASSUME NEW q \in Process
          PROVE  /\ run'[q].file = run[q].file /\ run'[q].staged = run[q].staged
                 /\ run'[q].plan = run[q].plan /\ run'[q].upgrade = run[q].upgrade
                 /\ run'[q].pc = IF q = p THEN "count" ELSE run[q].pc
      <4> DEFINE s == IF run[q].final /\ run[q].file = run[p].file
                        THEN run[q].since \cup {None} ELSE run[q].since
                 c == IF q = p THEN "count" ELSE run[q].pc
      <4>1. run'[q] = [run[q] EXCEPT !.since = s, !.pc = c]
        BY <3>1 DEF Commits
      <4> HIDE DEF s, c
      <4>2. /\ run'[q].file = run[q].file /\ run'[q].staged = run[q].staged
            /\ run'[q].plan = run[q].plan /\ run'[q].upgrade = run[q].upgrade /\ run'[q].pc = c
        BY <1>0, <4>1 DEF RunState
      <4> QED
        BY <4>2 DEF c
    <3>3. \A q \in Process \ {p} : SameFiles(q)
      BY <3>2 DEF SameFiles
    <3>4. store' = [store EXCEPT ![run[p].file] = [schema |-> "current", snapshot |-> None]]
      BY <3>1 DEF Commits
    <3>5. \A f \in File :
            store'[f] = store[f] \/ (f = run[p].file /\ store'[f].schema = "current")
      BY <3>4 DEF TypeOK
    <3>6. OpenedIsCurrent(p)' /\ UpgradesOlder(p)'
      <4>1. run'[p].pc = "count" /\ run'[p].file = run[p].file
        BY <3>2
      <4>2. store'[run[p].file].schema = "current"
        BY <3>1, <3>4 DEF TypeOK
      <4> QED
        BY <4>1, <4>2 DEF OpenedIsCurrent, UpgradesOlder, Opened
    <3>7. run'[p].staged = 0 /\ run'[p].file \in {0, path, run[p].file} /\ path' = path
      BY <2>1, <3>2
    <3> QED
      BY <3>3, <3>5, <3>6, <3>7, FilesFrame
  <2>3. CASE Opened(p).schema # "blank"
    BY <1>14, <2>1, <2>3, EndsKeepsFiles DEF Initialize, Results, Errors
  <2> QED
    BY <2>2, <2>3
<1>15. ASSUME NEW p \in Process, CountMeta(p) PROVE FilesInv'
  <2> DEFINE some == Opened(p).snapshot # None
  <2>1. /\ run' = [run EXCEPT ![p] = [run[p] EXCEPT !.pc = "countRows", !.some = some]]
        /\ UNCHANGED <<path, store>> /\ run[p].pc \in Known
    BY <1>15 DEF CountMeta, Steps, Known
  <2> HIDE DEF some
  <2>2. StaysWithFile(p)
    BY <1>0, <2>1 DEF TypeOK, RunState, StaysWithFile, Known
  <2> QED
    BY <2>1, <2>2, StaysKeepsFiles DEF StaysWithFile
<1>16. ASSUME NEW p \in Process, CountRows(p) PROVE FilesInv'
  <2>1. UNCHANGED <<path, store>> /\ run[p].pc \in Known
    BY <1>16 DEF CountRows, Steps, Known
  <2>2. StaysWithFile(p)
    <3>1. CASE run[p].some
      <4>1. run' = [run EXCEPT ![p] = [run[p] EXCEPT !.pc = "meta", !.some = FALSE]]
        BY <1>16, <3>1 DEF CountRows
      <4> QED
        BY <1>0, <4>1 DEF TypeOK, RunState, StaysWithFile, Known
    <3>2. CASE ~run[p].some
      BY <1>16, <3>2, ValidatedStays, EndsStays DEF CountRows, Results, Errors
    <3> QED
      BY <3>1, <3>2
  <2> QED
    BY <2>1, <2>2, StaysKeepsFiles DEF StaysWithFile
<1>17. ASSUME NEW p \in Process, ReadMeta(p) PROVE FilesInv'
  <2>1. UNCHANGED <<path, store>> /\ run[p].pc \in Known
    BY <1>17 DEF ReadMeta, Steps, Known
  <2>2. StaysWithFile(p)
    <3>1. CASE Opened(p).snapshot = None
      <4>1. HasRead(p, Nothing) /\ Nothing \in Reading
        BY <1>17, <3>1 DEF ReadMeta, Nothing, Reading, Maybe
      <4> QED
        BY <4>1, HasReadStays
    <3>2. CASE Opened(p).snapshot # None
      <4> DEFINE reading == Read(p, "meta")
      <4>1. run' = [run EXCEPT ![p] = [run[p] EXCEPT !.pc = "ledger", !.reading = reading]]
        BY <1>17, <3>2 DEF ReadMeta
      <4> HIDE DEF reading
      <4> QED
        BY <1>0, <4>1 DEF TypeOK, RunState, StaysWithFile, Known
    <3> QED
      BY <3>1, <3>2
  <2> QED
    BY <2>1, <2>2, StaysKeepsFiles DEF StaysWithFile
<1>18. ASSUME NEW p \in Process, ReadLedger(p) PROVE FilesInv'
  <2> DEFINE reading == Read(p, "ledger")
  <2>1. /\ run' = [run EXCEPT ![p] = [run[p] EXCEPT !.pc = "rows", !.reading = reading]]
        /\ UNCHANGED <<path, store>> /\ run[p].pc \in Known
    BY <1>18 DEF ReadLedger, Steps, Known
  <2> HIDE DEF reading
  <2>2. StaysWithFile(p)
    BY <1>0, <2>1 DEF TypeOK, RunState, StaysWithFile, Known
  <2> QED
    BY <2>1, <2>2, StaysKeepsFiles DEF StaysWithFile
<1>19. ASSUME NEW p \in Process, ReadRows(p) PROVE FilesInv'
  <2>1. UNCHANGED <<path, store>> /\ run[p].pc \in Known
    BY <1>19 DEF ReadRows, Steps, Known
  <2>2. Read(p, "rows") \in Reading
    BY <2>1, ReadIsReading DEF Parts, Connected
  <2>3. StaysWithFile(p)
    BY <1>19, <2>2, HasReadStays, EndsStays DEF ReadRows, Results, Errors
  <2> QED
    BY <2>1, <2>3, StaysKeepsFiles DEF StaysWithFile
<1>20. ASSUME NEW p \in Process, Commit(p) PROVE FilesInv'
  <2>1. /\ path' = path /\ run[p].pc = "commit" /\ run[p].staged = 0 /\ run[p].file \in File
        /\ store' = [store EXCEPT ![run[p].file].snapshot = run[p].plan]
    BY <1>20, OpenedIsContent DEF Commit, Steps, TypeOK, Tidy, Connected, Known
  <2>2. ASSUME NEW q \in Process
        PROVE  /\ run'[q].file = run[q].file /\ run'[q].staged = run[q].staged
               /\ run'[q].plan = run[q].plan /\ run'[q].upgrade = run[q].upgrade
               /\ run'[q].pc = IF q = p THEN "meta" ELSE run[q].pc
    <3> DEFINE s == IF q = p THEN {run[p].plan}
                    ELSE IF run[q].final /\ run[q].file = run[p].file
                           THEN run[q].since \cup {run[p].plan} ELSE run[q].since
               c == IF q = p THEN "meta" ELSE run[q].pc
               l == run[q].final \/ q = p
    <3>1. run'[q] = [run[q] EXCEPT !.since = s, !.pc = c, !.final = l]
      BY <1>20 DEF Commit
    <3> HIDE DEF s, c, l
    <3>2. /\ run'[q].file = run[q].file /\ run'[q].staged = run[q].staged
          /\ run'[q].plan = run[q].plan /\ run'[q].upgrade = run[q].upgrade /\ run'[q].pc = c
      BY <1>0, <3>1 DEF RunState
    <3> QED
      BY <3>2 DEF c
  <2>3. \A q \in Process \ {p} : SameFiles(q)
    BY <2>2 DEF SameFiles
  <2>4. store[run[p].file].schema = "current" /\ store[run[p].file] \in Content
    <3>1. OpenedIsCurrent(p)
      BY <1>0
    <3> QED
      BY <2>1, <3>1 DEF OpenedIsCurrent, Opened, Known, TypeOK
  <2>5. store'[run[p].file].schema = "current"
    <3>1. store'[run[p].file] = [store[run[p].file] EXCEPT !.snapshot = run[p].plan]
      BY <2>1 DEF TypeOK
    <3> QED
      BY <2>4, <3>1 DEF Content
  <2>6. \A f \in File :
          store'[f] = store[f] \/ (f = run[p].file /\ store'[f].schema = "current")
    BY <2>1, <2>5 DEF TypeOK
  <2>7. OpenedIsCurrent(p)' /\ UpgradesOlder(p)'
    BY <2>2, <2>5 DEF OpenedIsCurrent, UpgradesOlder, Opened
  <2>8. run'[p].staged = 0 /\ run'[p].file \in {0, path, run[p].file}
    BY <2>1, <2>2
  <2> QED
    BY <2>1, <2>3, <2>6, <2>7, <2>8, FilesFrame
<1>21. ASSUME NEW p \in Process, run' = [run EXCEPT ![p] = Idle], UNCHANGED <<path, store>>
       PROVE FilesInv'
  <2>1. /\ \A q \in Process \ {p} : run'[q] = run[q]
        /\ run'[p].pc = "idle" /\ run'[p].file = 0 /\ run'[p].staged = 0
    BY <1>21 DEF TypeOK, Idle
  <2>2. OpenedIsCurrent(p)' /\ UpgradesOlder(p)'
    BY <2>1 DEF OpenedIsCurrent, UpgradesOlder, Known
  <2> QED
    BY <1>21, <2>1, <2>2, StepKeepsFiles
<1>22. ASSUME NEW p \in Rebuilder, ProbeFails(p) PROVE FilesInv'
  <2>1. /\ run' = [run EXCEPT ![p] = [run[p] EXCEPT !.upgrade = FALSE, !.alone = FALSE]]
        /\ UNCHANGED <<path, store>> /\ p \in Process /\ run[p].pc = "probed"
    BY <1>22 DEF ProbeFails, Process, Steps
  <2>2. /\ \A q \in Process \ {p} : run'[q] = run[q]
        /\ run'[p].pc = "probed" /\ run'[p].file = run[p].file /\ run'[p].staged = run[p].staged
        /\ run'[p].upgrade = FALSE
    BY <1>0, <2>1 DEF TypeOK, RunState
  <2>3. run[p].staged = 0
    BY <2>1 DEF TypeOK, Tidy
  <2>4. OpenedIsCurrent(p)' /\ UpgradesOlder(p)'
    BY <2>2 DEF OpenedIsCurrent, UpgradesOlder, Known
  <2> QED
    BY <2>1, <2>2, <2>3, <2>4, StepKeepsFiles
<1>23. ASSUME NEW p \in Rebuilder, Fails(p) PROVE FilesInv'
  <2>1. Ends(p, "failed") /\ UNCHANGED <<path, store>> /\ p \in Process /\ "failed" \in Results
    BY <1>23 DEF Fails, Process, Results
  <2> QED
    BY <2>1, EndsKeepsFiles
<1>24. ASSUME NEW p \in Process, Close(p) PROVE FilesInv'
  BY <1>21, <1>24 DEF Close
<1>25. ASSUME NEW p \in Rebuilder, Killed(p) PROVE FilesInv'
  BY <1>21, <1>25 DEF Killed, Process
<1> QED
  BY <1>1, <1>2, <1>3, <1>4, <1>5, <1>6, <1>7, <1>8, <1>9, <1>10, <1>11, <1>12, <1>13, <1>14,
     <1>15, <1>16, <1>17, <1>18, <1>19, <1>20, <1>22, <1>23, <1>24, <1>25 DEF Next, Step

(* At the start nothing runs.                                                *)
LEMMA FilesInit == Init => FilesInv
<1> SUFFICES ASSUME Init PROVE FilesInv
  OBVIOUS
<1>1. \A p \in Process : run[p].pc = "idle" /\ run[p].staged = 0
  BY DEF Init, Idle
<1> QED
  BY <1>1 DEF FilesInv, StagedIsPrivate, OpenedIsCurrent, UpgradesOlder, Known

-----------------------------------------------------------------------------
(* A step never leaves half a database where an older or foreign one was.    *)
LEMMA UpgradeStep ==
  ASSUME TypeOK, FilesInv, [Next]_vars, path # 0, store[path].schema \in {"older", "foreign"}
  PROVE  \/ path' = path /\ store'[path] = store[path]
         \/ /\ store[path].schema = "older" /\ store'[path'].schema = "current"
            /\ store'[path'].snapshot # None
<1>0. path \in File
  BY DEF TypeOK
<1>1. CASE UNCHANGED <<path, store>>
  BY <1>1
<1>2. ASSUME NEW p \in Process, Stage(p) PROVE path' = path /\ store'[path] = store[path]
  <2>1. NewFile \in File /\ NewFile # path
    BY <1>2, NewFileIsUnused DEF Stage, Unused
  <2> QED
    BY <1>0, <1>2, <2>1 DEF Stage, TypeOK
<1>3. ASSUME NEW p \in Process, Replace(p)
      PROVE  /\ store[path].schema = "older" /\ store'[path'].schema = "current"
             /\ store'[path'].snapshot # None
  <2>1. /\ store' = store /\ path' = run[p].staged /\ run[p].pc = "replace" /\ run[p].staged # 0
        /\ p \in Rebuilder /\ run[p].plan # None
    BY <1>3 DEF Replace, Steps, TypeOK, Tidy, Process, Known
  <2>2. StagedIsPrivate(p) /\ UpgradesOlder(p)
    BY DEF FilesInv
  <2>3. store[path].schema \in {"older", "current"}
    BY <2>1, <2>2 DEF UpgradesOlder
  <2>4. store[run[p].staged] = [schema |-> "current", snapshot |-> run[p].plan]
    BY <2>1, <2>2 DEF StagedIsPrivate
  <2> QED
    BY <2>1, <2>3, <2>4
<1>4. ASSUME NEW p \in Process, Connect(p) PROVE UNCHANGED <<path, store>>
  BY <1>4 DEF Connect
<1>5. ASSUME NEW p \in Process, Initialize(p) PROVE path' = path /\ store'[path] = store[path]
  <2>1. CASE Opened(p).schema = "blank"
    <3>1. run[p].file # path
      BY <2>1 DEF Opened
    <3>2. store' = [store EXCEPT ![run[p].file] = [schema |-> "current", snapshot |-> None]]
      BY <1>5, <2>1 DEF Initialize, Commits
    <3> QED
      BY <1>0, <1>5, <3>1, <3>2 DEF Initialize, TypeOK
  <2>2. CASE Opened(p).schema # "blank"
    BY <1>5, <2>2 DEF Initialize
  <2> QED
    BY <2>1, <2>2
<1>6. ASSUME NEW p \in Process, Commit(p) PROVE path' = path /\ store'[path] = store[path]
  <2>1. OpenedIsCurrent(p) /\ run[p].pc = "commit"
    BY <1>6 DEF FilesInv, Commit, Steps
  <2>2. run[p].file # path
    BY <2>1 DEF OpenedIsCurrent, Opened, Known
  <2> QED
    BY <1>0, <1>6, <2>2 DEF Commit, TypeOK
<1>7. ASSUME NEW p \in Process,
             \/ Probe(p) \/ ProbeCloses(p) \/ CheckSidecars(p) \/ Reopen(p) \/ Preflight(p)
             \/ Bootstrap(p) \/ CountMeta(p) \/ CountRows(p) \/ ReadMeta(p) \/ ReadLedger(p)
             \/ ReadRows(p) \/ Close(p)
      PROVE  UNCHANGED <<path, store>>
  BY <1>7 DEF Probe, ProbeCloses, CheckSidecars, Reopen, Preflight, Bootstrap, CountMeta,
              CountRows, ReadMeta, ReadLedger, ReadRows, Close
<1>8. ASSUME NEW b \in Rebuilder, Launch(b) \/ ProbeFails(b) \/ Fails(b) \/ Killed(b)
      PROVE  UNCHANGED <<path, store>>
  BY <1>8 DEF Launch, ProbeFails, Fails, Killed
<1>9. ASSUME NEW s \in Session, EndSession(s) PROVE UNCHANGED <<path, store>>
  BY <1>9 DEF EndSession
<1>10. ASSUME NEW r \in Reader, Find(r) PROVE UNCHANGED <<path, store>>
  BY <1>10 DEF Find
<1>11. CASE UNCHANGED vars
  BY <1>11 DEF vars
<1> QED
  BY <1>1, <1>2, <1>3, <1>4, <1>5, <1>6, <1>7, <1>8, <1>9, <1>10, <1>11 DEF Next, Step

(* For any number of rebuilds at once: an older database is replaced only by *)
(* a whole current one, and a foreign one never.                             *)
THEOREM UpgradesAreWhole == Spec => NeverHalfUpgraded
<1>1. Init => TypeOK /\ FilesInv
  BY TypeInit, FilesInit
<1>2. TypeOK /\ FilesInv /\ [Next]_vars => TypeOK' /\ FilesInv'
  BY TypeStep, FilesStep
<1>3. TypeOK /\ FilesInv /\ [Next]_vars =>
        [path # 0 /\ store[path].schema \in {"older", "foreign"} =>
          \/ path' = path /\ store'[path] = store[path]
          \/ /\ store[path].schema = "older" /\ store'[path'].schema = "current"
             /\ store'[path'].snapshot # None ]_vars
  BY UpgradeStep
<1> QED
  BY <1>1, <1>2, <1>3, PTL DEF Spec, NeverHalfUpgraded

-----------------------------------------------------------------------------
(* Reading.                                                                  *)

(* What a step of p does to another reading: it may see one more snapshot.   *)
LEMMA ReadingFrame ==
  ASSUME TypeOK, ReadingInv, NEW p \in Process,
         \A q \in Process \ {p} :
           /\ run'[q].pc = run[q].pc /\ run'[q].final = run[q].final
           /\ run'[q].reading = run[q].reading /\ run'[q].result = run[q].result
           /\ run[q].since \subseteq run'[q].since
           /\ run[q].final /\ run[q].pc \in {"meta", "ledger", "rows"} =>
                Opened(q)'.snapshot \in run'[q].since,
         AnswerIsWhole(p)', FollowsFile(p)'
  PROVE  ReadingInv'
<1>1. ASSUME NEW q \in Process, q # p PROVE AnswerIsWhole(q)' /\ FollowsFile(q)'
  <2>1. AnswerIsWhole(q) /\ FollowsFile(q)
    BY DEF ReadingInv
  <2>2. FollowsFile(q)'
    BY <1>1, <2>1 DEF FollowsFile
  <2>3. AnswerIsWhole(q)'
    BY <1>1, <2>1 DEF AnswerIsWhole, Shows
  <2> QED
    BY <2>2, <2>3
<1> QED
  BY <1>1 DEF ReadingInv

(* A step outside of the last reading, whatever it writes to a new file.     *)
LEMMA StepKeepsReading ==
  ASSUME TypeOK, ReadingInv, NEW p \in Process,
         \A q \in Process \ {p} :
           /\ run'[q].pc = run[q].pc /\ run'[q].final = run[q].final
           /\ run'[q].reading = run[q].reading /\ run'[q].result = run[q].result
           /\ run'[q].since = run[q].since /\ run'[q].file = run[q].file,
         \A q \in Process \ {p} :
           run[q].pc \in Known => store'[run[q].file] = store[run[q].file],
         AnswerIsWhole(p)', FollowsFile(p)'
  PROVE  ReadingInv'
<1>1. ASSUME NEW q \in Process \ {p}, run[q].final, run[q].pc \in {"meta", "ledger", "rows"}
      PROVE  Opened(q)'.snapshot \in run'[q].since
  <2>1. Opened(q).snapshot \in run[q].since
    BY <1>1 DEF ReadingInv, FollowsFile
  <2> QED
    BY <1>1, <2>1 DEF Opened, Known
<1> QED
  BY <1>1, ReadingFrame

(* Nothing is asked of who is neither reading nor done.                      *)
LEMMA NotReading ==
  ASSUME NEW p \in Process, ~run[p].final, run[p].result # "done"
  PROVE  AnswerIsWhole(p) /\ FollowsFile(p)
  BY DEF AnswerIsWhole, FollowsFile

(* An error is no answer.                                                    *)
LEMMA EndsKeepsReading ==
  ASSUME TypeOK, ReadingInv, NEW p \in Process, NEW result \in Results, result # "done",
         Ends(p, result), UNCHANGED store
  PROVE  ReadingInv'
<1>1. ~run'[p].final /\ run'[p].result # "done" /\ \A q \in Process \ {p} : run'[q] = run[q]
  BY DEF Ends, TypeOK, Idle
<1>2. AnswerIsWhole(p)' /\ FollowsFile(p)'
  BY <1>1 DEF AnswerIsWhole, FollowsFile
<1> QED
  BY <1>1, <1>2, StepKeepsReading

(* A validation that found nothing wrong: the last reading may begin.        *)
LEMMA ValidatedKeepsReading ==
  ASSUME TypeOK, ReadingInv, NEW p \in Process, Validated(p), UNCHANGED store,
         run[p].pc \in Known, ~run[p].final
  PROVE  ReadingInv'
<1>1. run[p] \in RunState /\ run[p].result # "done" /\ \A q \in Process \ {p} : run'[q] = run[q]
  BY DEF TypeOK, ReadingInv, FollowsFile, Known, Validated
<1>2. AnswerIsWhole(p)' /\ FollowsFile(p)'
  <2>1. CASE p \in Rebuilder /\ ~run[p].upgrade
    <3>1. run'[p] = [run[p] EXCEPT !.pc = "commit", !.reading = Nothing]
      BY <2>1 DEF Validated, TypeOK
    <3>2. ~run'[p].final /\ run'[p].result # "done"
      BY <1>1, <3>1 DEF RunState
    <3> QED
      BY <3>2 DEF AnswerIsWhole, FollowsFile
  <2>2. CASE ~(p \in Rebuilder /\ ~run[p].upgrade)
    <3> DEFINE found == Opened(p).snapshot
    <3>1. run'[p] = [run[p] EXCEPT !.pc = "meta", !.final = TRUE, !.since = {found},
                                   !.reading = Nothing]
      BY <2>2 DEF Validated, TypeOK
    <3>2. found = store[run[p].file].snapshot
      BY DEF Opened
    <3> HIDE DEF found
    <3>3. /\ run'[p].pc = "meta" /\ run'[p].since = {found} /\ run'[p].result # "done"
          /\ run'[p].file = run[p].file
      BY <1>1, <3>1 DEF RunState
    <3> QED
      BY <3>2, <3>3 DEF AnswerIsWhole, FollowsFile, Opened
  <2> QED
    BY <2>1, <2>2
<1> QED
  BY <1>1, <1>2, StepKeepsReading

(* The answer is what was read, and what was read is some snapshot seen.     *)
LEMMA HasReadKeepsReading ==
  ASSUME TypeOK, ReadingInv, NEW p \in Process, NEW reading \in Reading, HasRead(p, reading),
         UNCHANGED store, run[p].pc \in Known,
         run[p].final => \E S \in run[p].since :
                           IF S = None THEN reading = Nothing ELSE Shows(reading, S)
  PROVE  ReadingInv'
<1>1. CASE ~run[p].final
  BY <1>1, ValidatedKeepsReading DEF HasRead
<1>2. CASE run[p].final /\ p \in Rebuilder /\ run[p].upgrade /\ reading["meta"] # run[p].plan
  BY <1>2, EndsKeepsReading DEF HasRead, Results, Errors
<1>3. CASE run[p].final /\ ~(p \in Rebuilder /\ run[p].upgrade /\ reading["meta"] # run[p].plan)
  <2>1. run[p] \in RunState /\ \A q \in Process \ {p} : run'[q] = run[q]
    BY <1>3 DEF TypeOK, HasRead
  <2>2. run'[p] = [run[p] EXCEPT !.pc = "closing", !.result = "done", !.reading = reading]
    BY <1>3 DEF HasRead, TypeOK
  <2>3. run'[p].pc = "closing" /\ run'[p].since = run[p].since /\ run'[p].reading = reading
    BY <2>1, <2>2 DEF RunState
  <2>4. AnswerIsWhole(p)' /\ FollowsFile(p)'
    BY <1>3, <2>3 DEF AnswerIsWhole, FollowsFile, Shows
  <2> QED
    BY <2>1, <2>4, StepKeepsReading
<1> QED
  BY <1>1, <1>2, <1>3

(* A step of p that changes only its own state and is no part of a reading.  *)
LEMMA QuietKeepsReading ==
  ASSUME TypeOK, ReadingInv, NEW p \in Process, NEW state, run' = [run EXCEPT ![p] = state],
         \A q \in Process \ {p} :
           run[q].pc \in Known => store'[run[q].file] = store[run[q].file],
         ~state.final, state.result # "done"
  PROVE  ReadingInv'
<1>1. run'[p] = state /\ \A q \in Process \ {p} : run'[q] = run[q]
  BY DEF TypeOK
<1>2. AnswerIsWhole(p)' /\ FollowsFile(p)'
  BY <1>1 DEF AnswerIsWhole, FollowsFile
<1> QED
  BY <1>1, <1>2, StepKeepsReading

(* Who starts has not read yet, or found no database.                        *)
LEMMA StartsKeepsReading ==
  ASSUME TypeOK, ReadingInv, NEW p \in Process, NEW state \in RunState, Starts(p, state),
         UNCHANGED store, ~state.final, state.result = "done" => state.pc = "closing",
         state.result = "done" => state.reading = Nothing /\ None \in state.since
  PROVE  ReadingInv'
<1>1. run'[p] = [state EXCEPT !.alone = (Running = {})]
  BY DEF Starts
<1>2. /\ run'[p].final = state.final /\ run'[p].result = state.result /\ run'[p].pc = state.pc
      /\ run'[p].reading = state.reading /\ run'[p].since = state.since
  BY <1>1 DEF RunState
<1>3. ASSUME NEW q \in Process \ {p}
      PROVE  /\ run'[q].pc = run[q].pc /\ run'[q].final = run[q].final
             /\ run'[q].reading = run[q].reading /\ run'[q].result = run[q].result
             /\ run'[q].since = run[q].since /\ run'[q].file = run[q].file
  <2>1. run'[q] = [run[q] EXCEPT !.alone = FALSE] /\ run[q] \in RunState
    BY DEF Starts, TypeOK
  <2> QED
    BY <2>1 DEF RunState
<1>4. AnswerIsWhole(p)' /\ FollowsFile(p)'
  BY <1>2 DEF AnswerIsWhole, FollowsFile
<1> QED
  BY <1>3, <1>4, StepKeepsReading

(* A reading sees, part by part, what its file holds; a commit adds to what  *)
(* it may see.                                                               *)
LEMMA ReadingStep == TypeOK /\ TypeOK' /\ ReadingInv /\ [Next]_vars => ReadingInv'
<1> SUFFICES ASSUME TypeOK, TypeOK', ReadingInv, [Next]_vars PROVE ReadingInv'
  OBVIOUS
<1>0. ASSUME NEW p \in Process
      PROVE  /\ run[p] \in RunState /\ AnswerIsWhole(p) /\ FollowsFile(p)
             /\ run[p].pc \notin {"meta", "ledger", "rows", "closing"} =>
                  ~run[p].final /\ run[p].result # "done"
  BY DEF TypeOK, ReadingInv, FollowsFile
<1>1. CASE UNCHANGED vars
  BY <1>1 DEF vars, ReadingInv, AnswerIsWhole, FollowsFile, Opened, Shows
<1>2. ASSUME NEW s \in Session, EndSession(s) PROVE ReadingInv'
  BY <1>2 DEF EndSession, ReadingInv, AnswerIsWhole, FollowsFile, Opened, Shows
<1>3. ASSUME NEW p \in Rebuilder, Launch(p) PROVE ReadingInv'
  <2>1. PICK state \in RunState :
               /\ Starts(p, state)
               /\ state.file = 0 /\ state.staged = 0 /\ ~state.upgrade /\ ~state.final
               /\ state.plan = finished
               /\ \/ state.pc = "probe" /\ state.result = "none"
                  \/ state.pc = "closing" /\ state.result = "invalid"
    BY <1>3, LaunchIs
  <2>2. UNCHANGED store /\ p \in Process
    BY <1>3 DEF Launch, Process
  <2> QED
    BY <2>1, <2>2, StartsKeepsReading
<1>4. ASSUME NEW p \in Reader, Find(p) PROVE ReadingInv'
  <2>1. UNCHANGED store /\ p \in Process
    BY <1>4 DEF Find, Process
  <2>2. CASE path = 0
    <3> DEFINE state == [Idle EXCEPT !.pc = "closing", !.result = "done", !.since = {None}]
    <3>1. Starts(p, state)
      BY <1>4, <2>2 DEF Find
    <3>2. /\ state \in RunState /\ ~state.final /\ state.pc = "closing"
          /\ state.reading = Nothing /\ None \in state.since
      BY IdleIsRunState DEF RunState, Idle, Places, Results, Maybe
    <3> HIDE DEF state
    <3> QED
      BY <2>1, <3>1, <3>2, StartsKeepsReading
  <2>3. CASE path # 0
    <3> DEFINE state == OpensReadOnly(Idle)
    <3>1. Starts(p, state)
      BY <1>4, <2>3 DEF Find
    <3>2. state \in RunState /\ ~state.final /\ state.result # "done"
      BY <2>3, IdleIsRunState, OpensIsRunState DEF Idle, OpensReadOnly
    <3> HIDE DEF state
    <3> QED
      BY <2>1, <3>1, <3>2, StartsKeepsReading
  <2> QED
    BY <2>2, <2>3
<1>5. ASSUME NEW p \in Process, Probe(p) PROVE ReadingInv'
  <2>1. UNCHANGED store /\ run[p].pc = "probe"
    BY <1>5 DEF Probe, Steps
  <2>2. CASE path = 0
    <3> DEFINE state == [run[p] EXCEPT !.pc = "open"]
    <3>1. run' = [run EXCEPT ![p] = state]
      BY <1>5, <2>2 DEF Probe, Goes
    <3>2. ~state.final /\ state.result # "done"
      BY <1>0, <2>1 DEF RunState
    <3> HIDE DEF state
    <3> QED
      BY <2>1, <3>1, <3>2, QuietKeepsReading
  <2>3. CASE path # 0
    <3> DEFINE older == (store[path].schema = "older")
               state == [run[p] EXCEPT !.pc = "probed", !.file = path, !.rw = TRUE,
                                       !.upgrade = older]
    <3>1. run' = [run EXCEPT ![p] = state]
      BY <1>5, <2>3 DEF Probe
    <3> HIDE DEF older
    <3>2. ~state.final /\ state.result # "done"
      BY <1>0, <2>1 DEF RunState
    <3> HIDE DEF state
    <3> QED
      BY <2>1, <3>1, <3>2, QuietKeepsReading
  <2> QED
    BY <2>2, <2>3
<1>6. ASSUME NEW p \in Process, ProbeCloses(p) PROVE ReadingInv'
  <2> DEFINE next == IF run[p].upgrade THEN "sidecars" ELSE "open"
             state == [run[p] EXCEPT !.pc = next, !.file = 0, !.rw = FALSE]
  <2>1. run' = [run EXCEPT ![p] = state] /\ UNCHANGED store /\ run[p].pc = "probed"
    BY <1>6 DEF ProbeCloses, Steps
  <2> HIDE DEF next
  <2>2. ~state.final /\ state.result # "done"
    BY <1>0, <2>1 DEF RunState
  <2> HIDE DEF state
  <2> QED
    BY <2>1, <2>2, QuietKeepsReading
<1>7. ASSUME NEW p \in Process, CheckSidecars(p) PROVE ReadingInv'
  <2>1. UNCHANGED store /\ run[p].pc = "sidecars"
    BY <1>7 DEF CheckSidecars, Steps
  <2>2. CASE sidecar
    BY <1>7, <2>1, <2>2, EndsKeepsReading DEF CheckSidecars, Results, Errors
  <2>3. CASE ~sidecar
    <3> DEFINE state == [run[p] EXCEPT !.pc = "stage"]
    <3>1. run' = [run EXCEPT ![p] = state]
      BY <1>7, <2>3 DEF CheckSidecars, Goes
    <3>2. ~state.final /\ state.result # "done"
      BY <1>0, <2>1 DEF RunState
    <3> HIDE DEF state
    <3> QED
      BY <2>1, <3>1, <3>2, QuietKeepsReading
  <2> QED
    BY <2>2, <2>3
<1>8. ASSUME NEW p \in Process, Stage(p) PROVE ReadingInv'
  <2> DEFINE f == NewFile  state == [run[p] EXCEPT !.pc = "replace", !.staged = f]
  <2>1. /\ run' = [run EXCEPT ![p] = state] /\ run[p].pc = "stage"
        /\ store' = [store EXCEPT ![f] = [schema |-> "current", snapshot |-> run[p].plan]]
    BY <1>8 DEF Stage, Steps
  <2>2. \A q \in Process : run[q].file # f
    BY <1>8, NewFileIsUnused DEF Stage, Unused
  <2> HIDE DEF f
  <2>3. \A q \in Process \ {p} : run[q].pc \in Known => store'[run[q].file] = store[run[q].file]
    BY <2>1, <2>2 DEF TypeOK
  <2>4. ~state.final /\ state.result # "done"
    BY <1>0, <2>1 DEF RunState
  <2> HIDE DEF state
  <2> QED
    BY <2>1, <2>3, <2>4, QuietKeepsReading
<1>9. ASSUME NEW p \in Process, Replace(p) PROVE ReadingInv'
  <2> DEFINE state == [run[p] EXCEPT !.pc = "reopen", !.staged = 0]
  <2>1. run' = [run EXCEPT ![p] = state] /\ UNCHANGED store /\ run[p].pc = "replace"
    BY <1>9 DEF Replace, Steps
  <2>2. ~state.final /\ state.result # "done"
    BY <1>0, <2>1 DEF RunState
  <2> HIDE DEF state
  <2> QED
    BY <2>1, <2>2, QuietKeepsReading
<1>10. ASSUME NEW p \in Process, Reopen(p) PROVE ReadingInv'
  <2> DEFINE state == OpensReadOnly(run[p])
  <2>1. run' = [run EXCEPT ![p] = state] /\ UNCHANGED store /\ run[p].pc = "reopen"
    BY <1>10 DEF Reopen, Steps
  <2>2. ~state.final /\ state.result # "done"
    BY <1>0, <2>1 DEF OpensReadOnly, RunState
  <2> HIDE DEF state
  <2> QED
    BY <2>1, <2>2, QuietKeepsReading
<1>11. ASSUME NEW p \in Process, Connect(p) PROVE ReadingInv'
  <2> DEFINE f == IF path = 0 THEN NewFile ELSE path
             marked == store'[f].schema # "blank"
             state == [run[p] EXCEPT !.pc = "preflight", !.file = f, !.rw = TRUE, !.marked = marked]
  <2>1. /\ run' = [run EXCEPT ![p] = state] /\ run[p].pc = "open"
        /\ store' = IF path = 0 THEN [store EXCEPT ![f] = Blank] ELSE store
    BY <1>11 DEF Connect, Steps
  <2>2. path = 0 => \A q \in Process : run[q].file # f
    BY <1>11, NewFileIsUnused DEF Connect, Unused
  <2> HIDE DEF f, marked
  <2>3. \A q \in Process \ {p} : run[q].pc \in Known => store'[run[q].file] = store[run[q].file]
    BY <2>1, <2>2 DEF TypeOK
  <2>4. ~state.final /\ state.result # "done"
    BY <1>0, <2>1 DEF RunState
  <2> HIDE DEF state
  <2> QED
    BY <2>1, <2>3, <2>4, QuietKeepsReading
<1>12. ASSUME NEW p \in Process, Preflight(p) PROVE ReadingInv'
  <2>1. UNCHANGED store /\ run[p].pc = "preflight"
    BY <1>12 DEF Preflight, Steps
  <2>2. CASE Opened(p).schema = (IF run[p].marked THEN "current" ELSE "blank")
    <3> DEFINE state == [run[p] EXCEPT !.pc = "bootstrap", !.marked = FALSE]
    <3>1. run' = [run EXCEPT ![p] = state]
      BY <1>12, <2>2 DEF Preflight
    <3>2. ~state.final /\ state.result # "done"
      BY <1>0, <2>1 DEF RunState
    <3> HIDE DEF state
    <3> QED
      BY <2>1, <3>1, <3>2, QuietKeepsReading
  <2>3. CASE Opened(p).schema # (IF run[p].marked THEN "current" ELSE "blank")
    BY <1>12, <2>1, <2>3, EndsKeepsReading DEF Preflight, Results, Errors
  <2> QED
    BY <2>2, <2>3
<1>13. ASSUME NEW p \in Process, Bootstrap(p) PROVE ReadingInv'
  <2> DEFINE next == IF Opened(p).schema = "blank" THEN "initialize" ELSE "count"
             state == [run[p] EXCEPT !.pc = next]
  <2>1. run' = [run EXCEPT ![p] = state] /\ UNCHANGED store /\ run[p].pc = "bootstrap"
    BY <1>13 DEF Bootstrap, Goes, Steps
  <2> HIDE DEF next
  <2>2. ~state.final /\ state.result # "done"
    BY <1>0, <2>1 DEF RunState
  <2> HIDE DEF state
  <2> QED
    BY <2>1, <2>2, QuietKeepsReading
<1>14. ASSUME NEW p \in Process, Initialize(p) PROVE ReadingInv'
  <2>1. CASE Opened(p).schema = "blank"
    <3> DEFINE f == run[p].file
               seen(q) == IF run[q].final /\ run[q].file = f
                            THEN run[q].since \cup {None} ELSE run[q].since
               place(q) == IF q = p THEN "count" ELSE run[q].pc
    <3>1. /\ store' = [store EXCEPT ![f] = [schema |-> "current", snapshot |-> None]]
          /\ \A q \in Process : run'[q] = [run[q] EXCEPT !.since = seen(q), !.pc = place(q)]
          /\ run[p].pc = "initialize"
      BY <1>14, <2>1 DEF Initialize, Commits, Steps
    <3>2. ASSUME NEW q \in Process
          PROVE  /\ run'[q].pc = place(q) /\ run'[q].final = run[q].final
                 /\ run'[q].reading = run[q].reading /\ run'[q].result = run[q].result
                 /\ run'[q].since = seen(q) /\ run'[q].file = run[q].file
      <4> DEFINE s == seen(q)  c == place(q)
      <4>1. run'[q] = [run[q] EXCEPT !.since = s, !.pc = c]
        BY <3>1
      <4> HIDE DEF s, c
      <4>2. /\ run'[q].pc = c /\ run'[q].final = run[q].final
            /\ run'[q].reading = run[q].reading /\ run'[q].result = run[q].result
            /\ run'[q].since = s /\ run'[q].file = run[q].file
        BY <1>0, <4>1 DEF RunState
      <4> QED
        BY <4>2 DEF s, c
    <3>3. ASSUME NEW q \in Process \ {p}, run[q].final, run[q].pc \in {"meta", "ledger", "rows"}
          PROVE  Opened(q)'.snapshot \in run'[q].since
      <4>1. Opened(q).snapshot \in run[q].since /\ run[q].file \in File
        BY <1>0, <3>3, OpenedIsContent DEF FollowsFile, Connected, Known
      <4>2. CASE run[q].file = f
        BY <3>1, <3>2, <3>3, <4>1, <4>2, ZenonT(60) DEF Opened, TypeOK
      <4>3. CASE run[q].file # f
        BY <3>1, <3>2, <3>3, <4>1, <4>3 DEF Opened, TypeOK
      <4> QED
        BY <4>2, <4>3
    <3>4. ~run'[p].final /\ run'[p].result # "done"
      BY <1>0, <3>1, <3>2, ZenonT(60)
    <3>5. AnswerIsWhole(p)' /\ FollowsFile(p)'
      BY <3>4 DEF AnswerIsWhole, FollowsFile
    <3> QED
      BY <3>2, <3>3, <3>5, ReadingFrame
  <2>2. CASE Opened(p).schema # "blank"
    BY <1>14, <2>2, EndsKeepsReading DEF Initialize, Results, Errors
  <2> QED
    BY <2>1, <2>2
<1>15. ASSUME NEW p \in Process, CountMeta(p) PROVE ReadingInv'
  <2> DEFINE some == Opened(p).snapshot # None
             state == [run[p] EXCEPT !.pc = "countRows", !.some = some]
  <2>1. run' = [run EXCEPT ![p] = state] /\ UNCHANGED store /\ run[p].pc = "count"
    BY <1>15 DEF CountMeta, Steps
  <2> HIDE DEF some
  <2>2. ~state.final /\ state.result # "done"
    BY <1>0, <2>1 DEF RunState
  <2> HIDE DEF state
  <2> QED
    BY <2>1, <2>2, QuietKeepsReading
<1>16. ASSUME NEW p \in Process, CountRows(p) PROVE ReadingInv'
  <2>1. UNCHANGED store /\ run[p].pc = "countRows"
    BY <1>16 DEF CountRows, Steps
  <2>2. CASE run[p].some
    <3> DEFINE state == [run[p] EXCEPT !.pc = "meta", !.some = FALSE]
    <3>1. run' = [run EXCEPT ![p] = state]
      BY <1>16, <2>2 DEF CountRows
    <3>2. ~state.final /\ state.result # "done"
      BY <1>0, <2>1 DEF RunState
    <3> HIDE DEF state
    <3> QED
      BY <2>1, <3>1, <3>2, QuietKeepsReading
  <2>3. CASE ~run[p].some /\ Opened(p).snapshot \in {None, {}}
    <3>1. Validated(p) /\ ~run[p].final /\ run[p].pc \in Known
      BY <1>0, <1>16, <2>1, <2>3 DEF CountRows, Known
    <3> QED
      BY <2>1, <3>1, ValidatedKeepsReading
  <2>4. CASE ~run[p].some /\ Opened(p).snapshot \notin {None, {}}
    BY <1>16, <2>1, <2>4, EndsKeepsReading DEF CountRows, Results, Errors
  <2> QED
    BY <2>2, <2>3, <2>4
<1>17. ASSUME NEW p \in Process, ReadMeta(p) PROVE ReadingInv'
  <2>1. UNCHANGED store /\ run[p].pc = "meta"
    BY <1>17 DEF ReadMeta, Steps
  <2>2. run[p].final => Opened(p).snapshot \in run[p].since
    BY <1>0, <2>1 DEF FollowsFile
  <2>3. CASE Opened(p).snapshot = None
    <3>1. HasRead(p, Nothing) /\ Nothing \in Reading
      BY <1>17, <2>3 DEF ReadMeta, Nothing, Reading, Maybe
    <3> QED
      BY <2>1, <2>2, <2>3, <3>1, HasReadKeepsReading DEF Known
  <2>4. CASE Opened(p).snapshot # None
    <3> DEFINE reading == Read(p, "meta")
    <3>1. run' = [run EXCEPT ![p] = [run[p] EXCEPT !.pc = "ledger", !.reading = reading]]
      BY <1>17, <2>4 DEF ReadMeta
    <3>2. reading["meta"] = Opened(p).snapshot
      BY <1>0 DEF Read, RunState, Reading, Parts
    <3> HIDE DEF reading
    <3>3. /\ \A q \in Process \ {p} : run'[q] = run[q]
          /\ run'[p].pc = "ledger" /\ run'[p].final = run[p].final /\ run'[p].since = run[p].since
          /\ run'[p].reading = reading /\ run'[p].result = run[p].result
          /\ run'[p].file = run[p].file
      BY <1>0, <3>1 DEF TypeOK, RunState
    <3>4. run[p].result # "done"
      BY <1>0, <2>1 DEF FollowsFile
    <3>5. AnswerIsWhole(p)' /\ FollowsFile(p)'
      BY <2>1, <2>2, <2>4, <3>2, <3>3, <3>4 DEF AnswerIsWhole, FollowsFile, Opened
    <3> QED
      BY <2>1, <3>3, <3>5, StepKeepsReading
  <2> QED
    BY <2>3, <2>4
<1>18. ASSUME NEW p \in Process, ReadLedger(p) PROVE ReadingInv'
  <2> DEFINE reading == Read(p, "ledger")
  <2>1. /\ run' = [run EXCEPT ![p] = [run[p] EXCEPT !.pc = "rows", !.reading = reading]]
        /\ UNCHANGED store /\ run[p].pc = "ledger"
    BY <1>18 DEF ReadLedger, Steps
  <2>2. reading["meta"] = run[p].reading["meta"]
    BY <1>0 DEF Read, RunState, Reading, Parts
  <2> HIDE DEF reading
  <2>3. /\ \A q \in Process \ {p} : run'[q] = run[q]
        /\ run'[p].pc = "rows" /\ run'[p].final = run[p].final /\ run'[p].since = run[p].since
        /\ run'[p].reading = reading /\ run'[p].result = run[p].result
        /\ run'[p].file = run[p].file
    BY <1>0, <2>1 DEF TypeOK, RunState
  <2>4. /\ run[p].result # "done"
        /\ run[p].final => /\ Opened(p).snapshot \in run[p].since
                           /\ run[p].reading["meta"] \in run[p].since \ {None}
    BY <1>0, <2>1 DEF FollowsFile
  <2>5. AnswerIsWhole(p)' /\ FollowsFile(p)'
    BY <2>1, <2>2, <2>3, <2>4 DEF AnswerIsWhole, FollowsFile, Opened
  <2> QED
    BY <2>1, <2>3, <2>5, StepKeepsReading
<1>19. ASSUME NEW p \in Process, ReadRows(p) PROVE ReadingInv'
  <2> DEFINE reading == Read(p, "rows")
  <2>1. UNCHANGED store /\ run[p].pc = "rows"
    BY <1>19 DEF ReadRows, Steps
  <2>2. CASE Coherent(reading)
    <3>1. HasRead(p, reading)
      BY <1>19, <2>2 DEF ReadRows
    <3>2. reading \in Reading
      BY <2>1, ReadIsReading DEF Parts, Connected, Known
    <3>3. reading["meta"] = run[p].reading["meta"]
      BY <1>0 DEF Read, RunState, Reading, Parts
    <3>4. run[p].final => reading["meta"] \in run[p].since \ {None}
      BY <1>0, <2>1, <3>3 DEF FollowsFile
    <3>5. Shows(reading, reading["meta"])
      BY <2>2 DEF Coherent
    <3> HIDE DEF reading
    <3>6. run[p].final => \E S \in run[p].since :
                            IF S = None THEN reading = Nothing ELSE Shows(reading, S)
      BY <3>4, <3>5
    <3> QED
      BY <2>1, <3>1, <3>2, <3>6, HasReadKeepsReading DEF Known
  <2>3. CASE ~Coherent(reading)
    BY <1>19, <2>1, <2>3, EndsKeepsReading DEF ReadRows, Results, Errors
  <2> QED
    BY <2>2, <2>3
<1>20. ASSUME NEW p \in Process, Commit(p) PROVE ReadingInv'
  <2> DEFINE f == run[p].file  plan == run[p].plan
             seen(q) == IF q = p THEN {plan}
                        ELSE IF run[q].final /\ run[q].file = f
                               THEN run[q].since \cup {plan} ELSE run[q].since
             place(q) == IF q = p THEN "meta" ELSE run[q].pc
             last(q) == run[q].final \/ q = p
  <2>1. /\ store' = [store EXCEPT ![f].snapshot = plan] /\ run[p].pc = "commit"
        /\ \A q \in Process :
             run'[q] = [run[q] EXCEPT !.since = seen(q), !.pc = place(q), !.final = last(q)]
    BY <1>20 DEF Commit, Steps
  <2>2. ASSUME NEW q \in Process
        PROVE  /\ run'[q].pc = place(q) /\ run'[q].final = last(q)
               /\ run'[q].reading = run[q].reading /\ run'[q].result = run[q].result
               /\ run'[q].since = seen(q) /\ run'[q].file = run[q].file
    <3> DEFINE s == seen(q)  c == place(q)  l == last(q)
    <3>1. run'[q] = [run[q] EXCEPT !.since = s, !.pc = c, !.final = l]
      BY <2>1
    <3> HIDE DEF s, c, l
    <3>2. /\ run'[q].pc = c /\ run'[q].final = l
          /\ run'[q].reading = run[q].reading /\ run'[q].result = run[q].result
          /\ run'[q].since = s /\ run'[q].file = run[q].file
      BY <1>0, <3>1 DEF RunState
    <3> QED
      BY <3>2 DEF s, c, l
  <2>3. store'[f].snapshot = plan /\ \A g \in File : g # f => store'[g] = store[g]
    <3>1. f \in File /\ store[f] \in Content
      BY <2>1, OpenedIsContent DEF Connected, Known
    <3>2. store'[f] = [store[f] EXCEPT !.snapshot = plan]
      BY <2>1, <3>1 DEF TypeOK
    <3> QED
      BY <2>1, <3>1, <3>2 DEF TypeOK, Content
  <2>4. ASSUME NEW q \in Process \ {p}
        PROVE  /\ run'[q].pc = run[q].pc /\ run'[q].final = run[q].final
               /\ run[q].since \subseteq run'[q].since
               /\ run[q].final /\ run[q].pc \in {"meta", "ledger", "rows"} =>
                    Opened(q)'.snapshot \in run'[q].since
    <3>1. run[q].final \in BOOLEAN
      BY <1>0 DEF RunState
    <3>2. run'[q].pc = run[q].pc /\ run'[q].final = run[q].final /\ run[q].since \subseteq run'[q].since
      BY <2>2, <3>1
    <3>3. ASSUME run[q].final, run[q].pc \in {"meta", "ledger", "rows"}
          PROVE  Opened(q)'.snapshot \in run'[q].since
      <4>1. Opened(q).snapshot \in run[q].since /\ run[q].file \in File
        BY <1>0, <3>3, OpenedIsContent DEF FollowsFile, Connected, Known
      <4>2. CASE run[q].file = f
        <5>1. run'[q].since = run[q].since \cup {plan} /\ run'[q].file = f
          BY <2>2, <3>3, <4>2
        <5> QED
          BY <2>3, <5>1 DEF Opened
      <4>3. CASE run[q].file # f
        BY <2>2, <2>3, <3>2, <4>1, <4>3, ZenonT(60) DEF Opened
      <4> QED
        BY <4>2, <4>3
    <3> QED
      BY <3>2, <3>3
  <2>5. AnswerIsWhole(p)' /\ FollowsFile(p)'
    <3>1. run[p].result # "done"
      BY <1>0, <2>1
    <3>2. run'[p].pc = "meta" /\ run'[p].since = {plan} /\ run'[p].file = f
      BY <2>2
    <3>3. run'[p].result # "done"
      BY <2>2, <3>1
    <3> QED
      BY <2>3, <3>2, <3>3 DEF AnswerIsWhole, FollowsFile, Opened
  <2> QED
    BY <2>2, <2>4, <2>5, ReadingFrame
<1>21. ASSUME NEW p \in Process, run' = [run EXCEPT ![p] = Idle], UNCHANGED store
       PROVE ReadingInv'
  <2>1. ~Idle.final /\ Idle.result # "done"
    BY DEF Idle
  <2> QED
    BY <1>21, <2>1, QuietKeepsReading
<1>22. ASSUME NEW p \in Rebuilder, ProbeFails(p) PROVE ReadingInv'
  <2> DEFINE state == [run[p] EXCEPT !.upgrade = FALSE, !.alone = FALSE]
  <2>1. run' = [run EXCEPT ![p] = state] /\ UNCHANGED store /\ p \in Process /\ run[p].pc = "probed"
    BY <1>22 DEF ProbeFails, Process, Steps
  <2>2. ~state.final /\ state.result # "done"
    BY <1>0, <2>1 DEF RunState
  <2> HIDE DEF state
  <2> QED
    BY <2>1, <2>2, QuietKeepsReading
<1>23. ASSUME NEW p \in Rebuilder, Fails(p) PROVE ReadingInv'
  <2>1. Ends(p, "failed") /\ UNCHANGED store /\ p \in Process /\ "failed" \in Results
    BY <1>23 DEF Fails, Process, Results
  <2> QED
    BY <2>1, EndsKeepsReading
<1>24. ASSUME NEW p \in Process, Close(p) PROVE ReadingInv'
  BY <1>21, <1>24 DEF Close
<1>25. ASSUME NEW p \in Rebuilder, Killed(p) PROVE ReadingInv'
  BY <1>21, <1>25 DEF Killed, Process
<1> QED
  BY <1>1, <1>2, <1>3, <1>4, <1>5, <1>6, <1>7, <1>8, <1>9, <1>10, <1>11, <1>12, <1>13, <1>14,
     <1>15, <1>16, <1>17, <1>18, <1>19, <1>20, <1>22, <1>23, <1>24, <1>25 DEF Next, Step

(* At the start nobody has read anything.                                    *)
LEMMA ReadingInit == Init => ReadingInv
<1> SUFFICES ASSUME Init PROVE ReadingInv
  OBVIOUS
<1>1. \A p \in Process : ~run[p].final /\ run[p].result # "done"
  BY DEF Init, Idle
<1> QED
  BY <1>1, NotReading DEF ReadingInv

(* However many rebuilds commit between the SELECTs of a reading, and        *)
(* whatever replaces the file it reads: an answer is one snapshot, whole.    *)
THEOREM AnswersAreWholeSnapshots == Spec => []AnswersAreWhole
<1>1. Init => TypeOK /\ ReadingInv
  BY TypeInit, ReadingInit
<1>2. TypeOK /\ ReadingInv /\ [Next]_vars => TypeOK' /\ ReadingInv'
  BY TypeStep, ReadingStep
<1>3. ReadingInv => AnswersAreWhole
  BY DEF ReadingInv, AnswersAreWhole, AnswerIsWhole
<1> QED
  BY <1>1, <1>2, <1>3, PTL DEF Spec

-----------------------------------------------------------------------------
(* A process that has the database to itself.                                *)
(* A process that has the database to itself finds everything as it left it: *)
(* what it remembers of the file, and what it has read, still holds.         *)
Undisturbed(p) ==
  LET r == run[p] IN
  /\ r.pc \in Connected => r.file = path
  /\ r.pc \in {"probe", "open", "preflight", "bootstrap", "initialize", "commit"} => ~r.upgrade
  /\ r.pc = "probed" => r.rw /\ (r.upgrade <=> store[path].schema = "older")
  /\ r.pc = "sidecars" => ~sidecar
  /\ r.pc \in {"open", "preflight"} /\ path # 0 => store[path].schema # "older"
  /\ r.pc = "preflight" => (r.marked <=> store[path].schema # "blank")
  /\ r.pc = "initialize" => store[path].schema = "blank"
  /\ r.pc = "reopen" => store[path].schema = "current"
  /\ r.pc = "reopen" \/ (r.pc \in Known /\ p \in Rebuilder /\ (r.upgrade \/ r.final)) =>
       store[path].snapshot = r.plan
  /\ r.pc = "countRows" => (r.some <=> store[path].snapshot # None)
  /\ r.pc \in {"ledger", "rows"} => r.reading["meta"] = store[path].snapshot
  /\ r.pc = "rows" => r.reading["ledger"] = store[path].snapshot

(* What AloneSucceeds says of one process.                                   *)
EndsWell(p) ==
  run[p].pc = "closing" =>
    /\ run[p].result \notin {"refused", "taken", "torn"}
    /\ run[p].result = "incompatible" =>
         \/ store[path].schema = "foreign"
         \/ p \in Reader /\ store[path].schema # "current"
    /\ run[p].result = "done" /\ p \in Rebuilder =>
         store[path].snapshot = run[p].plan

AloneInv ==
  \A p \in Process : run[p].alone => Running = {p} /\ Undisturbed(p) /\ EndsWell(p)

(* While one process is alone the others hold nothing.                       *)
LEMMA AloneFacts ==
  ASSUME TypeOK, AloneInv, NEW p \in Process, run[p].alone
  PROVE  /\ Running = {p} /\ Undisturbed(p)
         /\ \A q \in Process \ {p} :
              run[q].pc = "idle" /\ run[q].file = 0 /\ run[q].staged = 0
<1>1. Running = {p} /\ Undisturbed(p)
  BY DEF AloneInv
<1>2. \A q \in Process \ {p} : run[q].pc = "idle"
  BY <1>1 DEF Running
<1>3. \A q \in Process \ {p} : run[q].file = 0 /\ run[q].staged = 0
  BY <1>2 DEF TypeOK, Tidy, Connected, Known, RunState
<1> QED
  BY <1>1, <1>2, <1>3

(* A step of a process that runs disturbs nobody who is alone but itself.    *)
LEMMA AloneFrame ==
  ASSUME AloneInv, NEW p \in Process, run[p].pc # "idle",
         \A q \in Process \ {p} : run'[q].pc = run[q].pc /\ run'[q].alone = run[q].alone,
         run'[p].alone =>
           run[p].alone /\ run'[p].pc # "idle" /\ Undisturbed(p)' /\ EndsWell(p)'
  PROVE  AloneInv'
<1> SUFFICES ASSUME NEW q \in Process, run'[q].alone
             PROVE  Running' = {q} /\ Undisturbed(q)' /\ EndsWell(q)'
  BY DEF AloneInv
<1>1. CASE q = p
  <2>1. Running = {p}
    BY <1>1 DEF AloneInv
  <2>2. Running' = {p}
    BY <1>1, <2>1 DEF Running
  <2> QED
    BY <1>1, <2>2
<1>2. CASE q # p
  <2>1. Running = {q}
    BY <1>2 DEF AloneInv
  <2> QED
    BY <1>2, <2>1 DEF Running
<1> QED
  BY <1>1, <1>2

(* The same for a step that gives the process a new state.                   *)
LEMMA StepKeepsAlone ==
  ASSUME TypeOK, AloneInv, NEW p \in Process, run[p].pc # "idle", NEW state,
         run' = [run EXCEPT ![p] = state],
         state.alone => run[p].alone /\ state.pc # "idle",
         run[p].alone => Undisturbed(p)' /\ EndsWell(p)'
  PROVE  AloneInv'
<1>1. run'[p] = state /\ \A q \in Process \ {p} : run'[q] = run[q]
  BY DEF TypeOK
<1> QED
  BY <1>1, AloneFrame

(* Who starts while nobody runs is alone; the others are so no longer.       *)
LEMMA StartsKeepsAlone ==
  ASSUME TypeOK, NEW p \in Process, run[p].pc = "idle", NEW state \in RunState,
         Starts(p, state), state.pc # "idle",
         Running = {} => Undisturbed(p)' /\ EndsWell(p)'
  PROVE  AloneInv'
<1>1. run'[p] = [state EXCEPT !.alone = (Running = {})]
  BY DEF Starts
<1>2. \A q \in Process \ {p} : run'[q] = [run[q] EXCEPT !.alone = FALSE]
  BY DEF Starts
<1>3. run'[p].pc # "idle" /\ (run'[p].alone <=> Running = {})
  BY <1>1 DEF RunState
<1>4. ASSUME NEW q \in Process \ {p} PROVE run'[q].pc = run[q].pc /\ ~run'[q].alone
  <2>1. run'[q] = [run[q] EXCEPT !.alone = FALSE] /\ run[q] \in RunState
    BY <1>2 DEF TypeOK
  <2> QED
    BY <2>1 DEF RunState
<1> SUFFICES ASSUME NEW q \in Process, run'[q].alone
             PROVE  Running' = {q} /\ Undisturbed(q)' /\ EndsWell(q)'
  BY DEF AloneInv
<1>5. q = p /\ Running = {}
  BY <1>3, <1>4
<1>6. Running' = {p}
  BY <1>3, <1>4, <1>5 DEF Running
<1> QED
  BY <1>5, <1>6

(* At the end only the result counts.                                        *)
LEMMA ClosingIsUndisturbed ==
  ASSUME NEW p, run[p].pc \in {"closing", "idle"}
  PROVE  Undisturbed(p)
  BY DEF Undisturbed, Connected, Known

(* An error is one that a process that is alone may meet.                    *)
LEMMA EndsKeepsAlone ==
  ASSUME TypeOK, AloneInv, NEW p \in Process, run[p].pc # "idle", NEW result \in Results,
         Ends(p, result), UNCHANGED <<path, store>>,
         run[p].alone => /\ result \notin {"refused", "taken", "torn", "done"}
                         /\ result = "incompatible" => store[path].schema = "foreign"
  PROVE  AloneInv'
<1> DEFINE state == [Idle EXCEPT !.pc = "closing", !.result = result, !.file = run[p].file,
                                 !.rw = run[p].rw, !.alone = run[p].alone]
<1>1. run' = [run EXCEPT ![p] = state]
  BY DEF Ends
<1>2. state.pc = "closing" /\ state.result = result /\ state.alone = run[p].alone
  BY DEF Idle
<1> HIDE DEF state
<1>3. run'[p] = state
  BY <1>1 DEF TypeOK
<1>4. Undisturbed(p)'
  BY <1>2, <1>3 DEF Undisturbed, Connected, Known
<1>5. run[p].alone => EndsWell(p)'
  BY <1>2, <1>3 DEF EndsWell
<1> QED
  BY <1>1, <1>2, <1>4, <1>5, StepKeepsAlone

(* Who validates alone finds its own snapshot, or goes on to write it.       *)
LEMMA ValidatedKeepsAlone ==
  ASSUME TypeOK, AloneInv, NEW p \in Process, run[p].pc \in {"countRows", "meta", "rows"},
         ~run[p].final, Validated(p), UNCHANGED <<path, store>>
  PROVE  AloneInv'
<1>0. run[p] \in RunState /\ run[p].pc \in Known
  BY DEF TypeOK, Known
<1>1. run[p].alone => Undisturbed(p)
  BY AloneFacts
<1>2. CASE p \in Rebuilder /\ ~run[p].upgrade
  <2> DEFINE state == [run[p] EXCEPT !.pc = "commit", !.reading = Nothing]
  <2>1. run' = [run EXCEPT ![p] = state]
    BY <1>2 DEF Validated
  <2>2. /\ state.pc = "commit" /\ ~state.upgrade /\ ~state.final
        /\ state.file = run[p].file /\ state.alone = run[p].alone
    BY <1>0, <1>2 DEF RunState
  <2> HIDE DEF state
  <2>3. run'[p] = state
    BY <2>1 DEF TypeOK
  <2>4. run[p].alone => Undisturbed(p)'
    BY <1>0, <1>1, <2>2, <2>3 DEF Undisturbed, Connected, Known
  <2>5. EndsWell(p)'
    BY <2>2, <2>3 DEF EndsWell
  <2> QED
    BY <1>0, <2>1, <2>2, <2>4, <2>5, StepKeepsAlone
<1>3. CASE ~(p \in Rebuilder /\ ~run[p].upgrade)
  <2> DEFINE found == {Opened(p).snapshot}
             state == [run[p] EXCEPT !.pc = "meta", !.final = TRUE, !.since = found,
                                     !.reading = Nothing]
  <2>1. run' = [run EXCEPT ![p] = state]
    BY <1>3 DEF Validated
  <2> HIDE DEF found
  <2>2. /\ state.pc = "meta" /\ state.plan = run[p].plan
        /\ state.file = run[p].file /\ state.alone = run[p].alone
    BY <1>0 DEF RunState
  <2> HIDE DEF state
  <2>3. run'[p] = state
    BY <2>1 DEF TypeOK
  <2>4. run[p].alone /\ p \in Rebuilder => store[path].snapshot = run[p].plan
    BY <1>0, <1>1, <1>3 DEF Undisturbed
  <2>5. run[p].alone => run[p].file = path
    BY <1>0, <1>1 DEF Undisturbed, Connected
  <2>6. run[p].alone => Undisturbed(p)'
    BY <2>2, <2>3, <2>4, <2>5 DEF Undisturbed, Connected, Known
  <2>7. EndsWell(p)'
    BY <2>2, <2>3 DEF EndsWell
  <2> QED
    BY <1>0, <2>1, <2>2, <2>6, <2>7, StepKeepsAlone
<1> QED
  BY <1>2, <1>3

(* Who reads alone reads what it is to find.                                 *)
LEMMA HasReadKeepsAlone ==
  ASSUME TypeOK, AloneInv, NEW p \in Process, run[p].pc \in {"meta", "rows"},
         NEW reading, HasRead(p, reading), UNCHANGED <<path, store>>,
         run[p].alone /\ run[p].final /\ p \in Rebuilder =>
           reading["meta"] = store[path].snapshot
  PROVE  AloneInv'
<1>0. run[p] \in RunState /\ run[p].pc \in Known
  BY DEF TypeOK, Known
<1>1. run[p].alone /\ run[p].final /\ p \in Rebuilder => store[path].snapshot = run[p].plan
  BY <1>0, AloneFacts DEF Undisturbed
<1>2. CASE ~run[p].final
  BY <1>2, ValidatedKeepsAlone DEF HasRead
<1>3. CASE run[p].final /\ p \in Rebuilder /\ run[p].upgrade /\ reading["meta"] # run[p].plan
  <2>1. Ends(p, "torn") /\ ~run[p].alone
    BY <1>1, <1>3 DEF HasRead
  <2> QED
    BY <2>1, EndsKeepsAlone DEF Results, Errors
<1>4. CASE run[p].final /\ ~(p \in Rebuilder /\ run[p].upgrade /\ reading["meta"] # run[p].plan)
  <2> DEFINE state == [run[p] EXCEPT !.pc = "closing", !.result = "done", !.reading = reading]
  <2>1. run' = [run EXCEPT ![p] = state]
    BY <1>4 DEF HasRead
  <2>2. /\ state.pc = "closing" /\ state.result = "done" /\ state.plan = run[p].plan
        /\ state.alone = run[p].alone
    BY <1>0 DEF RunState
  <2> HIDE DEF state
  <2>3. run'[p] = state
    BY <2>1 DEF TypeOK
  <2>4. Undisturbed(p)'
    BY <2>2, <2>3 DEF Undisturbed, Connected, Known
  <2>5. run[p].alone => EndsWell(p)'
    BY <1>1, <1>4, <2>2, <2>3 DEF EndsWell
  <2> QED
    BY <2>1, <2>2, <2>4, <2>5, StepKeepsAlone
<1> QED
  BY <1>2, <1>3, <1>4

(* Who is alone stays so, whatever it does, and ends well.                   *)
LEMMA AloneStep ==
  TypeOK /\ TypeOK' /\ FilesInv /\ ReadingInv /\ AloneInv /\ [Next]_vars => AloneInv'
<1> SUFFICES ASSUME TypeOK, TypeOK', FilesInv, ReadingInv, AloneInv, [Next]_vars
             PROVE  AloneInv'
  OBVIOUS
<1> USE DEF Steps
<1>0. ASSUME NEW p \in Process
      PROVE  /\ run[p] \in RunState /\ Tidy(p)
             /\ StagedIsPrivate(p) /\ OpenedIsCurrent(p) /\ UpgradesOlder(p) /\ FollowsFile(p)
             /\ run[p].alone => Undisturbed(p)
  BY AloneFacts DEF TypeOK, FilesInv, ReadingInv
<1>1. CASE UNCHANGED vars
  BY <1>1 DEF vars, AloneInv, Undisturbed, EndsWell, Running
<1>2. ASSUME NEW s \in Session, EndSession(s) PROVE AloneInv'
  BY <1>2 DEF EndSession, AloneInv, Undisturbed, EndsWell, Running
<1>3. ASSUME NEW p \in Rebuilder, Launch(p) PROVE AloneInv'
  <2>1. PICK state \in RunState :
               /\ Starts(p, state)
               /\ state.file = 0 /\ state.staged = 0 /\ ~state.upgrade /\ ~state.final
               /\ state.plan = finished
               /\ \/ state.pc = "probe" /\ state.result = "none"
                  \/ state.pc = "closing" /\ state.result = "invalid"
    BY <1>3, LaunchIs
  <2>2. p \in Process /\ run[p].pc = "idle"
    BY <1>3 DEF Launch, Process
  <2>3. run'[p] = [state EXCEPT !.alone = (Running = {})]
    BY <2>1, <2>2 DEF Starts
  <2>4. /\ run'[p].pc = state.pc /\ ~run'[p].upgrade
        /\ run'[p].result = state.result
    BY <2>1, <2>3 DEF RunState
  <2>5. Undisturbed(p)' /\ EndsWell(p)'
    BY <2>1, <2>4 DEF Undisturbed, EndsWell, Connected, Known
  <2> QED
    BY <2>1, <2>2, <2>5, StartsKeepsAlone
<1>4. ASSUME NEW p \in Reader, Find(p) PROVE AloneInv'
  <2>0. p \in Process /\ p \notin Rebuilder /\ run[p].pc = "idle" /\ UNCHANGED <<path, store>>
    BY <1>4, CurrentStateAssumption DEF Find, Process
  <2>1. CASE path = 0
    <3> DEFINE state == [Idle EXCEPT !.pc = "closing", !.result = "done", !.since = {None}]
    <3>1. Starts(p, state)
      BY <1>4, <2>1 DEF Find
    <3>2. state \in RunState /\ state.pc = "closing" /\ state.result = "done"
      BY IdleIsRunState DEF Idle, RunState, Places, Maybe, Results
    <3> HIDE DEF state
    <3>3. run'[p] = [state EXCEPT !.alone = (Running = {})]
      BY <2>0, <3>1 DEF Starts
    <3>4. run'[p].pc = "closing" /\ run'[p].result = "done"
      BY <3>2, <3>3 DEF RunState
    <3>5. Undisturbed(p)' /\ EndsWell(p)'
      BY <2>0, <3>4 DEF Undisturbed, EndsWell, Connected, Known
    <3> QED
      BY <2>0, <3>1, <3>2, <3>5, StartsKeepsAlone
  <2>2. CASE path # 0
    <3> DEFINE pc == IF store[path].schema = "current" THEN "count" ELSE "closing"
               result == IF store[path].schema = "current" THEN "none" ELSE "incompatible"
               state == [Idle EXCEPT !.file = path, !.rw = FALSE, !.pc = pc, !.result = result]
    <3>1. Starts(p, state)
      BY <1>4, <2>2 DEF Find, OpensReadOnly
    <3>2. pc \in {"count", "closing"} /\ result \in {"none", "incompatible"}
          /\ (result = "incompatible" => store[path].schema # "current")
      OBVIOUS
    <3> HIDE DEF pc, result
    <3>3. state \in RunState /\ state.pc = pc /\ state.result = result /\ state.file = path
      BY <3>2, IdleIsRunState DEF Idle, RunState, Places, Results, Errors, TypeOK
    <3> HIDE DEF state
    <3>4. run'[p] = [state EXCEPT !.alone = (Running = {})]
      BY <2>0, <3>1 DEF Starts
    <3>5. run'[p].pc = pc /\ run'[p].result = result /\ run'[p].file = path
      BY <3>3, <3>4 DEF RunState
    <3>6. Undisturbed(p)'
      BY <2>0, <3>2, <3>5 DEF Undisturbed, Connected, Known
    <3>7. EndsWell(p)'
      BY <1>4, <2>0, <3>2, <3>5 DEF EndsWell
    <3> QED
      BY <2>0, <3>1, <3>2, <3>3, <3>6, <3>7, StartsKeepsAlone
  <2> QED
    BY <2>1, <2>2
<1>5. ASSUME NEW p \in Process, Probe(p) PROVE AloneInv'
  <2>0. run[p].pc = "probe" /\ UNCHANGED <<path, store>>
    BY <1>5 DEF Probe
  <2>1. CASE path = 0
    <3> DEFINE state == [run[p] EXCEPT !.pc = "open"]
    <3>1. run' = [run EXCEPT ![p] = state]
      BY <1>5, <2>1 DEF Probe, Goes
    <3>2. state.pc = "open" /\ state.alone = run[p].alone /\ state.upgrade = run[p].upgrade
      BY <1>0 DEF RunState
    <3> HIDE DEF state
    <3>3. run'[p] = state
      BY <3>1 DEF TypeOK
    <3>4. run[p].alone => Undisturbed(p)' /\ EndsWell(p)'
      BY <1>0, <2>0, <2>1, <3>2, <3>3 DEF Undisturbed, EndsWell, Connected, Known
    <3> QED
      BY <2>0, <3>1, <3>2, <3>4, StepKeepsAlone
  <2>2. CASE path # 0
    <3> DEFINE older == store[path].schema = "older"
               state == [run[p] EXCEPT !.pc = "probed", !.file = path, !.rw = TRUE,
                                       !.upgrade = older]
    <3>1. run' = [run EXCEPT ![p] = state]
      BY <1>5, <2>2 DEF Probe
    <3> HIDE DEF older
    <3>2. /\ state.pc = "probed" /\ state.alone = run[p].alone /\ state.upgrade = older
          /\ state.rw /\ state.file = path
      BY <1>0 DEF RunState
    <3> HIDE DEF state
    <3>3. run'[p] = state
      BY <3>1 DEF TypeOK
    <3>4. Undisturbed(p)'
      BY <2>0, <3>2, <3>3 DEF Undisturbed, Connected, Known, older
    <3>5. EndsWell(p)'
      BY <3>2, <3>3 DEF EndsWell
    <3> QED
      BY <2>0, <3>1, <3>2, <3>4, <3>5, StepKeepsAlone
  <2> QED
    BY <2>1, <2>2
<1>6. ASSUME NEW p \in Process, ProbeCloses(p) PROVE AloneInv'
  <2>0. run[p].pc = "probed" /\ UNCHANGED <<path, store>> /\ AfterClose(p)
    BY <1>6 DEF ProbeCloses
  <2> DEFINE pc == IF run[p].upgrade THEN "sidecars" ELSE "open"
             state == [run[p] EXCEPT !.pc = pc, !.file = 0, !.rw = FALSE]
  <2>1. run' = [run EXCEPT ![p] = state]
    BY <1>6 DEF ProbeCloses
  <2>2. (pc = "sidecars" /\ run[p].upgrade) \/ (pc = "open" /\ ~run[p].upgrade)
    OBVIOUS
  <2> HIDE DEF pc
  <2>3. state.pc = pc /\ state.alone = run[p].alone /\ state.upgrade = run[p].upgrade
    BY <1>0 DEF RunState
  <2> HIDE DEF state
  <2>4. run'[p] = state
    BY <2>1 DEF TypeOK
  <2>5. ASSUME run[p].alone PROVE Undisturbed(p)'
    <3>1. Undisturbed(p) /\ \A q \in Process \ {p} : run[q].file = 0
      BY <2>5, AloneFacts
    <3>2. run[p].rw /\ run[p].file = path /\ (run[p].upgrade <=> store[path].schema = "older")
      BY <2>0, <3>1 DEF Undisturbed, Connected
    <3>3. path # 0
      BY <1>0, <2>0, <3>2 DEF Tidy, Connected
    <3>4. ~sidecar'
      BY <2>0, <3>1, <3>2, <3>3 DEF AfterClose, CleanedUp
    <3> QED
      BY <2>0, <2>2, <2>3, <2>4, <3>2, <3>4 DEF Undisturbed, Connected, Known
  <2>6. EndsWell(p)'
    BY <2>2, <2>3, <2>4 DEF EndsWell
  <2> QED
    BY <2>0, <2>1, <2>2, <2>3, <2>5, <2>6, StepKeepsAlone
<1>7. ASSUME NEW p \in Process, CheckSidecars(p) PROVE AloneInv'
  <2>0. run[p].pc = "sidecars" /\ UNCHANGED <<path, store>>
    BY <1>7 DEF CheckSidecars
  <2>1. CASE sidecar
    <3>1. ~run[p].alone /\ Ends(p, "refused")
      BY <1>0, <1>7, <2>0, <2>1 DEF Undisturbed, CheckSidecars
    <3> QED
      BY <2>0, <3>1, EndsKeepsAlone DEF Results, Errors
  <2>2. CASE ~sidecar
    <3> DEFINE state == [run[p] EXCEPT !.pc = "stage"]
    <3>1. run' = [run EXCEPT ![p] = state]
      BY <1>7, <2>2 DEF CheckSidecars, Goes
    <3>2. state.pc = "stage" /\ state.alone = run[p].alone
      BY <1>0 DEF RunState
    <3> HIDE DEF state
    <3>3. run'[p] = state
      BY <3>1 DEF TypeOK
    <3>4. Undisturbed(p)' /\ EndsWell(p)'
      BY <3>2, <3>3 DEF Undisturbed, EndsWell, Connected, Known
    <3> QED
      BY <2>0, <3>1, <3>2, <3>4, StepKeepsAlone
  <2> QED
    BY <2>1, <2>2
<1>8. ASSUME NEW p \in Process, Stage(p) PROVE AloneInv'
  <2>0. run[p].pc = "stage"
    BY <1>8 DEF Stage
  <2> DEFINE f == NewFile
             state == [run[p] EXCEPT !.pc = "replace", !.staged = f]
  <2>1. run' = [run EXCEPT ![p] = state]
    BY <1>8 DEF Stage
  <2> HIDE DEF f
  <2>2. state.pc = "replace" /\ state.alone = run[p].alone
    BY <1>0 DEF RunState
  <2> HIDE DEF state
  <2>3. run'[p] = state
    BY <2>1 DEF TypeOK
  <2>4. Undisturbed(p)' /\ EndsWell(p)'
    BY <2>2, <2>3 DEF Undisturbed, EndsWell, Connected, Known
  <2> QED
    BY <2>0, <2>1, <2>2, <2>4, StepKeepsAlone
<1>9. ASSUME NEW p \in Process, Replace(p) PROVE AloneInv'
  <2>0. run[p].pc = "replace" /\ path' = run[p].staged /\ UNCHANGED store
    BY <1>9 DEF Replace
  <2> DEFINE state == [run[p] EXCEPT !.pc = "reopen", !.staged = 0]
  <2>1. run' = [run EXCEPT ![p] = state]
    BY <1>9 DEF Replace
  <2>2. state.pc = "reopen" /\ state.alone = run[p].alone /\ state.plan = run[p].plan
    BY <1>0 DEF RunState
  <2> HIDE DEF state
  <2>3. run'[p] = state
    BY <2>1 DEF TypeOK
  <2>4. store[path'] = [schema |-> "current", snapshot |-> run[p].plan]
    BY <1>0, <2>0 DEF StagedIsPrivate, Tidy
  <2>5. Undisturbed(p)' /\ EndsWell(p)'
    BY <2>0, <2>2, <2>3, <2>4 DEF Undisturbed, EndsWell, Connected, Known
  <2> QED
    BY <2>0, <2>1, <2>2, <2>5, StepKeepsAlone
<1>10. ASSUME NEW p \in Process, Reopen(p) PROVE AloneInv'
  <2>0. run[p].pc = "reopen" /\ UNCHANGED <<path, store>>
    BY <1>10 DEF Reopen
  <2> DEFINE pc == IF store[path].schema = "current" THEN "count" ELSE "closing"
             result == IF store[path].schema = "current" THEN "none" ELSE "incompatible"
             state == [run[p] EXCEPT !.file = path, !.rw = FALSE, !.pc = pc, !.result = result]
  <2>1. run' = [run EXCEPT ![p] = state]
    BY <1>10 DEF Reopen, OpensReadOnly
  <2>2. pc \in {"count", "closing"} /\ (store[path].schema = "current" => pc = "count")
    OBVIOUS
  <2> HIDE DEF pc, result
  <2>3. /\ state.pc = pc /\ state.file = path /\ state.plan = run[p].plan
        /\ state.alone = run[p].alone
    BY <1>0 DEF RunState
  <2> HIDE DEF state
  <2>4. run'[p] = state
    BY <2>1 DEF TypeOK
  <2>5. run[p].alone => pc = "count" /\ store[path].snapshot = run[p].plan
    BY <1>0, <2>0, <2>2 DEF Undisturbed
  <2>6. run[p].alone => Undisturbed(p)' /\ EndsWell(p)'
    BY <2>0, <2>3, <2>4, <2>5 DEF Undisturbed, EndsWell, Connected, Known
  <2> QED
    BY <2>0, <2>1, <2>2, <2>3, <2>6, StepKeepsAlone
<1>11. ASSUME NEW p \in Process, Connect(p) PROVE AloneInv'
  <2>0. run[p].pc = "open" /\ (path = 0 => HasRoom)
    BY <1>11 DEF Connect
  <2> DEFINE f == IF path = 0 THEN NewFile ELSE path
  <2>1. PICK marked \in BOOLEAN :
          /\ marked <=> store'[f].schema # "blank"
          /\ run' = [run EXCEPT ![p].pc = "preflight", ![p].file = f, ![p].rw = TRUE,
                                ![p].marked = marked]
          /\ path' = f
          /\ store' = IF path = 0 THEN [store EXCEPT ![f] = Blank] ELSE store
    BY <1>11 DEF Connect
  <2>2. f \in File /\ (path # 0 => f = path)
    BY <2>0, NewFileIsUnused DEF TypeOK
  <2> HIDE DEF f
  <2>3. store' \in [File -> Content] /\ (path # 0 => store' = store)
        /\ (path = 0 => store'[f].schema = "blank")
    BY <2>1, <2>2 DEF TypeOK, Blank
  <2> DEFINE state == [run[p] EXCEPT !.pc = "preflight", !.file = f, !.rw = TRUE,
                                     !.marked = marked]
  <2>4. run' = [run EXCEPT ![p] = state]
    BY <2>1
  <2>5. /\ state.pc = "preflight" /\ state.alone = run[p].alone /\ state.file = f
        /\ state.upgrade = run[p].upgrade /\ state.marked = marked
    BY <1>0 DEF RunState
  <2> HIDE DEF state
  <2>6. run'[p] = state
    BY <2>4 DEF TypeOK
  <2>7. run[p].alone => ~run[p].upgrade /\ (path # 0 => store[path].schema # "older")
    BY <1>0, <2>0 DEF Undisturbed
  <2>8. run[p].alone => store'[f].schema # "older"
    BY <2>2, <2>3, <2>7
  <2>9. run[p].alone => Undisturbed(p)' /\ EndsWell(p)'
    BY <2>1, <2>5, <2>6, <2>7, <2>8 DEF Undisturbed, EndsWell, Connected, Known
  <2> QED
    BY <2>0, <2>4, <2>5, <2>9, StepKeepsAlone
<1>12. ASSUME NEW p \in Process, Preflight(p) PROVE AloneInv'
  <2>0. run[p].pc = "preflight" /\ UNCHANGED <<path, store>>
    BY <1>12 DEF Preflight
  <2>1. run[p].alone => /\ run[p].file = path /\ path # 0 /\ ~run[p].upgrade
                        /\ store[path].schema # "older"
                        /\ run[p].marked <=> store[path].schema # "blank"
    BY <1>0, <2>0 DEF Undisturbed, Connected, Tidy
  <2>2. CASE Opened(p).schema = (IF run[p].marked THEN "current" ELSE "blank")
    <3> DEFINE state == [run[p] EXCEPT !.pc = "bootstrap", !.marked = FALSE]
    <3>1. run' = [run EXCEPT ![p] = state]
      BY <1>12, <2>2 DEF Preflight
    <3>2. /\ state.pc = "bootstrap" /\ state.alone = run[p].alone /\ state.file = run[p].file
          /\ state.upgrade = run[p].upgrade
      BY <1>0 DEF RunState
    <3> HIDE DEF state
    <3>3. run'[p] = state
      BY <3>1 DEF TypeOK
    <3>4. run[p].alone => Undisturbed(p)' /\ EndsWell(p)'
      BY <2>0, <2>1, <3>2, <3>3 DEF Undisturbed, EndsWell, Connected, Known
    <3> QED
      BY <2>0, <3>1, <3>2, <3>4, StepKeepsAlone
  <2>3. CASE Opened(p).schema # (IF run[p].marked THEN "current" ELSE "blank")
    <3>1. Ends(p, "incompatible")
      BY <1>12, <2>3 DEF Preflight
    <3>2. store[path].schema \in Schemas \/ path = 0
      BY DEF TypeOK, Content
    <3>3. run[p].alone => store[path].schema = "foreign"
      BY <2>1, <2>3, <3>2 DEF Opened, Schemas
    <3> QED
      BY <2>0, <3>1, <3>3, EndsKeepsAlone DEF Results, Errors
  <2> QED
    BY <2>2, <2>3
<1>13. ASSUME NEW p \in Process, Bootstrap(p) PROVE AloneInv'
  <2>0. run[p].pc = "bootstrap" /\ UNCHANGED <<path, store>>
    BY <1>13 DEF Bootstrap
  <2> DEFINE pc == IF Opened(p).schema = "blank" THEN "initialize" ELSE "count"
             state == [run[p] EXCEPT !.pc = pc]
  <2>1. run' = [run EXCEPT ![p] = state]
    BY <1>13 DEF Bootstrap, Goes
  <2>2. pc \in {"initialize", "count"} /\ (pc = "initialize" => Opened(p).schema = "blank")
    OBVIOUS
  <2> HIDE DEF pc
  <2>3. /\ state.pc = pc /\ state.alone = run[p].alone /\ state.file = run[p].file
        /\ state.upgrade = run[p].upgrade /\ state.final = run[p].final
    BY <1>0 DEF RunState
  <2> HIDE DEF state
  <2>4. run'[p] = state
    BY <2>1 DEF TypeOK
  <2>5. ~run[p].final
    BY <1>0, <2>0 DEF FollowsFile
  <2>6. run[p].alone => run[p].file = path /\ ~run[p].upgrade
    BY <1>0, <2>0 DEF Undisturbed, Connected
  <2>7. run[p].alone => Undisturbed(p)'
    BY <2>0, <2>2, <2>3, <2>4, <2>5, <2>6 DEF Undisturbed, Opened, Connected, Known
  <2>8. EndsWell(p)'
    BY <2>2, <2>3, <2>4 DEF EndsWell
  <2> QED
    BY <2>0, <2>1, <2>2, <2>3, <2>7, <2>8, StepKeepsAlone
<1>14. ASSUME NEW p \in Process, Initialize(p) PROVE AloneInv'
  <2>0. run[p].pc = "initialize" /\ UNCHANGED path
    BY <1>14 DEF Initialize
  <2>1. run[p].alone => run[p].file = path /\ ~run[p].upgrade /\ store[path].schema = "blank"
    BY <1>0, <2>0 DEF Undisturbed, Connected
  <2>2. CASE Opened(p).schema = "blank"
    <3> DEFINE f == run[p].file
               seen(q) == IF run[q].final /\ run[q].file = f
                            THEN run[q].since \cup {None} ELSE run[q].since
               place(q) == IF q = p THEN "count" ELSE run[q].pc
    <3>1. \A q \in Process : run'[q] = [run[q] EXCEPT !.since = seen(q), !.pc = place(q)]
      BY <1>14, <2>2 DEF Initialize, Commits
    <3>2. ASSUME NEW q \in Process
          PROVE  /\ run'[q].pc = place(q) /\ run'[q].alone = run[q].alone
                 /\ run'[q].file = run[q].file /\ run'[q].upgrade = run[q].upgrade
                 /\ run'[q].final = run[q].final
      <4> DEFINE s == seen(q)  c == place(q)
      <4>1. run'[q] = [run[q] EXCEPT !.since = s, !.pc = c]
        BY <3>1
      <4> HIDE DEF s, c
      <4>2. /\ run'[q].pc = c /\ run'[q].alone = run[q].alone /\ run'[q].file = run[q].file
            /\ run'[q].upgrade = run[q].upgrade /\ run'[q].final = run[q].final
        BY <1>0, <4>1 DEF RunState
      <4> QED
        BY <4>2 DEF c
    <3> HIDE DEF seen
    <3>3. ~run[p].final
      BY <1>0, <2>0 DEF FollowsFile
    <3>4. run'[p].pc = "count" /\ run'[p].alone = run[p].alone
          /\ run'[p].file = run[p].file /\ run'[p].upgrade = run[p].upgrade /\ ~run'[p].final
      BY <3>2, <3>3
    <3>5. \A q \in Process \ {p} : run'[q].pc = run[q].pc /\ run'[q].alone = run[q].alone
      BY <3>2
    <3>6. run[p].alone => Undisturbed(p)' /\ EndsWell(p)'
      BY <2>0, <2>1, <3>4 DEF Undisturbed, EndsWell, Connected, Known
    <3> QED
      BY <2>0, <3>4, <3>5, <3>6, AloneFrame
  <2>3. CASE Opened(p).schema # "blank"
    <3>1. ~run[p].alone /\ Ends(p, "taken") /\ UNCHANGED store
      BY <1>14, <2>1, <2>3 DEF Initialize, Opened
    <3> QED
      BY <2>0, <3>1, EndsKeepsAlone DEF Results, Errors
  <2> QED
    BY <2>2, <2>3
<1>15. ASSUME NEW p \in Process, CountMeta(p) PROVE AloneInv'
  <2>0. run[p].pc = "count" /\ UNCHANGED <<path, store>>
    BY <1>15 DEF CountMeta
  <2> DEFINE some == Opened(p).snapshot # None
             state == [run[p] EXCEPT !.pc = "countRows", !.some = some]
  <2>1. run' = [run EXCEPT ![p] = state]
    BY <1>15 DEF CountMeta
  <2> HIDE DEF some
  <2>2. /\ state.pc = "countRows" /\ state.alone = run[p].alone /\ state.file = run[p].file
        /\ state.upgrade = run[p].upgrade /\ state.final = run[p].final
        /\ state.plan = run[p].plan /\ state.some = some
    BY <1>0 DEF RunState
  <2> HIDE DEF state
  <2>3. run'[p] = state
    BY <2>1 DEF TypeOK
  <2>4. run[p].alone =>
          /\ run[p].file = path
          /\ p \in Rebuilder /\ (run[p].upgrade \/ run[p].final) =>
               store[path].snapshot = run[p].plan
    BY <1>0, <2>0 DEF Undisturbed, Connected, Known
  <2>5. run[p].alone => (some <=> store[path].snapshot # None)
    BY <2>4 DEF some, Opened
  <2>6. run[p].alone => Undisturbed(p)'
    BY <2>0, <2>2, <2>3, <2>4, <2>5 DEF Undisturbed, Connected, Known
  <2>7. EndsWell(p)'
    BY <2>2, <2>3 DEF EndsWell
  <2> QED
    BY <2>0, <2>1, <2>2, <2>6, <2>7, StepKeepsAlone
<1>16. ASSUME NEW p \in Process, CountRows(p) PROVE AloneInv'
  <2>0. run[p].pc = "countRows" /\ UNCHANGED <<path, store>>
    BY <1>16 DEF CountRows
  <2>1. run[p].alone =>
          /\ run[p].file = path
          /\ run[p].some <=> store[path].snapshot # None
          /\ p \in Rebuilder /\ (run[p].upgrade \/ run[p].final) =>
               store[path].snapshot = run[p].plan
    BY <1>0, <2>0 DEF Undisturbed, Connected, Known
  <2>2. CASE run[p].some
    <3> DEFINE state == [run[p] EXCEPT !.pc = "meta", !.some = FALSE]
    <3>1. run' = [run EXCEPT ![p] = state]
      BY <1>16, <2>2 DEF CountRows
    <3>2. /\ state.pc = "meta" /\ state.alone = run[p].alone /\ state.file = run[p].file
          /\ state.upgrade = run[p].upgrade /\ state.final = run[p].final
          /\ state.plan = run[p].plan
      BY <1>0 DEF RunState
    <3> HIDE DEF state
    <3>3. run'[p] = state
      BY <3>1 DEF TypeOK
    <3>4. run[p].alone => Undisturbed(p)'
      BY <2>0, <2>1, <3>2, <3>3 DEF Undisturbed, Connected, Known
    <3>5. EndsWell(p)'
      BY <3>2, <3>3 DEF EndsWell
    <3> QED
      BY <2>0, <3>1, <3>2, <3>4, <3>5, StepKeepsAlone
  <2>3. CASE ~run[p].some /\ Opened(p).snapshot \in {None, {}}
    <3>1. Validated(p) /\ ~run[p].final
      BY <1>0, <1>16, <2>0, <2>3 DEF CountRows, FollowsFile
    <3> QED
      BY <2>0, <3>1, ValidatedKeepsAlone
  <2>4. CASE ~run[p].some /\ Opened(p).snapshot \notin {None, {}}
    <3>1. ~run[p].alone /\ Ends(p, "torn")
      BY <1>16, <2>1, <2>4 DEF CountRows, Opened
    <3> QED
      BY <2>0, <3>1, EndsKeepsAlone DEF Results, Errors
  <2> QED
    BY <2>2, <2>3, <2>4
<1>17. ASSUME NEW p \in Process, ReadMeta(p) PROVE AloneInv'
  <2>0. run[p].pc = "meta" /\ UNCHANGED <<path, store>>
    BY <1>17 DEF ReadMeta
  <2>1. run[p].alone =>
          /\ run[p].file = path
          /\ p \in Rebuilder /\ (run[p].upgrade \/ run[p].final) =>
               store[path].snapshot = run[p].plan
    BY <1>0, <2>0 DEF Undisturbed, Connected, Known
  <2>2. CASE Opened(p).snapshot = None
    <3>1. HasRead(p, Nothing)
      BY <1>17, <2>2 DEF ReadMeta
    <3>2. p \in Rebuilder => run[p].plan # None
      BY <1>0, <2>0 DEF Tidy
    <3>3. ~(run[p].alone /\ run[p].final /\ p \in Rebuilder)
      BY <2>1, <2>2, <3>2 DEF Opened
    <3> QED
      BY <2>0, <3>1, <3>3, HasReadKeepsAlone
  <2>3. CASE Opened(p).snapshot # None
    <3> DEFINE reading == Read(p, "meta")
               state == [run[p] EXCEPT !.pc = "ledger", !.reading = reading]
    <3>1. run' = [run EXCEPT ![p] = state]
      BY <1>17, <2>3 DEF ReadMeta
    <3>2. reading["meta"] = Opened(p).snapshot
      BY <1>0 DEF Read, RunState, Reading, Parts
    <3> HIDE DEF reading
    <3>3. /\ state.pc = "ledger" /\ state.alone = run[p].alone /\ state.file = run[p].file
          /\ state.upgrade = run[p].upgrade /\ state.final = run[p].final
          /\ state.plan = run[p].plan /\ state.reading = reading
      BY <1>0 DEF RunState
    <3> HIDE DEF state
    <3>4. run'[p] = state
      BY <3>1 DEF TypeOK
    <3>5. run[p].alone => reading["meta"] = store[path].snapshot
      BY <2>1, <3>2 DEF Opened
    <3>6. run[p].alone => Undisturbed(p)'
      BY <2>0, <2>1, <3>3, <3>4, <3>5 DEF Undisturbed, Connected, Known
    <3>7. EndsWell(p)'
      BY <3>3, <3>4 DEF EndsWell
    <3> QED
      BY <2>0, <3>1, <3>3, <3>6, <3>7, StepKeepsAlone
  <2> QED
    BY <2>2, <2>3
<1>18. ASSUME NEW p \in Process, ReadLedger(p) PROVE AloneInv'
  <2>0. run[p].pc = "ledger" /\ UNCHANGED <<path, store>>
    BY <1>18 DEF ReadLedger
  <2>1. run[p].alone =>
          /\ run[p].file = path /\ run[p].reading["meta"] = store[path].snapshot
          /\ p \in Rebuilder /\ (run[p].upgrade \/ run[p].final) =>
               store[path].snapshot = run[p].plan
    BY <1>0, <2>0 DEF Undisturbed, Connected, Known
  <2> DEFINE reading == Read(p, "ledger")
             state == [run[p] EXCEPT !.pc = "rows", !.reading = reading]
  <2>2. run' = [run EXCEPT ![p] = state]
    BY <1>18 DEF ReadLedger
  <2>3. reading["meta"] = run[p].reading["meta"] /\ reading["ledger"] = Opened(p).snapshot
    BY <1>0 DEF Read, RunState, Reading, Parts
  <2> HIDE DEF reading
  <2>4. /\ state.pc = "rows" /\ state.alone = run[p].alone /\ state.file = run[p].file
        /\ state.upgrade = run[p].upgrade /\ state.final = run[p].final
        /\ state.plan = run[p].plan /\ state.reading = reading
    BY <1>0 DEF RunState
  <2> HIDE DEF state
  <2>5. run'[p] = state
    BY <2>2 DEF TypeOK
  <2>6. run[p].alone => /\ reading["meta"] = store[path].snapshot
                        /\ reading["ledger"] = store[path].snapshot
    BY <2>1, <2>3 DEF Opened
  <2>7. run[p].alone => Undisturbed(p)'
    BY <2>0, <2>1, <2>4, <2>5, <2>6 DEF Undisturbed, Connected, Known
  <2>8. EndsWell(p)'
    BY <2>4, <2>5 DEF EndsWell
  <2> QED
    BY <2>0, <2>2, <2>4, <2>7, <2>8, StepKeepsAlone
<1>19. ASSUME NEW p \in Process, ReadRows(p) PROVE AloneInv'
  <2>0. run[p].pc = "rows" /\ UNCHANGED <<path, store>>
    BY <1>19 DEF ReadRows
  <2>1. run[p].alone =>
          /\ run[p].file = path /\ run[p].reading["meta"] = store[path].snapshot
          /\ run[p].reading["ledger"] = store[path].snapshot
    BY <1>0, <2>0 DEF Undisturbed, Connected, Known
  <2> DEFINE reading == Read(p, "rows")
  <2>2. /\ reading["meta"] = run[p].reading["meta"]
        /\ reading["ledger"] = run[p].reading["ledger"]
        /\ reading["rows"] = Opened(p).snapshot
    BY <1>0 DEF Read, RunState, Reading, Parts
  <2>3. (Coherent(reading) /\ HasRead(p, reading)) \/ (~Coherent(reading) /\ Ends(p, "torn"))
    BY <1>19 DEF ReadRows
  <2> HIDE DEF reading
  <2>4. run[p].alone => reading["meta"] = store[path].snapshot /\ Coherent(reading)
    BY <2>1, <2>2 DEF Opened, Coherent, Shows
  <2>5. CASE Coherent(reading)
    BY <2>0, <2>3, <2>4, <2>5, HasReadKeepsAlone
  <2>6. CASE ~Coherent(reading)
    BY <2>0, <2>3, <2>4, <2>6, EndsKeepsAlone DEF Results, Errors
  <2> QED
    BY <2>5, <2>6
<1>20. ASSUME NEW p \in Process, Commit(p) PROVE AloneInv'
  <2> DEFINE f == run[p].file  plan == run[p].plan
             seen(q) == IF q = p THEN {plan}
                        ELSE IF run[q].final /\ run[q].file = f
                               THEN run[q].since \cup {plan} ELSE run[q].since
             place(q) == IF q = p THEN "meta" ELSE run[q].pc
             last(q) == run[q].final \/ q = p
  <2>1. /\ store' = [store EXCEPT ![f].snapshot = plan] /\ run[p].pc = "commit"
        /\ UNCHANGED path
        /\ \A q \in Process :
             run'[q] = [run[q] EXCEPT !.since = seen(q), !.pc = place(q), !.final = last(q)]
    BY <1>20 DEF Commit
  <2>2. ASSUME NEW q \in Process
        PROVE  /\ run'[q].pc = place(q) /\ run'[q].alone = run[q].alone
               /\ run'[q].file = run[q].file /\ run'[q].plan = run[q].plan
    <3> DEFINE s == seen(q)  c == place(q)  l == last(q)
    <3>1. run'[q] = [run[q] EXCEPT !.since = s, !.pc = c, !.final = l]
      BY <2>1
    <3> HIDE DEF s, c, l
    <3>2. /\ run'[q].pc = c /\ run'[q].alone = run[q].alone
          /\ run'[q].file = run[q].file /\ run'[q].plan = run[q].plan
      BY <1>0, <3>1 DEF RunState
    <3> QED
      BY <3>2 DEF c
  <2>3. run[p].alone => f = path
    BY <1>0, <2>1 DEF Undisturbed, Connected, Known
  <2>4. store'[f].snapshot = plan
    <3>1. f \in File /\ store[f] \in Content
      BY <2>1, OpenedIsContent DEF Connected, Known
    <3>2. store'[f] = [store[f] EXCEPT !.snapshot = plan]
      BY <2>1, <3>1 DEF TypeOK
    <3> QED
      BY <3>1, <3>2 DEF Content
  <2>5. run'[p].pc = "meta" /\ run'[p].alone = run[p].alone /\ run'[p].file = f
        /\ run'[p].plan = plan
    BY <2>2
  <2>6. \A q \in Process \ {p} : run'[q].pc = run[q].pc /\ run'[q].alone = run[q].alone
    BY <2>2
  <2> HIDE DEF f, plan
  <2>7. run[p].alone => Undisturbed(p)'
    BY <2>1, <2>3, <2>4, <2>5 DEF Undisturbed, Connected, Known
  <2>8. EndsWell(p)'
    BY <2>5 DEF EndsWell
  <2> QED
    BY <2>1, <2>5, <2>6, <2>7, <2>8, AloneFrame
<1>21. ASSUME NEW p \in Process, run[p].pc # "idle", run' = [run EXCEPT ![p] = Idle]
       PROVE AloneInv'
  <2>1. ~Idle.alone /\ Idle.pc = "idle"
    BY DEF Idle
  <2>2. run'[p] = Idle
    BY <1>21 DEF TypeOK
  <2>3. Undisturbed(p)' /\ EndsWell(p)'
    BY <2>1, <2>2 DEF Undisturbed, EndsWell, Connected, Known
  <2> QED
    BY <1>21, <2>1, <2>3, StepKeepsAlone
<1>22. ASSUME NEW p \in Rebuilder, ProbeFails(p) PROVE AloneInv'
  <2>0. p \in Process /\ run[p].pc = "probed"
    BY <1>22 DEF ProbeFails, Process
  <2> DEFINE state == [run[p] EXCEPT !.upgrade = FALSE, !.alone = FALSE]
  <2>1. run' = [run EXCEPT ![p] = state]
    BY <1>22 DEF ProbeFails
  <2>2. ~state.alone
    BY <1>0, <2>0 DEF RunState
  <2> HIDE DEF state
  <2>3. ~run'[p].alone /\ \A q \in Process \ {p} : run'[q] = run[q]
    BY <2>0, <2>1, <2>2 DEF TypeOK
  <2> QED
    BY <2>0, <2>3, AloneFrame
<1>23. ASSUME NEW p \in Rebuilder, Fails(p) PROVE AloneInv'
  <2>1. p \in Process /\ run[p].pc # "idle" /\ Ends(p, "failed") /\ UNCHANGED <<path, store>>
    BY <1>23 DEF Fails, Process, Running
  <2> QED
    BY <2>1, EndsKeepsAlone DEF Results
<1>24. ASSUME NEW p \in Process, Close(p) PROVE AloneInv'
  BY <1>21, <1>24 DEF Close
<1>25. ASSUME NEW p \in Rebuilder, Killed(p) PROVE AloneInv'
  BY <1>21, <1>25 DEF Killed, Process, Running
<1> QED
  BY <1>1, <1>2, <1>3, <1>4, <1>5, <1>6, <1>7, <1>8, <1>9, <1>10, <1>11, <1>12, <1>13, <1>14,
     <1>15, <1>16, <1>17, <1>18, <1>19, <1>20, <1>22, <1>23, <1>24, <1>25 DEF Next, Step

(* At the start nobody is alone, for nobody runs.                            *)
LEMMA AloneInit == Init => AloneInv
  BY DEF Init, Idle, AloneInv

(* Whatever earlier rebuilds that failed or were killed have left at the     *)
(* path: a rebuild or a read that has it to itself is not refused, finds no  *)
(* torn database and no tables of somebody else, unless the database is not  *)
(* a Current State at all; and a rebuild that succeeds leaves what it        *)
(* replayed.                                                                 *)
THEOREM AloneProcessesSucceed == Spec => []AloneSucceeds
<1>1. Init => TypeOK /\ FilesInv /\ ReadingInv /\ AloneInv
  BY TypeInit, FilesInit, ReadingInit, AloneInit
<1>2. TypeOK /\ FilesInv /\ ReadingInv /\ AloneInv /\ [Next]_vars =>
        TypeOK' /\ FilesInv' /\ ReadingInv' /\ AloneInv'
  BY TypeStep, FilesStep, ReadingStep, AloneStep
<1>3. AloneInv => AloneSucceeds
  BY DEF AloneInv, EndsWell, AloneSucceeds
<1> QED
  BY <1>1, <1>2, <1>3, PTL DEF Spec

-----------------------------------------------------------------------------
(* What a replay makes of the sessions it reads.                             *)

(* Induction over data: a set that has 0 and with a number the next one has  *)
(* every number.                                                             *)
LEMMA Induction ==
  ASSUME NEW T, 0 \in T, \A n \in Nat : n \in T => n + 1 \in T
  PROVE  \A n \in Nat : n \in T
<1> DEFINE rest == {n \in Nat : n \notin T}
           less == {ss \in Nat \X Nat : ss[1] < ss[2]}
<1> SUFFICES ASSUME rest # {} PROVE FALSE
  OBVIOUS
<1>1. IsWellFoundedOn(less, Nat) /\ rest \subseteq Nat
  BY NatLessThanWellFounded DEF OpToRel
<1>2. \E x \in rest : \A y \in rest : ~ (<<y, x>> \in less)
  <2> HIDE DEF rest, less
  <2> QED
    BY <1>1, WFMin
<1>3. PICK x \in rest : \A y \in rest : ~(y < x)
  BY <1>2
<1>4. x - 1 \in Nat /\ x - 1 < x /\ (x - 1) + 1 = x
  OBVIOUS
<1> QED
  BY <1>3, <1>4

(* A set of numbers up to a bound has a greatest one.                        *)
LEMMA MaxOfSome ==
  ASSUME NEW n \in Nat, NEW s \in SUBSET (1 .. n), s # {}
  PROVE  Max(s) \in s /\ \A y \in s : y <= Max(s)
<1> DEFINE T == {m \in Nat : \A t \in SUBSET (1 .. m) :
                   t # {} => \E x \in t : \A y \in t : x >= y}
<1>1. 0 \in T
  <2>1. 1 .. 0 = {}
    OBVIOUS
  <2> QED
    BY <2>1
<1>2. ASSUME NEW m \in Nat, m \in T PROVE m + 1 \in T
  <2> SUFFICES ASSUME NEW t \in SUBSET (1 .. (m + 1)), t # {}
               PROVE  \E x \in t : \A y \in t : x >= y
    BY <1>2
  <2>1. CASE m + 1 \in t
    BY <2>1
  <2>2. CASE m + 1 \notin t
    <3>1. t \in SUBSET (1 .. m)
      BY <2>2
    <3> QED
      BY <1>2, <3>1
  <2> QED
    BY <2>1, <2>2
<1>3. n \in T
  <2> HIDE DEF T
  <2> QED
    BY <1>1, <1>2, Induction
<1>4. \E x \in s : \A y \in s : x >= y
  BY <1>3
<1> QED
  BY <1>4 DEF Max

(* The function by which MapThenFoldSet folds from the greatest index down.  *)
FoldsWith(g, n, base, step) ==
  \A s \in SUBSET (1 .. n) :
    g[s] = IF s = {} THEN base ELSE step[<<Max(s), g[s \ {Max(s)}]>>]

LEMMA FoldExists ==
  ASSUME NEW n \in Nat, NEW V, NEW base \in V, NEW step \in [(1 .. n) \X V -> V]
  PROVE  \E g \in [SUBSET (1 .. n) -> V] : FoldsWith(g, n, base, step)
<1> DEFINE Has(m) == \E g \in [SUBSET (1 .. m) -> V] : FoldsWith(g, m, base, step)
           T == {m \in Nat : m <= n => Has(m)}
<1>1. Has(0)
  <2> DEFINE h == [s \in SUBSET (1 .. 0) |-> base]
  <2>1. h \in [SUBSET (1 .. 0) -> V]
    OBVIOUS
  <2>2. 1 .. 0 = {}
    OBVIOUS
  <2>3. \A s \in SUBSET (1 .. 0) : s = {} /\ h[s] = base
    BY ONLY <2>2
  <2> HIDE DEF h
  <2>4. FoldsWith(h, 0, base, step)
    BY <2>3 DEF FoldsWith
  <2> QED
    BY <2>1, <2>4
<1>2. ASSUME NEW m \in Nat, Has(m), m + 1 <= n PROVE Has(m + 1)
  <2>1. PICK g \in [SUBSET (1 .. m) -> V] : FoldsWith(g, m, base, step)
    BY <1>2
  <2> DEFINE h == [s \in SUBSET (1 .. (m + 1)) |->
                     IF m + 1 \in s THEN step[<<m + 1, g[s \ {m + 1}]>>] ELSE g[s]]
  <2>2. \A s \in SUBSET (1 .. (m + 1)) :
          /\ s \ {m + 1} \in SUBSET (1 .. m)
          /\ m + 1 \notin s => s \in SUBSET (1 .. m)
    OBVIOUS
  <2>3. h \in [SUBSET (1 .. (m + 1)) -> V]
    <3>1. ASSUME NEW s \in SUBSET (1 .. (m + 1)) PROVE h[s] \in V
      <4>1. CASE m + 1 \in s
        <5>1. m + 1 \in 1 .. n
          BY <1>2
        <5>2. g[s \ {m + 1}] \in V
          BY <2>2
        <5> DEFINE v == g[s \ {m + 1}]
        <5>3. h[s] = step[<<m + 1, v>>]
          BY <4>1
        <5> HIDE DEF v, h
        <5>4. v \in V
          BY <5>2 DEF v
        <5> QED
          BY <5>1, <5>3, <5>4
      <4>2. CASE m + 1 \notin s
        BY <2>2, <4>2
      <4> QED
        BY <4>1, <4>2
    <3> QED
      BY <3>1
  <2>4. ASSUME NEW s \in SUBSET (1 .. (m + 1))
        PROVE  h[s] = IF s = {} THEN base ELSE step[<<Max(s), h[s \ {Max(s)}]>>]
    <3>1. CASE m + 1 \in s
      <4>0. m + 1 \in Nat /\ s # {}
        BY <3>1
      <4>1. Max(s) \in s /\ \A y \in s : y <= Max(s)
        BY <4>0, MaxOfSome
      <4> DEFINE x == Max(s)
      <4>2. x = m + 1
        <5>1. x \in 1 .. (m + 1) /\ m + 1 <= x
          BY <3>1, <4>1
        <5> HIDE DEF x
        <5> QED
          BY <5>1
      <4>3. h[s] = step[<<m + 1, g[s \ {m + 1}]>>] /\ h[s \ {m + 1}] = g[s \ {m + 1}]
        BY <3>1, <2>2
      <4> HIDE DEF h
      <4> QED
        BY <3>1, <4>2, <4>3
    <3>2. CASE m + 1 \notin s
      <4>1. h[s] = g[s] /\ s \in SUBSET (1 .. m)
        BY <2>2, <3>2
      <4>2. g[s] = IF s = {} THEN base ELSE step[<<Max(s), g[s \ {Max(s)}]>>]
        BY <2>1, <4>1 DEF FoldsWith
      <4>3. h[s \ {Max(s)}] = g[s \ {Max(s)}]
        BY <3>2
      <4> HIDE DEF h
      <4> QED
        BY <4>1, <4>2, <4>3
    <3> QED
      BY <3>1, <3>2
  <2>5. FoldsWith(h, m + 1, base, step)
    BY <2>4 DEF FoldsWith
  <2> QED
    BY <2>3, <2>5
<1>3. n \in T
  <2> HIDE DEF Has
  <2>1. 0 \in T
    BY <1>1
  <2>2. ASSUME NEW m \in Nat, m \in T PROVE m + 1 \in T
    BY <1>2, <2>2
  <2> HIDE DEF T
  <2> QED
    BY <2>1, <2>2, Induction
<1>4. Has(n)
  <2> HIDE DEF Has
  <2> QED
    BY <1>3
<1> QED
  BY <1>4

(* What such a function gives the numbers up to n, step by step.             *)
Unrolled(h, n, base, step) ==
  h[0] = base /\ \A k \in 1 .. n : h[k] = step[<<k, h[k - 1]>>]

FoldsIn(iter, n, V, base, step) ==
  /\ iter[{}] = base
  /\ \A s \in SUBSET (1 .. n) :
       s # {} /\ iter[s \ {Max(s)}] \in V => iter[s] = step[<<Max(s), iter[s \ {Max(s)}]>>]

LEMMA FoldUnrolls ==
  ASSUME NEW n \in Nat, NEW V, NEW base \in V, NEW step \in [(1 .. n) \X V -> V], NEW iter,
         FoldsIn(iter, n, V, base, step)
  PROVE  \E h \in [0 .. n -> V] : h[n] = iter[1 .. n] /\ Unrolled(h, n, base, step)
<1> DEFINE h == [k \in 0 .. n |-> iter[1 .. k]]
           T == {m \in Nat : m <= n => iter[1 .. m] \in V}
<1>0. iter[{}] = base
      /\ \A s \in SUBSET (1 .. n) :
           s # {} /\ iter[s \ {Max(s)}] \in V => iter[s] = step[<<Max(s), iter[s \ {Max(s)}]>>]
  BY DEF FoldsIn
<1>1. 1 .. 0 = {}
  OBVIOUS
<1>2. ASSUME NEW k \in 1 .. n, iter[1 .. (k - 1)] \in V
      PROVE  iter[1 .. k] = step[<<k, iter[1 .. (k - 1)]>>] /\ iter[1 .. k] \in V
  <2> DEFINE s == 1 .. k
             x == Max(s)
  <2>1. s \in SUBSET (1 .. n) /\ s # {} /\ k \in s /\ s \in SUBSET (1 .. k) /\ k \in Nat
    OBVIOUS
  <2>2. x \in 1 .. k /\ k <= x
    <3> HIDE DEF s
    <3>1. x \in s /\ \A y \in s : y <= x
      BY <2>1, MaxOfSome
    <3> QED
      BY <2>1, <3>1
  <2> HIDE DEF x
  <2>3. x = k
    BY <2>1, <2>2
  <2>4. s \ {k} = 1 .. (k - 1)
    BY <2>1
  <2>5. iter[s] = step[<<k, iter[1 .. (k - 1)]>>]
    <3>1. iter[s \ {x}] \in V
      BY <1>2, <2>3, <2>4
    <3> HIDE DEF s
    <3>2. iter[s] = step[<<x, iter[s \ {x}]>>]
      BY <1>0, <2>1, <3>1 DEF x
    <3> QED
      BY <2>3, <2>4, <3>2
  <2>6. step[<<k, iter[1 .. (k - 1)]>>] \in V
    BY <1>2
  <2> QED
    BY <2>5, <2>6
<1>3. n \in T /\ \A m \in 0 .. n : m \in T
  <2>1. 0 \in T
    BY <1>0, <1>1
  <2>2. ASSUME NEW m \in Nat, m \in T PROVE m + 1 \in T
    <3> SUFFICES ASSUME m + 1 <= n PROVE iter[1 .. (m + 1)] \in V
      OBVIOUS
    <3>1. m <= n /\ m + 1 \in 1 .. n /\ (m + 1) - 1 = m
      OBVIOUS
    <3>2. iter[1 .. ((m + 1) - 1)] \in V
      BY <2>2, <3>1
    <3> QED
      BY <1>2, <3>1, <3>2
  <2>3. \A m \in Nat : m \in T
    <3> HIDE DEF T
    <3> QED
      BY <2>1, <2>2, Induction
  <2> HIDE DEF T
  <2> QED
    BY <2>3
<1>4. \A m \in 0 .. n : iter[1 .. m] \in V
  BY <1>3
<1>5. h \in [0 .. n -> V]
  BY <1>4
<1>6. h[n] = iter[1 .. n] /\ h[0] = base
  BY <1>0, <1>1
<1>7. ASSUME NEW k \in 1 .. n PROVE h[k] = step[<<k, h[k - 1]>>]
  <2>1. k \in 0 .. n /\ k - 1 \in 0 .. n
    OBVIOUS
  <2>2. h[k] = iter[1 .. k] /\ h[k - 1] = iter[1 .. (k - 1)]
    BY <2>1
  <2>3. iter[1 .. (k - 1)] \in V
    BY <1>4, <2>1
  <2> HIDE DEF h
  <2> QED
    BY <1>2, <2>2, <2>3
<1> HIDE DEF h
<1> QED
  BY <1>5, <1>6, <1>7 DEF Unrolled

-----------------------------------------------------------------------------
(* What Ordered makes of a finite set and a strict order R of it: the        *)
(* element that r - 1 others come before is at place r.                      *)
Place(S, R, x) == Cardinality({y \in S : <<y, x>> \in R})

IsOrder(S, R) ==
  /\ \A x \in S : <<x, x>> \notin R
  /\ \A x, y, z \in S : <<x, y>> \in R /\ <<y, z>> \in R => <<x, z>> \in R
  /\ \A x, y \in S : x = y \/ <<x, y>> \in R \/ <<y, x>> \in R

(* The ranks are the numbers from 0 up, and grow with the order.             *)
LEMMA RanksGrow ==
  ASSUME NEW S, IsFiniteSet(S), NEW R, IsOrder(S, R)
  PROVE  /\ \A x \in S : Place(S, R, x) \in 0 .. Cardinality(S) - 1
         /\ \A x, y \in S : <<x, y>> \in R => Place(S, R, x) < Place(S, R, y)
<1> DEFINE Below(x) == {y \in S : <<y, x>> \in R}
<1>1. \A x \in S : IsFiniteSet(Below(x)) /\ Cardinality(Below(x)) \in Nat
  BY FS_Subset, FS_CardinalityType
<1>2. Cardinality(S) \in Nat
  BY FS_CardinalityType
<1>3. ASSUME NEW x \in S PROVE Cardinality(Below(x)) < Cardinality(S)
  <2>1. Below(x) \in SUBSET S /\ Below(x) # S
    BY DEF IsOrder
  <2> HIDE DEF Below
  <2> QED
    BY <1>1, <1>2, <2>1, FS_Subset
<1>4. ASSUME NEW x \in S, NEW y \in S, <<x, y>> \in R
      PROVE  Cardinality(Below(x)) < Cardinality(Below(y))
  <2>1. Below(x) \in SUBSET Below(y) /\ x \in Below(y) /\ x \notin Below(x)
    BY <1>4 DEF IsOrder
  <2> HIDE DEF Below
  <2> QED
    BY <1>1, <2>1, FS_Subset
<1>5. \A x \in S : Place(S, R, x) = Cardinality(Below(x))
  BY DEF Place
<1> HIDE DEF Below
<1> QED
  BY <1>1, <1>2, <1>3, <1>4, <1>5

(* There is an element of each rank.                                         *)
LEMMA RanksAreTaken ==
  ASSUME NEW S, IsFiniteSet(S), NEW R, IsOrder(S, R)
  PROVE  /\ \A i \in 1 .. Cardinality(S) : \E x \in S : Place(S, R, x) = i - 1
         /\ \A x, y \in S : Place(S, R, x) = Place(S, R, y) => x = y
<1> DEFINE n == Cardinality(S)
           rank == [x \in S |-> Place(S, R, x)]
<1>1. n \in Nat
  BY FS_CardinalityType
<1>2. \A x \in S : rank[x] = Place(S, R, x)
  OBVIOUS
<1>3. rank \in [S -> 0 .. n - 1]
  BY RanksGrow
<1> HIDE DEF rank
<1>4. ASSUME NEW x \in S, NEW y \in S, rank[x] = rank[y] PROVE x = y
  <2>1. rank[x] \in Int /\ rank[y] \in Int
    BY <1>1, <1>3
  <2>2. <<x, y>> \notin R /\ <<y, x>> \notin R
    BY <1>2, <1>4, <2>1, RanksGrow
  <2> QED
    BY <2>2 DEF IsOrder
<1>5. rank \in Injection(S, 0 .. n - 1)
  BY <1>3, <1>4 DEF Injection, IsInjective
<1>6. IsFiniteSet(0 .. n - 1) /\ Cardinality(0 .. n - 1) = n
  BY SMTT(30), <1>1, FS_Interval
<1>7. rank \in Surjection(S, 0 .. n - 1)
  BY <1>5, <1>6, FS_Injection
<1>8. \A r \in 0 .. n - 1 : \E x \in S : rank[x] = r
  BY <1>7 DEF Surjection
<1>9. \A i \in 1 .. n : i - 1 \in 0 .. n - 1
  BY <1>1
<1> QED
  BY <1>2, <1>4, <1>8, <1>9

(* A sequence that has at each place the element of that rank has each       *)
(* element, and has them in order.                                           *)
LEMMA RankedIsSorted ==
  ASSUME NEW S, IsFiniteSet(S), NEW R, IsOrder(S, R), NEW q,
         q = [i \in 1 .. Cardinality(S) |-> q[i]],
         \A i \in 1 .. Cardinality(S) : q[i] \in S /\ Place(S, R, q[i]) = i - 1
  PROVE  /\ q \in Seq(S) /\ Len(q) = Cardinality(S) /\ Range(q) = S
         /\ \A i, j \in DOMAIN q : i < j => <<q[i], q[j]>> \in R
<1> DEFINE n == Cardinality(S)
<1>1. n \in Nat
  BY FS_CardinalityType
<1>2. q \in [1 .. n -> S]
  OBVIOUS
<1>3. q \in Seq(S) /\ Len(q) = n /\ DOMAIN q = 1 .. n
  BY <1>1, <1>2
<1>4. ASSUME NEW x \in S PROVE \E i \in 1 .. n : q[i] = x
  <2> DEFINE r == Place(S, R, x)
  <2>1. r \in 0 .. n - 1
    BY RanksGrow
  <2>2. r + 1 \in 1 .. n /\ (r + 1) - 1 = r
    BY <1>1, <2>1
  <2> HIDE DEF r
  <2>3. q[r + 1] \in S /\ Place(S, R, q[r + 1]) = r
    BY <2>2
  <2> QED
    BY <2>2, <2>3, RanksAreTaken DEF r
<1>5. ASSUME NEW i \in 1 .. n, NEW j \in 1 .. n, i < j PROVE <<q[i], q[j]>> \in R
  <2>1. i \in Int /\ j \in Int /\ ~(j - 1 < i - 1) /\ i - 1 # j - 1
    BY <1>1, <1>5
  <2>2. Place(S, R, q[i]) = i - 1 /\ Place(S, R, q[j]) = j - 1 /\ q[i] \in S /\ q[j] \in S
    OBVIOUS
  <2>3. q[i] # q[j]
    BY <2>1, <2>2
  <2>4. <<q[j], q[i]>> \notin R
    BY <2>1, <2>2, RanksGrow
  <2> QED
    BY <2>2, <2>3, <2>4 DEF IsOrder
<1> QED
  BY <1>2, <1>3, <1>4, <1>5 DEF Range
-----------------------------------------------------------------------------
(* Dictionaries, and what Put makes of one.                                  *)
Dict(K, V) == UNION {[D -> V] : D \in SUBSET K}

LEMMA DictIs ==
  ASSUME NEW K, NEW V, NEW d
  PROVE  d \in Dict(K, V) <=>
           /\ DOMAIN d \subseteq K /\ d = [k \in DOMAIN d |-> d[k]]
           /\ \A k \in DOMAIN d : d[k] \in V
<1>1. ASSUME d \in Dict(K, V)
      PROVE  /\ DOMAIN d \subseteq K /\ d = [k \in DOMAIN d |-> d[k]]
             /\ \A k \in DOMAIN d : d[k] \in V
  <2>1. PICK D \in SUBSET K : d \in [D -> V]
    BY <1>1 DEF Dict
  <2> QED
    BY <2>1
<1>2. ASSUME DOMAIN d \subseteq K, d = [k \in DOMAIN d |-> d[k]], \A k \in DOMAIN d : d[k] \in V
      PROVE  d \in Dict(K, V)
  <2>1. d \in [DOMAIN d -> V]
    BY <1>2, Zenon
  <2> QED
    BY <1>2, <2>1 DEF Dict
<1> QED
  BY <1>1, <1>2

LEMMA PutIs ==
  ASSUME NEW K, NEW V, NEW d \in Dict(K, V), NEW keys \in SUBSET K, NEW v \in V
  PROVE  Put(d, keys, v) \in Dict(K, V)
<1> DEFINE p == Put(d, keys, v)
<1>1. DOMAIN d \subseteq K /\ \A k \in DOMAIN d : d[k] \in V
  BY DictIs
<1>2. /\ p = [k \in DOMAIN d \cup keys |-> p[k]] /\ DOMAIN p = DOMAIN d \cup keys
      /\ \A k \in keys : p[k] = v
      /\ \A k \in DOMAIN d \ keys : p[k] = d[k]
  BY DEF Put
<1> HIDE DEF p
<1>3. \A k \in DOMAIN p : p[k] \in V
  BY <1>1, <1>2
<1>4. p \in Dict(K, V)
  BY <1>1, <1>2, <1>3, DictIs
<1> QED
  BY <1>4 DEF p

(* What a replay knows.                                                      *)
Moment == [session : Session, sequence : Nat]

Listing == [company : Company, at : Moment]

Surface == [status : {"ready", "stale"}, at : Moment]

Row == Unit \X Product

Knowledge ==
  [companies : Dict(Company, Moment), units : Dict(Unit, Listing), rows : Dict(Row, Moment),
   surfaces : Dict(Unit, Surface), stale : BOOLEAN]

(* Positions among which nothing comes after p.                              *)
Positioned == {p \in Session \X (Nat \ {0}) : p[2] <= Len(Events[p[1]])}

LEMMA EventIs ==
  ASSUME NEW p \in Positioned
  PROVE  /\ EventAt(p) \in Event /\ EventAt(p) = Events[p[1]][p[2]]
         /\ p[1] \in Session /\ p[2] \in Nat \ {0} /\ p = <<p[1], p[2]>>
         /\ p[2] \in 1 .. Len(Events[p[1]]) /\ Len(Events[p[1]]) \in Nat
         /\ At(p[1], p[2]) \in Moment
<1>1. Events[p[1]] \in Seq(Event) /\ p[1] \in Session /\ p[2] \in Nat \ {0}
  BY ReplayAssumption DEF Positioned
<1>2. p[2] \in 1 .. Len(Events[p[1]]) /\ Len(Events[p[1]]) \in Nat
  BY <1>1 DEF Positioned
<1>3. Events[p[1]][p[2]] \in Event
  BY <1>1, <1>2
<1>4. p[2] - 1 \in Nat
  BY <1>1
<1> QED
  BY <1>1, <1>2, <1>3, <1>4 DEF EventAt, At, Moment, Positioned

LEMMA EventKinds ==
  ASSUME NEW e \in Event
  PROVE  /\ e.kind \in {"roster", "goods", "other"}
         /\ e.kind = "roster" => e.company \in Company /\ e.units \in SUBSET Unit /\ e.readable \in BOOLEAN
         /\ e.kind = "goods" => e.unit \in Unit /\ e.products \in SUBSET Product /\ e.readable \in BOOLEAN
<1>1. e \in RosterEvent \/ e \in GoodsEvent \/ e \in [kind : {"other"}]
  BY DEF Event
<1> QED
  BY <1>1 DEF RosterEvent, GoodsEvent

LEMMA ApplyIsKnowledge ==
  ASSUME NEW known \in Knowledge, NEW p \in Positioned
  PROVE  Apply(known, p[1], p[2]) \in Knowledge
<1> DEFINE e == EventAt(p)
           at == At(p[1], p[2])
<1>1. /\ known.companies \in Dict(Company, Moment)
      /\ known.units \in Dict(Unit, Listing)
      /\ known.rows \in Dict(Row, Moment)
      /\ known.surfaces \in Dict(Unit, Surface)
      /\ known.stale \in BOOLEAN
  BY DEF Knowledge
<1>2. e \in Event /\ at \in Moment /\ e = Events[p[1]][p[2]]
  BY EventIs
<1> HIDE DEF e, at
<1>3. CASE e.kind = "roster"
  <2>1. Put(known.companies, {e.company}, at) \in Dict(Company, Moment)
    <3> DEFINE keys == {e.company}
    <3>1. keys \in SUBSET Company
      BY <1>2, <1>3, EventKinds
    <3> HIDE DEF keys
    <3> DEFINE d == known.companies
    <3>2. d \in Dict(Company, Moment) /\ at \in Moment
      BY <1>1, <1>2
    <3> HIDE DEF d
    <3>3. Put(d, keys, at) \in Dict(Company, Moment)
      BY <3>1, <3>2, PutIs
    <3> QED
      BY <3>3 DEF d, keys
  <2>2. Put(known.units, e.units, [company |-> e.company, at |-> at])
          \in Dict(Unit, Listing)
    <3> DEFINE v == [company |-> e.company, at |-> at]
    <3>1. v \in Listing /\ e.units \in SUBSET Unit
      BY <1>2, <1>3, EventKinds DEF Listing
    <3> HIDE DEF v
    <3>2. Put(known.units, e.units, v) \in Dict(Unit, Listing)
      BY <1>1, <3>1, PutIs
    <3> QED
      BY <3>2 DEF v
  <2>3. Apply(known, p[1], p[2]) = ApplyRoster(known, e, at)
    BY <1>2, <1>3 DEF Apply, at
  <2> QED
    BY <1>1, <2>1, <2>2, <2>3, <1>2, <1>3, EventKinds DEF ApplyRoster, Knowledge
<1>4. CASE e.kind = "goods"
  <2>1. Put(known.rows, {e.unit} \X e.products, at) \in Dict(Row, Moment)
    <3> DEFINE keys == {e.unit} \X e.products
    <3>1. keys \in SUBSET Row
      BY <1>2, <1>4, EventKinds DEF Row
    <3> HIDE DEF keys
    <3> DEFINE d == known.rows
    <3>2. d \in Dict(Row, Moment) /\ at \in Moment
      BY <1>1, <1>2
    <3> HIDE DEF d
    <3>3. Put(d, keys, at) \in Dict(Row, Moment)
      BY <3>1, <3>2, PutIs
    <3> QED
      BY <3>3 DEF d, keys
  <2> DEFINE v == [status |-> IF e.readable THEN "ready" ELSE "stale", at |-> at]
  <2>2. Put(known.surfaces, {e.unit}, v) \in Dict(Unit, Surface)
    <3> DEFINE keys == {e.unit}
    <3>1. v \in Surface /\ keys \in SUBSET Unit
      BY <1>2, <1>4, EventKinds DEF Surface
    <3> HIDE DEF v, keys
    <3>2. Put(known.surfaces, keys, v) \in Dict(Unit, Surface)
      BY <1>1, <3>1, PutIs
    <3> QED
      BY <3>2 DEF v, keys
  <2>3. Apply(known, p[1], p[2]) = ApplyGoods(known, e, at)
    BY <1>2, <1>4 DEF Apply, at
  <2> QED
    BY <1>1, <2>1, <2>2, <2>3, <1>2, <1>4, EventKinds DEF ApplyGoods, Knowledge
<1>5. CASE e.kind = "other"
  BY <1>2, <1>5 DEF Apply
<1> QED
  BY <1>2, <1>3, <1>4, <1>5, EventKinds

(* Of the events at some positions, those that say something of a thing.     *)
Rosters(P, u) ==
  {p \in P : /\ EventAt(p).kind = "roster" /\ EventAt(p).readable
             /\ u \in EventAt(p).units}

GoodsPages(P, u) == {p \in P : EventAt(p).kind = "goods" /\ EventAt(p).unit = u}

RowPages(P, u, product) ==
  {p \in GoodsPages(P, u) : EventAt(p).readable /\ product \in EventAt(p).products}

(* What is known is what the events at the positions P say last.             *)
KnowsUnit(known, P, u) ==
  /\ u \in DOMAIN known.units <=> Rosters(P, u) # {}
  /\ u \in DOMAIN known.units =>
       /\ IsLast(known.units[u].at, Rosters(P, u))
       /\ known.units[u].company \in DOMAIN known.companies

KnowsSurface(known, P, u) ==
  /\ u \in DOMAIN known.surfaces <=> GoodsPages(P, u) # {}
  /\ u \in DOMAIN known.surfaces => IsLast(known.surfaces[u].at, GoodsPages(P, u))

KnowsRow(known, P, u, product) ==
  /\ <<u, product>> \in DOMAIN known.rows <=> RowPages(P, u, product) # {}
  /\ <<u, product>> \in DOMAIN known.rows =>
       IsLast(known.rows[<<u, product>>], RowPages(P, u, product))

KnowsCompanies(known, P) ==
  \A c \in DOMAIN known.companies : \E p \in P : known.companies[c] = At(p[1], p[2])

KnowsStale(known, P) ==
  known.stale <=> \E p \in P : EventAt(p).kind = "roster" /\ ~EventAt(p).readable

Knows(known, P) ==
  /\ KnowsCompanies(known, P)
  /\ \A u \in Unit : KnowsUnit(known, P, u) /\ KnowsSurface(known, P, u)
  /\ \A u \in Unit, product \in Product : KnowsRow(known, P, u, product)
  /\ KnowsStale(known, P)

LEMMA NewestIsLast ==
  ASSUME NEW X, NEW p, \A q \in X : Later(p, q)
  PROVE  IsLast(At(p[1], p[2]), X \cup {p})
BY DEF IsLast

LEMMA PagesAreOf ==
  ASSUME NEW P, NEW u, NEW product
  PROVE  /\ Rosters(P, u) \subseteq P /\ GoodsPages(P, u) \subseteq P
         /\ RowPages(P, u, product) \subseteq P
BY DEF Rosters, GoodsPages, RowPages

LEMMA RosterKnows ==
  ASSUME NEW known \in Knowledge, NEW P, NEW p \in Positioned, Knows(known, P),
         \A q \in P : Later(p, q), EventAt(p).kind = "roster"
  PROVE  Knows(Apply(known, p[1], p[2]), P \cup {p})
<1> DEFINE e == EventAt(p)
           at == At(p[1], p[2])
           next == Apply(known, p[1], p[2])
           Q == P \cup {p}
<1>1. /\ known.companies \in Dict(Company, Moment) /\ known.units \in Dict(Unit, Listing)
      /\ known.stale \in BOOLEAN
      /\ known = [known EXCEPT !.stale = known.stale]
  BY DEF Knowledge
<1>2. e \in Event /\ at \in Moment /\ e = Events[p[1]][p[2]] /\ e.kind = "roster"
  BY EventIs
<1>3. e.company \in Company /\ e.units \in SUBSET Unit /\ e.readable \in BOOLEAN
  BY <1>2, EventKinds
<1>4. next = ApplyRoster(known, e, at)
  BY <1>2 DEF Apply
<1>5. /\ \A u, product : GoodsPages(Q, u) = GoodsPages(P, u)
                           /\ RowPages(Q, u, product) = RowPages(P, u, product)
      /\ \A u : u \notin e.units \/ ~e.readable => Rosters(Q, u) = Rosters(P, u)
      /\ \A u : u \in e.units /\ e.readable => Rosters(Q, u) = Rosters(P, u) \cup {p}
  <2>2. \A u, product : GoodsPages(Q, u) = GoodsPages(P, u) /\ RowPages(Q, u, product) = RowPages(P, u, product)
    BY <1>2 DEF Rosters, GoodsPages, RowPages
  <2>3. \A u : Rosters(Q, u) = Rosters(P, u) \cup (IF u \in e.units /\ e.readable THEN {p} ELSE {})
    BY <1>2 DEF Rosters, GoodsPages, RowPages
  <2> QED
    BY <2>2, <2>3
<1> HIDE DEF e, at, next, Q
<1>6. CASE ~e.readable
  <2>1. next.stale = TRUE /\ next.companies = known.companies /\ next.units = known.units
        /\ next.rows = known.rows /\ next.surfaces = known.surfaces
    BY <1>4, <1>6 DEF ApplyRoster, Knowledge
  <2>2. KnowsCompanies(next, Q)
    BY <2>1 DEF Knows, KnowsCompanies, Q
  <2>3. ASSUME NEW u \in Unit PROVE KnowsUnit(next, Q, u) /\ KnowsSurface(next, Q, u)
    BY <1>5, <1>6, <2>1 DEF Knows, KnowsUnit, KnowsSurface
  <2>4. ASSUME NEW u \in Unit, NEW product \in Product PROVE KnowsRow(next, Q, u, product)
    BY <1>5, <2>1 DEF Knows, KnowsRow
  <2>5. KnowsStale(next, Q)
    BY <1>2, <1>6, <2>1 DEF KnowsStale, Q, e
  <2> QED
    BY <2>2, <2>3, <2>4, <2>5 DEF Knows, next, Q
<1>7. CASE e.readable
  <2> DEFINE keys == {e.company}
             v == [company |-> e.company, at |-> at]
             companies == known.companies
             units == known.units
  <2>1. next.stale = known.stale /\ next.companies = Put(companies, keys, at)
        /\ next.units = Put(units, e.units, v)
        /\ next.rows = known.rows /\ next.surfaces = known.surfaces
    BY <1>4, <1>7 DEF ApplyRoster, Knowledge
  <2>2. keys \in SUBSET Company /\ v \in Listing
        /\ companies \in Dict(Company, Moment) /\ units \in Dict(Unit, Listing)
    BY <1>1, <1>2, <1>3 DEF Listing
  <2>3. v.at = at /\ v.company = e.company /\ e.company \in keys
    OBVIOUS
  <2> HIDE DEF keys, v, companies, units
  <2>4. /\ DOMAIN next.companies = DOMAIN companies \cup keys
        /\ \A c \in keys : next.companies[c] = at
        /\ \A c \in DOMAIN companies \ keys : next.companies[c] = companies[c]
    <3>1. at \in Moment /\ keys \in SUBSET Company /\ companies \in Dict(Company, Moment)
      BY <1>2, <2>2
    <3>2. /\ DOMAIN Put(companies, keys, at) = DOMAIN companies \cup keys
          /\ \A c \in keys : Put(companies, keys, at)[c] = at
          /\ \A c \in DOMAIN companies \ keys : Put(companies, keys, at)[c] = companies[c]
      BY DEF Put
    <3> QED
      BY <2>1, <3>2
  <2>5. /\ DOMAIN next.units = DOMAIN units \cup e.units
        /\ \A u \in e.units : next.units[u] = v
        /\ \A u \in DOMAIN units \ e.units : next.units[u] = units[u]
    <3>1. v \in Listing /\ e.units \in SUBSET Unit /\ units \in Dict(Unit, Listing)
      BY <1>3, <2>2
    <3>2. /\ DOMAIN Put(units, e.units, v) = DOMAIN units \cup e.units
          /\ \A u \in e.units : Put(units, e.units, v)[u] = v
          /\ \A u \in DOMAIN units \ e.units : Put(units, e.units, v)[u] = units[u]
      BY DEF Put
    <3> QED
      BY <2>1, <3>2
  <2>6. KnowsCompanies(next, Q)
    BY <2>4 DEF Knows, KnowsCompanies, Q, at, companies
  <2>7. ASSUME NEW u \in Unit PROVE KnowsUnit(next, Q, u)
    <3>1. CASE u \in e.units
      <4>1. Rosters(Q, u) = Rosters(P, u) \cup {p} /\ Rosters(P, u) \subseteq P
        BY <1>5, <1>7, <3>1, PagesAreOf
      <4>2. IsLast(at, Rosters(Q, u))
        BY <4>1, NewestIsLast DEF at
      <4>3. Rosters(Q, u) # {}
        BY <4>1
      <4> QED
        BY <2>3, <2>4, <2>5, <3>1, <4>2, <4>3 DEF KnowsUnit
    <3>2. CASE u \notin e.units
      BY <1>5, <2>4, <2>5, <3>2 DEF Knows, KnowsUnit, units, companies
    <3> QED
      BY <3>1, <3>2
  <2>8. ASSUME NEW u \in Unit PROVE KnowsSurface(next, Q, u)
    BY <1>5, <2>1 DEF Knows, KnowsSurface
  <2>9. ASSUME NEW u \in Unit, NEW product \in Product PROVE KnowsRow(next, Q, u, product)
    BY <1>5, <2>1 DEF Knows, KnowsRow
  <2>10. KnowsStale(next, Q)
    BY <1>2, <1>7, <2>1 DEF Knows, KnowsStale, Q, e
  <2> QED
    BY <2>6, <2>7, <2>8, <2>9, <2>10 DEF Knows, next, Q
<1> QED
  BY <1>3, <1>6, <1>7

LEMMA GoodsKnows ==
  ASSUME NEW known \in Knowledge, NEW P, NEW p \in Positioned, Knows(known, P),
         \A q \in P : Later(p, q), EventAt(p).kind = "goods"
  PROVE  Knows(Apply(known, p[1], p[2]), P \cup {p})
<1> DEFINE e == EventAt(p)
           at == At(p[1], p[2])
           next == Apply(known, p[1], p[2])
           Q == P \cup {p}
           keys == {e.unit}
           pairs == {e.unit} \X e.products
           v == [status |-> IF e.readable THEN "ready" ELSE "stale", at |-> at]
           rows == known.rows
           surfaces == known.surfaces
<1>1. rows \in Dict(Row, Moment) /\ surfaces \in Dict(Unit, Surface)
  BY DEF Knowledge
<1>2. e \in Event /\ at \in Moment /\ e = Events[p[1]][p[2]] /\ e.kind = "goods"
  BY EventIs
<1>3. e.unit \in Unit /\ e.products \in SUBSET Product /\ e.readable \in BOOLEAN
  BY <1>2, EventKinds
<1>4. next = ApplyGoods(known, e, at)
  BY <1>2 DEF Apply
<1>5. /\ \A u : Rosters(Q, u) = Rosters(P, u)
      /\ \A u : GoodsPages(Q, u) = IF u = e.unit THEN GoodsPages(P, u) \cup {p} ELSE GoodsPages(P, u)
      /\ \A u, product : RowPages(Q, u, product) =
           IF u = e.unit /\ e.readable /\ product \in e.products
           THEN RowPages(P, u, product) \cup {p} ELSE RowPages(P, u, product)
  <2>2. \A u : Rosters(Q, u) = Rosters(P, u)
    BY <1>2 DEF Rosters, GoodsPages, RowPages
  <2>3. \A u : GoodsPages(Q, u) = IF u = e.unit THEN GoodsPages(P, u) \cup {p} ELSE GoodsPages(P, u)
    BY <1>2 DEF Rosters, GoodsPages, RowPages
  <2>4. \A u, product : RowPages(Q, u, product) =
           IF u = e.unit /\ e.readable /\ product \in e.products
           THEN RowPages(P, u, product) \cup {p} ELSE RowPages(P, u, product)
    BY <1>2 DEF Rosters, GoodsPages, RowPages
  <2> QED
    BY <2>2, <2>3, <2>4
<1>6. keys \in SUBSET Unit /\ pairs \in SUBSET Row /\ v \in Surface /\ v.at = at
  BY <1>2, <1>3 DEF Row, Surface
<1>7. /\ \A u : u \in keys <=> u = e.unit
      /\ \A u, product : <<u, product>> \in pairs <=> u = e.unit /\ product \in e.products
  OBVIOUS
<1>8. next.stale = known.stale /\ next.companies = known.companies /\ next.units = known.units
      /\ next.rows = (IF e.readable THEN Put(rows, pairs, at) ELSE rows)
      /\ next.surfaces = Put(surfaces, keys, v)
  BY <1>4 DEF ApplyGoods, Knowledge
<1> HIDE DEF e, at, next, Q, keys, pairs, v, rows, surfaces
<1>9. /\ DOMAIN next.surfaces = DOMAIN surfaces \cup keys
      /\ \A u \in keys : next.surfaces[u] = v
      /\ \A u \in DOMAIN surfaces \ keys : next.surfaces[u] = surfaces[u]
  <2>1. v \in Surface /\ keys \in SUBSET Unit /\ surfaces \in Dict(Unit, Surface)
    BY <1>1, <1>6
  <2>2. /\ DOMAIN Put(surfaces, keys, v) = DOMAIN surfaces \cup keys
        /\ \A u \in keys : Put(surfaces, keys, v)[u] = v
        /\ \A u \in DOMAIN surfaces \ keys : Put(surfaces, keys, v)[u] = surfaces[u]
    BY DEF Put
  <2> QED
    BY <1>8, <2>2
<1>10. e.readable =>
         /\ DOMAIN next.rows = DOMAIN rows \cup pairs
         /\ \A k \in pairs : next.rows[k] = at
         /\ \A k \in DOMAIN rows \ pairs : next.rows[k] = rows[k]
  <2>1. at \in Moment /\ pairs \in SUBSET Row /\ rows \in Dict(Row, Moment)
    BY <1>1, <1>2, <1>6
  <2>2. /\ DOMAIN Put(rows, pairs, at) = DOMAIN rows \cup pairs
        /\ \A k \in pairs : Put(rows, pairs, at)[k] = at
        /\ \A k \in DOMAIN rows \ pairs : Put(rows, pairs, at)[k] = rows[k]
    BY DEF Put
  <2> QED
    BY <1>8, <2>2
<1>11. KnowsCompanies(next, Q) /\ KnowsStale(next, Q)
  BY <1>2, <1>8 DEF Knows, KnowsCompanies, KnowsStale, Q, e
<1>12. ASSUME NEW u \in Unit PROVE KnowsUnit(next, Q, u)
  BY <1>5, <1>8 DEF Knows, KnowsUnit
<1>13. ASSUME NEW u \in Unit PROVE KnowsSurface(next, Q, u)
  <2>1. CASE u = e.unit
    <3>1. GoodsPages(Q, u) = GoodsPages(P, u) \cup {p} /\ GoodsPages(P, u) \subseteq P
      BY <1>5, <2>1, PagesAreOf
    <3>2. IsLast(at, GoodsPages(Q, u))
      BY <3>1, NewestIsLast DEF at
    <3> QED
      BY <1>6, <1>7, <1>9, <2>1, <3>1, <3>2 DEF KnowsSurface
  <2>2. CASE u # e.unit
    BY <1>5, <1>7, <1>9, <2>2 DEF Knows, KnowsSurface, surfaces
  <2> QED
    BY <2>1, <2>2
<1>14. ASSUME NEW u \in Unit, NEW product \in Product PROVE KnowsRow(next, Q, u, product)
  <2>1. CASE u = e.unit /\ e.readable /\ product \in e.products
    <3>1. RowPages(Q, u, product) = RowPages(P, u, product) \cup {p} /\ RowPages(P, u, product) \subseteq P
      BY <1>5, <2>1, PagesAreOf
    <3>2. IsLast(at, RowPages(Q, u, product))
      BY <3>1, NewestIsLast DEF at
    <3>3. <<u, product>> \in pairs
      BY <1>7, <2>1
    <3> QED
      BY <1>10, <2>1, <3>1, <3>2, <3>3 DEF KnowsRow
  <2>2. CASE ~(u = e.unit /\ e.readable /\ product \in e.products)
    <3>1. RowPages(Q, u, product) = RowPages(P, u, product)
      BY <1>5, <2>2
    <3>2. /\ <<u, product>> \in DOMAIN next.rows <=> <<u, product>> \in DOMAIN rows
          /\ <<u, product>> \in DOMAIN rows => next.rows[<<u, product>>] = rows[<<u, product>>]
      BY <1>7, <1>8, <1>10, <2>2
    <3> QED
      BY <3>1, <3>2 DEF Knows, KnowsRow, rows
  <2> QED
    BY <2>1, <2>2
<1> QED
  BY <1>11, <1>12, <1>13, <1>14 DEF Knows, next, Q

LEMMA ApplyKnows ==
  ASSUME NEW known \in Knowledge, NEW P, NEW p \in Positioned, Knows(known, P),
         \A q \in P : Later(p, q)
  PROVE  Knows(Apply(known, p[1], p[2]), P \cup {p})
<1>1. CASE EventAt(p).kind = "other"
  <2>1. Apply(known, p[1], p[2]) = known
    BY <1>1, EventIs DEF Apply
  <2>2. \A u, product : /\ Rosters(P \cup {p}, u) = Rosters(P, u)
                        /\ GoodsPages(P \cup {p}, u) = GoodsPages(P, u)
                        /\ RowPages(P \cup {p}, u, product) = RowPages(P, u, product)
    BY <1>1 DEF Rosters, GoodsPages, RowPages
  <2>3. KnowsCompanies(known, P \cup {p}) /\ KnowsStale(known, P \cup {p})
    BY <1>1 DEF Knows, KnowsCompanies, KnowsStale
  <2> QED
    BY <2>1, <2>2, <2>3 DEF Knows, KnowsUnit, KnowsSurface, KnowsRow
<1> QED
  BY <1>1, EventIs, EventKinds, RosterKnows, GoodsKnows

(* A session is replayed event by event.                                     *)
LEMMA SessionSteps ==
  ASSUME NEW s \in Session, NEW known \in Knowledge
  PROVE  \E h \in [0 .. Len(Events[s]) -> Knowledge] :
           /\ h[0] = known /\ ReplaySession(known, s) = h[Len(Events[s])]
           /\ \A k \in 1 .. Len(Events[s]) : h[k] = Apply(h[k - 1], s, k)
<1> DEFINE n == Len(Events[s])
           places == [i \in DOMAIN Events[s] |-> i]
           Folds(g) == g = [t \in SUBSET (1 .. n) |->
             IF t = {} THEN known ELSE Apply(g[t \ {Max(t)}], s, places[Max(t)])]
           iter == CHOOSE g : Folds(g)
           step == [p \in (1 .. n) \X Knowledge |-> Apply(p[2], s, p[1])]
<1>1. /\ n \in Nat /\ DOMAIN Events[s] = 1 .. n /\ DOMAIN places = 1 .. n
      /\ \A k \in 1 .. n : places[k] = k
  BY ReplayAssumption
<1>2. ReplaySession(known, s) = iter[1 .. n]
  <2> HIDE DEF n
  <2> QED
    BY <1>1 DEF ReplaySession, FoldLeftDomain, FoldLeft, MapThenFoldSet
<1> HIDE DEF n, places
<1>3. step \in [(1 .. n) \X Knowledge -> Knowledge]
  <2>1. ASSUME NEW p \in (1 .. n) \X Knowledge PROVE Apply(p[2], s, p[1]) \in Knowledge
    <3>1. <<s, p[1]>> \in Positioned /\ p[2] \in Knowledge
      BY <1>1 DEF Positioned, n
    <3>2. Apply(p[2], <<s, p[1]>>[1], <<s, p[1]>>[2]) \in Knowledge
      BY <3>1, ApplyIsKnowledge
    <3> QED
      BY <3>2
  <2> QED
    BY <2>1
<1>4. \A t \in SUBSET (1 .. n), v \in Knowledge : t # {} =>
        Max(t) \in 1 .. n /\ step[<<Max(t), v>>] = Apply(v, s, places[Max(t)])
  <2>1. \A t \in SUBSET (1 .. n) : t # {} => Max(t) \in 1 .. n
    BY <1>1, MaxOfSome
  <2>2. \A x \in 1 .. n, v \in Knowledge : step[<<x, v>>] = Apply(v, s, x)
    OBVIOUS
  <2> HIDE DEF step
  <2> QED
    BY <1>1, <2>1, <2>2
<1> HIDE DEF step
<1>5. \E g : Folds(g)
  <2>1. PICK g \in [SUBSET (1 .. n) -> Knowledge] : FoldsWith(g, n, known, step)
    BY <1>1, <1>3, FoldExists
  <2>2. ASSUME NEW t \in SUBSET (1 .. n)
        PROVE  g[t] = IF t = {} THEN known ELSE Apply(g[t \ {Max(t)}], s, places[Max(t)])
    BY <1>4, <2>1 DEF FoldsWith
  <2>3. g = [t \in SUBSET (1 .. n) |-> g[t]]
    OBVIOUS
  <2> QED
    BY <2>2, <2>3, Zenon
<1>6. Folds(iter)
  <2> HIDE DEF Folds
  <2> QED
    BY <1>5
<1> HIDE DEF iter
<1>7. \A t \in SUBSET (1 .. n) :
        iter[t] = IF t = {} THEN known ELSE Apply(iter[t \ {Max(t)}], s, places[Max(t)])
  BY <1>6
<1> HIDE DEF Folds
<1>8. PICK h \in [0 .. n -> Knowledge] : h[n] = iter[1 .. n] /\ Unrolled(h, n, known, step)
  <2>1. iter[{}] = known
    BY <1>7
  <2>2. \A t \in SUBSET (1 .. n) :
          t # {} /\ iter[t \ {Max(t)}] \in Knowledge =>
            iter[t] = step[<<Max(t), iter[t \ {Max(t)}]>>]
    BY <1>4, <1>7
  <2>3. FoldsIn(iter, n, Knowledge, known, step)
    BY <2>1, <2>2 DEF FoldsIn
  <2> QED
    BY <1>1, <1>3, <2>3, FoldUnrolls
<1>9. \A k \in 1 .. n : h[k] = Apply(h[k - 1], s, k)
  <2> TAKE k \in 1 .. n
  <2>1. h[k] = step[<<k, h[k - 1]>>] /\ h[k - 1] \in Knowledge
    BY <1>1, <1>8 DEF Unrolled
  <2> QED
    BY <2>1 DEF step
<1>10. h[0] = known /\ ReplaySession(known, s) = h[n]
  BY <1>2, <1>8 DEF Unrolled
<1> QED
  BY <1>8, <1>9, <1>10 DEF n

Pages(s, n) == {<<s, i>> : i \in 1 .. n}

LEMMA SessionKnows ==
  ASSUME NEW s \in Session, NEW known \in Knowledge, NEW P, Knows(known, P),
         \A q \in P : q[1] \in Session /\ Rank[q[1]] < Rank[s]
  PROVE  /\ ReplaySession(known, s) \in Knowledge
         /\ Knows(ReplaySession(known, s), P \cup Pages(s, Len(Events[s])))
<1> DEFINE n == Len(Events[s])
<1>1. PICK h \in [0 .. n -> Knowledge] :
           /\ h[0] = known /\ ReplaySession(known, s) = h[n]
           /\ \A k \in 1 .. n : h[k] = Apply(h[k - 1], s, k)
  BY SessionSteps
<1>2. n \in Nat
  BY ReplayAssumption
<1> DEFINE T == {k \in Nat : k <= n => Knows(h[k], P \cup Pages(s, k))}
<1>3. 0 \in T
  <2>1. P \cup Pages(s, 0) = P
    BY DEF Pages
  <2> QED
    BY <1>1, <2>1
<1>4. ASSUME NEW k \in Nat, k \in T PROVE k + 1 \in T
  <2> SUFFICES ASSUME k + 1 <= n PROVE Knows(h[k + 1], P \cup Pages(s, k + 1))
    OBVIOUS
  <2> DEFINE p == <<s, k + 1>>
             Q == P \cup Pages(s, k)
  <2>1. Knows(h[k], Q) /\ k \in 0 .. n /\ k + 1 \in 1 .. n /\ (k + 1) - 1 = k
    BY <1>2, <1>4
  <2>2. p \in Positioned /\ p[1] = s /\ p[2] = k + 1
    BY <1>2, <2>1 DEF Positioned
  <2>3. P \cup Pages(s, k + 1) = Q \cup {p}
    <3>1. 1 .. (k + 1) = 1 .. k \cup {k + 1}
      OBVIOUS
    <3> QED
      BY <3>1 DEF Pages
  <2>4. \A q \in Q : Later(p, q)
    <3>1. ASSUME NEW q \in P PROVE Later(p, q)
      <4>1. Rank[q[1]] \in Nat /\ Rank[s] \in Nat /\ Rank[q[1]] < Rank[s]
        BY ReplayAssumption
      <4> QED
        BY <2>2, <4>1 DEF Later
    <3>2. ASSUME NEW q \in Pages(s, k) PROVE Later(p, q)
      BY <2>2 DEF Later, Pages
    <3> QED
      BY <3>1, <3>2
  <2>5. h[k] \in Knowledge /\ h[k + 1] = Apply(h[k], s, k + 1)
    BY <1>1, <2>1
  <2> HIDE DEF p, Q
  <2>6. Knows(Apply(h[k], p[1], p[2]), Q \cup {p})
    BY <2>1, <2>2, <2>4, <2>5, ApplyKnows
  <2> QED
    BY <2>2, <2>3, <2>5, <2>6
<1>5. n \in T
  <2> HIDE DEF T
  <2> QED
    BY <1>2, <1>3, <1>4, Induction
<1>6. h[n] \in Knowledge /\ Knows(h[n], P \cup Pages(s, n))
  <2>1. n \in 0 .. n /\ n <= n
    BY <1>2
  <2>2. Knows(h[n], P \cup Pages(s, n))
    BY <1>5, <2>1
  <2> QED
    BY <1>1, <2>1, <2>2
<1> QED
  BY <1>1, <1>6

(* The ledger is in the order of the ranks.                                  *)
LEMMA LedgerInOrder ==
  ASSUME NEW S \in SUBSET Session
  PROVE  /\ Ordered(S) \in Seq(S) /\ Range(Ordered(S)) = S
         /\ \A i, j \in DOMAIN Ordered(S) : i < j => Rank[Ordered(S)[i]] < Rank[Ordered(S)[j]]
<1>0. PICK R : R = {p \in S \X S : Rank[p[1]] < Rank[p[2]]}
  OBVIOUS
<1>1. IsFiniteSet(S) /\ \A x \in S : Rank[x] \in Nat
  BY ReplayAssumption, FS_Subset
<1>2. IsOrder(S, R)
  <2>1. \A x, y \in S : Rank[x] = Rank[y] => x = y
    BY ReplayAssumption
  <2> QED
    BY <1>0, <1>1, <2>1 DEF IsOrder
<1>3. \A x \in S : Cardinality({y \in S : Rank[y] < Rank[x]}) = Place(S, R, x)
  <2>1. \A x \in S : {y \in S : Rank[y] < Rank[x]} = {y \in S : <<y, x>> \in R}
    BY <1>0
  <2> QED
    BY <2>1 DEF Place
<1>4. \A i \in 1 .. Cardinality(S) : Ordered(S)[i] \in S /\ Place(S, R, Ordered(S)[i]) = i - 1
  <2> TAKE i \in 1 .. Cardinality(S)
  <2>1. \E x \in S : Cardinality({y \in S : Rank[y] < Rank[x]}) = i - 1
    <3>1. PICK x \in S : Place(S, R, x) = i - 1
      BY ONLY <1>1, <1>2, i \in 1 .. Cardinality(S), RanksAreTaken
    <3> QED
      BY <1>3, <3>1
  <2>2. Ordered(S)[i] = CHOOSE x \in S : Cardinality({y \in S : Rank[y] < Rank[x]}) = i - 1
    BY DEF Ordered
  <2> QED
    BY <1>3, <2>1, <2>2
<1>5. Ordered(S) = [i \in 1 .. Cardinality(S) |-> Ordered(S)[i]]
  BY ONLY SMTT(30) DEF Ordered
<1>6. /\ Ordered(S) \in Seq(S) /\ Range(Ordered(S)) = S
      /\ \A i, j \in DOMAIN Ordered(S) : i < j => <<Ordered(S)[i], Ordered(S)[j]>> \in R
  BY <1>1, <1>2, <1>4, <1>5, RankedIsSorted
<1> QED
  BY <1>0, <1>6

LEMMA NothingIsKnown == NothingKnown \in Knowledge /\ Knows(NothingKnown, {})
<1>1. DOMAIN <<>> = {}
  OBVIOUS
<1>2. \A K, V : <<>> \in Dict(K, V)
  <2> TAKE K, V
  <2>1. <<>> = [k \in {} |-> <<>>[k]]
    OBVIOUS
  <2> QED
    BY <1>1, <2>1, DictIs
<1>3. NothingKnown \in Knowledge
  BY <1>2 DEF NothingKnown, Knowledge
<1> QED
  BY <1>1, <1>3 DEF NothingKnown, Knows, KnowsUnit, KnowsSurface, KnowsRow, KnowsCompanies, KnowsStale,
     Rosters, GoodsPages, RowPages


(* The sessions are replayed one after the other.                            *)
LEMMA ReplaySteps ==
  ASSUME NEW S \in SUBSET Session
  PROVE  \E h \in [0 .. Len(Ordered(S)) -> Knowledge] :
           /\ h[0] = NothingKnown /\ Replayed(S) = h[Len(Ordered(S))]
           /\ \A k \in 1 .. Len(Ordered(S)) : h[k] = ReplaySession(h[k - 1], Ordered(S)[k])
<1> DEFINE order == Ordered(S)
           n == Len(order)
           Folds(g) == g = [t \in SUBSET (1 .. n) |->
             IF t = {} THEN NothingKnown
                       ELSE ReplaySession(g[t \ {Max(t)}], order[Max(t)])]
           iter == CHOOSE g : Folds(g)
           step == [p \in (1 .. n) \X Knowledge |-> ReplaySession(p[2], order[p[1]])]
<1>1. n \in Nat /\ DOMAIN order = 1 .. n /\ \A k \in 1 .. n : order[k] \in Session
  <2>1. order \in Seq(S)
    BY LedgerInOrder
  <2> HIDE DEF order
  <2> QED
    BY <2>1
<1> HIDE DEF order
<1>2. Replayed(S) = iter[1 .. n]
  <2> HIDE DEF n
  <2> QED
    BY <1>1 DEF Replayed, FoldLeft, MapThenFoldSet, order
<1> HIDE DEF n
<1>3. step \in [(1 .. n) \X Knowledge -> Knowledge]
  <2>1. ASSUME NEW p \in (1 .. n) \X Knowledge PROVE ReplaySession(p[2], order[p[1]]) \in Knowledge
    <3> DEFINE s == order[p[1]]
               known == p[2]
    <3>1. s \in Session /\ known \in Knowledge
      BY <1>1
    <3> HIDE DEF s, known
    <3>2. PICK h \in [0 .. Len(Events[s]) -> Knowledge] :
            ReplaySession(known, s) = h[Len(Events[s])]
      BY <3>1, SessionSteps
    <3>3. Len(Events[s]) \in 0 .. Len(Events[s])
      BY <3>1, ReplayAssumption
    <3>4. ReplaySession(known, s) \in Knowledge
      BY <3>2, <3>3
    <3> QED
      BY <3>4 DEF s, known
  <2> QED
    BY <2>1
<1>4. \A t \in SUBSET (1 .. n), v \in Knowledge : t # {} =>
        Max(t) \in 1 .. n /\ step[<<Max(t), v>>] = ReplaySession(v, order[Max(t)])
  <2>1. \A t \in SUBSET (1 .. n) : t # {} => Max(t) \in 1 .. n
    BY <1>1, MaxOfSome
  <2>2. \A x \in 1 .. n, v \in Knowledge : step[<<x, v>>] = ReplaySession(v, order[x])
    OBVIOUS
  <2> HIDE DEF step
  <2> QED
    BY <2>1, <2>2
<1> HIDE DEF step
<1>5. \E g : Folds(g)
  <2>0. NothingKnown \in Knowledge
    BY NothingIsKnown
  <2>1. PICK g \in [SUBSET (1 .. n) -> Knowledge] : FoldsWith(g, n, NothingKnown, step)
    BY <1>1, <1>3, <2>0, FoldExists
  <2>2. ASSUME NEW t \in SUBSET (1 .. n)
        PROVE  g[t] = IF t = {} THEN NothingKnown
                                ELSE ReplaySession(g[t \ {Max(t)}], order[Max(t)])
    BY <1>4, <2>1 DEF FoldsWith
  <2>3. g = [t \in SUBSET (1 .. n) |-> g[t]]
    OBVIOUS
  <2> QED
    BY <2>2, <2>3, Zenon
<1>6. Folds(iter)
  <2> HIDE DEF Folds
  <2> QED
    BY <1>5
<1> HIDE DEF iter
<1>7. \A t \in SUBSET (1 .. n) :
        iter[t] = IF t = {} THEN NothingKnown
                            ELSE ReplaySession(iter[t \ {Max(t)}], order[Max(t)])
  BY <1>6
<1> HIDE DEF Folds
<1>8. PICK h \in [0 .. n -> Knowledge] : h[n] = iter[1 .. n] /\ Unrolled(h, n, NothingKnown, step)
  <2>1. iter[{}] = NothingKnown
    BY <1>7
  <2>2. \A t \in SUBSET (1 .. n) :
          t # {} /\ iter[t \ {Max(t)}] \in Knowledge =>
            iter[t] = step[<<Max(t), iter[t \ {Max(t)}]>>]
    BY <1>4, <1>7
  <2>3. FoldsIn(iter, n, Knowledge, NothingKnown, step)
    BY <2>1, <2>2 DEF FoldsIn
  <2>4. NothingKnown \in Knowledge
    BY NothingIsKnown
  <2> QED
    BY <1>1, <1>3, <2>3, <2>4, FoldUnrolls
<1>9. \A k \in 1 .. n : h[k] = ReplaySession(h[k - 1], order[k])
  <2> TAKE k \in 1 .. n
  <2>1. h[k] = step[<<k, h[k - 1]>>] /\ h[k - 1] \in Knowledge
    BY <1>1, <1>8 DEF Unrolled
  <2> QED
    BY <2>1 DEF step
<1>10. h[0] = NothingKnown /\ Replayed(S) = h[n]
  BY <1>2, <1>8 DEF Unrolled
<1> QED
  BY <1>8, <1>9, <1>10 DEF n, order

(* The positions of the first k sessions of the ledger.                      *)
Before(S, k) == UNION {Pages(Ordered(S)[j], Len(Events[Ordered(S)[j]])) : j \in 1 .. k}

LEMMA BeforeIs ==
  ASSUME NEW S \in SUBSET Session
  PROVE  /\ Before(S, 0) = {}
         /\ \A k \in Nat : Before(S, k + 1) =
              Before(S, k) \cup Pages(Ordered(S)[k + 1], Len(Events[Ordered(S)[k + 1]]))
         /\ \A k \in Nat : \A q \in Before(S, k) : \E j \in 1 .. k : q[1] = Ordered(S)[j]
         /\ Before(S, Len(Ordered(S))) = Positions(S)
<1> DEFINE Part(j) == Pages(Ordered(S)[j], Len(Events[Ordered(S)[j]]))
<1>1. \A k : Before(S, k) = UNION {Part(j) : j \in 1 .. k}
  BY DEF Before
<1>2. \A j : \A q \in Part(j) : q[1] = Ordered(S)[j]
  BY DEF Pages
<1>3. Before(S, Len(Ordered(S))) = Positions(S)
  <2> DEFINE order == Ordered(S)
             n == Len(order)
  <2>1. order \in Seq(S) /\ Range(order) = S
    BY LedgerInOrder
  <2>2. DOMAIN order = 1 .. n
    <3> HIDE DEF order
    <3> QED
      BY <2>1
  <2>3. \A s \in S : \E j \in 1 .. n : order[j] = s
    <3> HIDE DEF order
    <3> QED
      BY <2>1, <2>2 DEF Range
  <2>4. \A j \in 1 .. n : order[j] \in S
    <3> HIDE DEF order
    <3> QED
      BY <2>1
  <2>5. Positions(S) = UNION {Pages(s, Len(Events[s])) : s \in S}
    BY DEF Positions, Pages
  <2> HIDE DEF order, n
  <2>6. Before(S, n) = UNION {Pages(order[j], Len(Events[order[j]])) : j \in 1 .. n}
    BY DEF Before, order
  <2>7. UNION {Pages(order[j], Len(Events[order[j]])) : j \in 1 .. n}
          = UNION {Pages(s, Len(Events[s])) : s \in S}
    BY <2>3, <2>4
  <2> QED
    BY <2>5, <2>6, <2>7 DEF n, order
<1> HIDE DEF Part
<1>4. 1 .. 0 = {}
  OBVIOUS
<1>5. Before(S, 0) = {}
  BY <1>1, <1>4
<1>6. \A k \in Nat : Before(S, k + 1) = Before(S, k) \cup Part(k + 1)
  <2> TAKE k \in Nat
  <2>1. 1 .. (k + 1) = 1 .. k \cup {k + 1}
    OBVIOUS
  <2> QED
    BY <1>1, <2>1
<1>7. \A k \in Nat : \A q \in Before(S, k) : \E j \in 1 .. k : q[1] = Ordered(S)[j]
  BY <1>1, <1>2
<1> QED
  BY <1>3, <1>5, <1>6, <1>7 DEF Part

(* After the whole ledger a replay knows what its events say last.           *)
LEMMA LedgerKnows ==
  ASSUME NEW S \in SUBSET Session
  PROVE  Replayed(S) \in Knowledge /\ Knows(Replayed(S), Positions(S))
<1> DEFINE order == Ordered(S)
           n == Len(order)
<1>1. /\ n \in Nat /\ \A k \in 1 .. n : order[k] \in Session
      /\ \A i, j \in 1 .. n : i < j => Rank[order[i]] < Rank[order[j]]
  <2>1. order \in Seq(S) /\ \A i, j \in DOMAIN order : i < j => Rank[order[i]] < Rank[order[j]]
    BY LedgerInOrder
  <2> HIDE DEF order
  <2> QED
    BY <2>1
<1>2. PICK h \in [0 .. n -> Knowledge] :
           /\ h[0] = NothingKnown /\ Replayed(S) = h[n]
           /\ \A k \in 1 .. n : h[k] = ReplaySession(h[k - 1], order[k])
  BY ReplaySteps
<1>3. /\ Before(S, 0) = {} /\ Before(S, n) = Positions(S)
      /\ \A k \in Nat : Before(S, k + 1) = Before(S, k) \cup Pages(order[k + 1], Len(Events[order[k + 1]]))
      /\ \A k \in Nat : \A q \in Before(S, k) : \E j \in 1 .. k : q[1] = order[j]
  BY BeforeIs
<1> HIDE DEF order, n
<1> DEFINE T == {k \in Nat : k <= n => Knows(h[k], Before(S, k))}
<1>4. 0 \in T
  BY <1>2, <1>3, NothingIsKnown
<1>5. ASSUME NEW k \in Nat, k \in T PROVE k + 1 \in T
  <2> SUFFICES ASSUME k + 1 <= n PROVE Knows(h[k + 1], Before(S, k + 1))
    OBVIOUS
  <2> DEFINE s == order[k + 1]
             P == Before(S, k)
  <2>1. Knows(h[k], P) /\ k \in 0 .. n /\ k + 1 \in 1 .. n /\ (k + 1) - 1 = k
    BY <1>1, <1>5
  <2>2. s \in Session /\ h[k] \in Knowledge
    BY <1>1, <1>2, <2>1
  <2>3. ASSUME NEW q \in P PROVE q[1] \in Session /\ Rank[q[1]] < Rank[s]
    <3>1. PICK j \in 1 .. k : q[1] = order[j]
      BY <1>3
    <3>2. j \in 1 .. n /\ j < k + 1
      BY <1>1, <2>1
    <3> QED
      BY <1>1, <2>1, <3>1, <3>2
  <2>4. h[k + 1] = ReplaySession(h[k], s) /\ Before(S, k + 1) = P \cup Pages(s, Len(Events[s]))
    BY <1>2, <1>3, <2>1
  <2> HIDE DEF s, P
  <2>5. Knows(ReplaySession(h[k], s), P \cup Pages(s, Len(Events[s])))
    BY <2>1, <2>2, <2>3, SessionKnows
  <2> QED
    BY <2>4, <2>5
<1>6. n \in T
  <2> HIDE DEF T
  <2> QED
    BY <1>1, <1>4, <1>5, Induction
<1>7. h[n] \in Knowledge /\ Knows(h[n], Before(S, n))
  <2>1. n \in 0 .. n /\ n <= n
    BY <1>1
  <2>2. Knows(h[n], Before(S, n))
    BY <1>6, <2>1
  <2> QED
    BY <1>2, <2>1, <2>2
<1> QED
  BY <1>2, <1>3, <1>7

(* The last observation of something was made at one of its positions.       *)
LEMMA LastIsOne ==
  ASSUME NEW at, NEW P, IsLast(at, P)
  PROVE  \E p \in P : at = At(p[1], p[2])
BY DEF IsLast

LEMMA PositionsInLedger ==
  ASSUME NEW S \in SUBSET Session, NEW p \in Positions(S)
  PROVE  /\ At(p[1], p[2]).session \in S
         /\ At(p[1], p[2]).sequence < Len(Events[At(p[1], p[2]).session])
<1>1. PICK s \in S : p \in {<<s, i>> : i \in 1 .. Len(Events[s])}
  BY DEF Positions
<1>2. Len(Events[s]) \in Nat
  BY ReplayAssumption
<1>3. PICK i \in 1 .. Len(Events[s]) : p = <<s, i>>
  BY <1>1
<1> QED
  BY <1>2, <1>3 DEF At

LEMMA OnlyIs ==
  ASSUME NEW d, NEW keys
  PROVE  /\ DOMAIN Only(d, keys) = DOMAIN d \cap keys
         /\ \A k \in DOMAIN d \cap keys : Only(d, keys)[k] = d[k]
BY DEF Only

(* The parts of a snapshot, by what the replay knows.                        *)
LEMMA SnapshotIs ==
  ASSUME NEW S \in SUBSET Session
  PROVE  LET known == Replayed(S)
             snapshot == Snapshot(S)
             units == DOMAIN known.units
             rows == known.rows
         IN  /\ snapshot.ledger = S /\ snapshot.stale = known.stale
             /\ snapshot.companies = known.companies /\ snapshot.units = known.units
             /\ \A k \in DOMAIN rows : k[2] \in snapshot.products
             /\ DOMAIN snapshot.unitProducts = {k \in DOMAIN rows : k[1] \in units}
             /\ DOMAIN snapshot.orphans = {k \in DOMAIN rows : k[1] \notin units}
             /\ \A k \in DOMAIN snapshot.unitProducts : snapshot.unitProducts[k] = rows[k]
             /\ \A k \in DOMAIN snapshot.orphans : snapshot.orphans[k] = rows[k]
             /\ DOMAIN snapshot.surfaces = units
             /\ \A u \in units : snapshot.surfaces[u] =
                  IF u \in DOMAIN known.surfaces THEN known.surfaces[u] ELSE [status |-> "unknown"]
<1> DEFINE known == Replayed(S)
           units == DOMAIN known.units
           rows == known.rows
           ours == {k \in DOMAIN rows : k[1] \in units}
           surfaces == [u \in units |-> IF u \in DOMAIN known.surfaces THEN known.surfaces[u]
                                                       ELSE [status |-> "unknown"]]
           snapshot == [ledger |-> S, stale |-> known.stale, companies |-> known.companies,
                        units |-> known.units, products |-> {k[2] : k \in DOMAIN rows},
                        unitProducts |-> Only(rows, ours),
                        orphans |-> Only(rows, DOMAIN rows \ ours), surfaces |-> surfaces]
<1>1. Snapshot(S) = snapshot
  BY DEF Snapshot
<1> HIDE DEF known
<1>2. /\ DOMAIN Only(rows, ours) = DOMAIN rows \cap ours
      /\ \A k \in DOMAIN rows \cap ours : Only(rows, ours)[k] = rows[k]
      /\ DOMAIN Only(rows, DOMAIN rows \ ours) = DOMAIN rows \cap (DOMAIN rows \ ours)
      /\ \A k \in DOMAIN rows \cap (DOMAIN rows \ ours) :
           Only(rows, DOMAIN rows \ ours)[k] = rows[k]
  BY DEF Only
<1>3. /\ snapshot.ledger = S /\ snapshot.stale = known.stale
      /\ snapshot.companies = known.companies /\ snapshot.units = known.units
      /\ snapshot.products = {k[2] : k \in DOMAIN rows}
      /\ snapshot.unitProducts = Only(rows, ours)
      /\ snapshot.orphans = Only(rows, DOMAIN rows \ ours)
      /\ snapshot.surfaces = surfaces
  BY DEF snapshot
<1>4. DOMAIN surfaces = units /\ \A u \in units : surfaces[u] =
        IF u \in DOMAIN known.surfaces THEN known.surfaces[u] ELSE [status |-> "unknown"]
  BY DEF surfaces
<1>5. ours = {k \in DOMAIN rows : k[1] \in units}
  BY DEF ours
<1> HIDE DEF snapshot, surfaces, ours
<1>6. /\ DOMAIN snapshot.unitProducts = {k \in DOMAIN rows : k[1] \in units}
      /\ DOMAIN snapshot.orphans = {k \in DOMAIN rows : k[1] \notin units}
  BY <1>2, <1>3, <1>5
<1>7. /\ \A k \in DOMAIN snapshot.unitProducts : snapshot.unitProducts[k] = rows[k]
      /\ \A k \in DOMAIN snapshot.orphans : snapshot.orphans[k] = rows[k]
  BY <1>2, <1>3
<1>8. \A k \in DOMAIN rows : k[2] \in snapshot.products
  BY <1>3
<1> HIDE DEF units, rows
<1> QED
  BY <1>1, <1>3, <1>4, <1>6, <1>7, <1>8 DEF known, units, rows

(* A snapshot of any sessions passes the rules for snapshots.                *)
LEMMA SnapshotsAreValid ==
  ASSUME NEW S \in SUBSET Session
  PROVE  ValidDomain(Snapshot(S))
<1> DEFINE known == Replayed(S)
           snapshot == Snapshot(S)
           P == Positions(S)
<1>1. known \in Knowledge /\ Knows(known, P)
  BY LedgerKnows
<1>2. /\ DOMAIN known.companies \subseteq Company /\ DOMAIN known.units \subseteq Unit
      /\ DOMAIN known.rows \subseteq Row /\ DOMAIN known.surfaces \subseteq Unit
  BY <1>1, DictIs DEF Knowledge
<1>3. /\ snapshot.ledger = S
      /\ snapshot.companies = known.companies /\ snapshot.units = known.units
      /\ \A k \in DOMAIN known.rows : k[2] \in snapshot.products
      /\ DOMAIN snapshot.unitProducts = {k \in DOMAIN known.rows : k[1] \in DOMAIN known.units}
      /\ DOMAIN snapshot.orphans = {k \in DOMAIN known.rows : k[1] \notin DOMAIN known.units}
      /\ \A k \in DOMAIN snapshot.unitProducts : snapshot.unitProducts[k] = known.rows[k]
      /\ \A k \in DOMAIN snapshot.orphans : snapshot.orphans[k] = known.rows[k]
      /\ DOMAIN snapshot.surfaces = DOMAIN known.units
      /\ \A u \in DOMAIN known.units : snapshot.surfaces[u] =
           IF u \in DOMAIN known.surfaces THEN known.surfaces[u] ELSE [status |-> "unknown"]
  BY SnapshotIs
<1> HIDE DEF known, snapshot, P
<1>4. \A p \in P : InLedger(snapshot, At(p[1], p[2]))
  BY <1>3, PositionsInLedger DEF InLedger, P
<1>5. ASSUME NEW c \in DOMAIN known.companies PROVE InLedger(snapshot, known.companies[c])
  BY <1>1, <1>4 DEF Knows, KnowsCompanies
<1>6. ASSUME NEW u \in DOMAIN known.units
      PROVE  /\ known.units[u].company \in DOMAIN known.companies
             /\ InLedger(snapshot, known.units[u].at)
  <2>1. KnowsUnit(known, P, u)
    BY <1>1, <1>2 DEF Knows
  <2>2. Rosters(P, u) \subseteq P
    BY DEF Rosters
  <2> QED
    BY <1>4, <2>1, <2>2, LastIsOne DEF KnowsUnit
<1>7. ASSUME NEW k \in DOMAIN known.rows PROVE InLedger(snapshot, known.rows[k])
  <2>1. PICK u \in Unit, product \in Product : k = <<u, product>>
    BY <1>2 DEF Row
  <2>2. KnowsRow(known, P, u, product)
    BY <1>1 DEF Knows
  <2>3. RowPages(P, u, product) \subseteq P
    BY DEF RowPages, GoodsPages
  <2> QED
    BY <1>4, <2>1, <2>2, <2>3, LastIsOne DEF KnowsRow
<1>8. ASSUME NEW u \in DOMAIN known.surfaces PROVE InLedger(snapshot, known.surfaces[u].at)
  <2>1. KnowsSurface(known, P, u)
    BY <1>1, <1>2 DEF Knows
  <2>2. GoodsPages(P, u) \subseteq P
    BY DEF GoodsPages
  <2> QED
    BY <1>4, <2>1, <2>2, LastIsOne DEF KnowsSurface
<1>9. ASSUME NEW u \in DOMAIN snapshot.surfaces
      PROVE  /\ u \in DOMAIN snapshot.units
             /\ snapshot.surfaces[u].status # "unknown" => InLedger(snapshot, snapshot.surfaces[u].at)
  <2>1. CASE u \in DOMAIN known.surfaces
    BY <1>3, <1>8, <2>1
  <2>2. CASE u \notin DOMAIN known.surfaces
    BY <1>3, <2>2
  <2> QED
    BY <2>1, <2>2
<1>10. ValidDomain(snapshot)
  BY <1>3, <1>5, <1>6, <1>7, <1>9 DEF ValidDomain
<1> QED
  BY <1>10 DEF snapshot

(* A snapshot keeps the latest positive observation of everything.           *)
LEMMA SnapshotsKeepLatest ==
  ASSUME NEW S \in SUBSET Session
  PROVE  KeepsLatest(Snapshot(S))
<1> DEFINE known == Replayed(S)
           snapshot == Snapshot(S)
           P == Positions(S)
<1>1. known \in Knowledge /\ Knows(known, P)
  BY LedgerKnows
<1>2. /\ snapshot.ledger = S /\ snapshot.stale = known.stale
      /\ snapshot.units = known.units
      /\ DOMAIN snapshot.unitProducts = {k \in DOMAIN known.rows : k[1] \in DOMAIN known.units}
      /\ DOMAIN snapshot.orphans = {k \in DOMAIN known.rows : k[1] \notin DOMAIN known.units}
      /\ \A k \in DOMAIN snapshot.unitProducts : snapshot.unitProducts[k] = known.rows[k]
      /\ \A k \in DOMAIN snapshot.orphans : snapshot.orphans[k] = known.rows[k]
      /\ \A u \in DOMAIN known.units : snapshot.surfaces[u] =
           IF u \in DOMAIN known.surfaces THEN known.surfaces[u] ELSE [status |-> "unknown"]
  BY SnapshotIs
<1>3. /\ \A u : RostersOf(S, u) = Rosters(P, u)
      /\ \A u : GoodsOf(S, u) = GoodsPages(P, u)
      /\ \A u, product : RowsOf(S, u, product) = RowPages(P, u, product)
  BY DEF RostersOf, Rosters, GoodsOf, GoodsPages, RowsOf, RowPages
<1> HIDE DEF known, snapshot
<1>4. ASSUME NEW u \in Unit
      PROVE  /\ u \in DOMAIN snapshot.units <=> RostersOf(S, u) # {}
             /\ u \in DOMAIN snapshot.units => IsLast(snapshot.units[u].at, RostersOf(S, u))
             /\ u \in DOMAIN snapshot.units =>
                  \/ GoodsOf(S, u) = {} /\ snapshot.surfaces[u].status = "unknown"
                  \/ IsLast(snapshot.surfaces[u].at, GoodsOf(S, u))
  <2>1. KnowsUnit(known, P, u) /\ KnowsSurface(known, P, u)
    BY <1>1 DEF Knows
  <2> HIDE DEF P
  <2>2. u \in DOMAIN snapshot.units =>
          \/ GoodsPages(P, u) = {} /\ snapshot.surfaces[u].status = "unknown"
          \/ IsLast(snapshot.surfaces[u].at, GoodsPages(P, u))
    BY <1>2, <2>1 DEF KnowsSurface
  <2> QED
    BY <1>2, <1>3, <2>1, <2>2 DEF KnowsUnit
<1>5. ASSUME NEW u \in Unit, NEW product \in Product,
             NEW rows, rows = IF u \in DOMAIN snapshot.units THEN snapshot.unitProducts
                                                             ELSE snapshot.orphans
      PROVE  /\ <<u, product>> \in DOMAIN rows <=> RowsOf(S, u, product) # {}
             /\ <<u, product>> \in DOMAIN rows =>
                  IsLast(rows[<<u, product>>], RowsOf(S, u, product))
  <2> DEFINE k == <<u, product>>
  <2>1. KnowsRow(known, P, u, product)
    BY <1>1 DEF Knows
  <2>2. k \in DOMAIN rows <=> k \in DOMAIN known.rows
    BY <1>2, <1>5
  <2>3. k \in DOMAIN rows => rows[k] = known.rows[k]
    BY <1>2, <1>5
  <2> HIDE DEF P
  <2> QED
    BY <1>3, <2>1, <2>2, <2>3 DEF KnowsRow
<1>6. snapshot.stale <=> \E p \in P : EventAt(p).kind = "roster" /\ ~EventAt(p).readable
  BY <1>1, <1>2 DEF Knows, KnowsStale
<1>7. KeepsLatest(snapshot)
  BY <1>2, <1>4, <1>5, <1>6 DEF KeepsLatest
<1> QED
  BY <1>7 DEF snapshot

(* The snapshot's rules accept the ledger exactly when the clocks agree.     *)
LEMMA LedgersAreClocks ==
  ASSUME NEW S \in SUBSET Session
  PROVE  ValidLedger(S) <=> ClocksAgree(S)
<1> DEFINE order == Ordered(S)
<1>1. /\ order \in Seq(S) /\ Range(order) = S
      /\ \A i, j \in DOMAIN order : i < j => Rank[order[i]] < Rank[order[j]]
  BY LedgerInOrder
<1> HIDE DEF order
<1>2. \A i \in DOMAIN order : order[i] \in S /\ i \in Nat
  BY <1>1
<1>3. \A s \in S : \E i \in DOMAIN order : order[i] = s
  BY <1>1 DEF Range
<1>4. \A s \in Session : Rank[s] \in Nat
  BY ReplayAssumption
<1>5. ASSUME ValidLedger(S), NEW s \in S, NEW t \in S, Rank[s] < Rank[t]
      PROVE  TextRank[s] < TextRank[t]
  <2>1. PICK i \in DOMAIN order, j \in DOMAIN order : order[i] = s /\ order[j] = t
    BY <1>3
  <2>2. i < j
    BY <1>1, <1>2, <1>4, <1>5, <2>1
  <2> QED
    BY <1>5, <2>1, <2>2 DEF ValidLedger, order
<1>6. ASSUME ClocksAgree(S) PROVE ValidLedger(S)
  <2>1. \A i, j \in DOMAIN order : i < j => TextRank[order[i]] < TextRank[order[j]]
    BY <1>1, <1>2, <1>6 DEF ClocksAgree
  <2> QED
    BY <1>6, <2>1 DEF ClocksAgree, ValidLedger, order
<1> QED
  BY <1>5, <1>6 DEF ClocksAgree, ValidLedger

LEMMA ReplaysAre ==
  ASSUME NEW S \in SUBSET Session
  PROVE  Replays[S] <=> ClocksAgree(S)
<1>1. Replays[S] <=> Accepted(S)
  BY DEF Replays
<1> QED
  BY <1>1, LedgersAreClocks, SnapshotsAreValid DEF Accepted

(* A rebuild knows from its start whether there is a snapshot to be made.    *)
Decided(q) ==
  /\ run[q].pc = "probe" => Replays[run[q].plan]
  /\ run[q].result = "invalid" => run[q].plan \in SUBSET Session /\ ~Replays[run[q].plan]

(* What a step may not bring about but by launching.                         *)
Settled(q) ==
  /\ run'[q].pc = "probe" => run[q].pc = "probe" /\ run'[q].plan = run[q].plan
  /\ run'[q].result = "invalid" => run[q].result = "invalid" /\ run'[q].plan = run[q].plan

LEMMA SettledStays ==
  ASSUME NEW q \in Process, Decided(q), Settled(q)
  PROVE  Decided(q)'
BY DEF Decided, Settled

LEMMA EndsSettles ==
  ASSUME TypeOK, NEW p \in Process, NEW result, result # "invalid", Ends(p, result)
  PROVE  \A q \in Process : Settled(q)
BY DEF Ends, Settled, TypeOK, RunState, Idle

LEMMA ValidatedSettles ==
  ASSUME TypeOK, NEW p \in Process, Validated(p)
  PROVE  \A q \in Process : Settled(q)
<1>1. CASE p \in Rebuilder /\ ~run[p].upgrade
  BY <1>1 DEF Validated, Settled, TypeOK, RunState
<1>2. CASE ~(p \in Rebuilder /\ ~run[p].upgrade)
  BY <1>2 DEF Validated, Settled, TypeOK, RunState
<1> QED
  BY <1>1, <1>2

LEMMA HasReadSettles ==
  ASSUME TypeOK, NEW p \in Process, NEW reading, HasRead(p, reading)
  PROVE  \A q \in Process : Settled(q)
<1>1. CASE ~run[p].final
  BY <1>1, ValidatedSettles DEF HasRead
<1>2. CASE run[p].final /\ Ends(p, "torn")
  BY <1>2, EndsSettles
<1>3. CASE run' = [run EXCEPT ![p].pc = "closing", ![p].result = "done", ![p].reading = reading]
  BY <1>3 DEF Settled, TypeOK, RunState
<1> QED
  BY <1>1, <1>2, <1>3 DEF HasRead

LEMMA StartsSettles ==
  ASSUME TypeOK, NEW p \in Process, NEW state \in RunState, Starts(p, state),
         state.pc # "probe", state.result # "invalid"
  PROVE  \A q \in Process : Settled(q)
<1>1. run'[p] = [state EXCEPT !.alone = (Running = {})]
  BY DEF Starts
<1>2. \A q \in Process \ {p} : run'[q] = [run[q] EXCEPT !.alone = FALSE] /\ run[q] \in RunState
  BY DEF Starts, TypeOK
<1>3. run'[p].pc = state.pc /\ run'[p].result = state.result
  BY <1>1 DEF RunState
<1>4. \A q \in Process \ {p} : run'[q].pc = run[q].pc /\ run'[q].result = run[q].result
                               /\ run'[q].plan = run[q].plan
  BY <1>2 DEF RunState
<1> QED
  BY <1>3, <1>4 DEF Settled

LEMMA CommitsSettles ==
  ASSUME TypeOK, NEW p \in Process, NEW f, NEW snapshot, Commits(p, f, snapshot, "count")
  PROVE  \A q \in Process : Settled(q)
<1>1. \A q \in Process : /\ run'[q].result = run[q].result /\ run'[q].plan = run[q].plan
                         /\ run'[q].pc \in {run[q].pc, "count"}
  BY DEF Commits, TypeOK, RunState
<1> QED
  BY <1>1 DEF Settled

LEMMA DecidedStep == TypeOK /\ (\A q \in Rebuilder : Decided(q)) /\ [Next]_vars
                       => \A q \in Rebuilder : Decided(q)'
<1> SUFFICES ASSUME TypeOK, \A q \in Rebuilder : Decided(q), [Next]_vars
             PROVE  \A q \in Rebuilder : Decided(q)'
  OBVIOUS
<1> DEFINE AllSettled == \A q \in Process : Settled(q)
<1>0. AllSettled => \A q \in Rebuilder : Decided(q)'
  BY SettledStays DEF Process
<1> USE DEF AllSettled
<1>1. CASE UNCHANGED vars
  BY <1>0, <1>1 DEF vars, Settled
<1>2. ASSUME NEW s \in Session, EndSession(s) PROVE AllSettled
  BY <1>2 DEF EndSession, Settled
<1>3. ASSUME NEW b \in Rebuilder, Launch(b) PROVE \A q \in Rebuilder : Decided(q)'
  <2>1. PICK state \in RunState :
               /\ Starts(b, state) /\ state.plan = finished
               /\ \/ Replays[finished] /\ state.pc = "probe" /\ state.result = "none"
                  \/ ~Replays[finished] /\ state.pc = "closing" /\ state.result = "invalid"
    BY <1>3, LaunchIs
  <2>2. run'[b] = [state EXCEPT !.alone = (Running = {})] /\ finished \in SUBSET Session
    BY <2>1 DEF Starts, TypeOK, Process
  <2>3. run'[b].pc = state.pc /\ run'[b].result = state.result /\ run'[b].plan = finished
    BY <2>1, <2>2 DEF RunState
  <2>4. Decided(b)'
    BY <2>1, <2>2, <2>3 DEF Decided
  <2>5. ASSUME NEW q \in Rebuilder \ {b} PROVE Decided(q)'
    <3>1. run'[q] = [run[q] EXCEPT !.alone = FALSE] /\ run[q] \in RunState
      BY <2>1 DEF Starts, TypeOK, Process
    <3>2. Settled(q)
      BY <3>1 DEF Settled, RunState
    <3> QED
      BY <3>2, SettledStays DEF Process
  <2> QED
    BY <2>4, <2>5
<1>4. ASSUME NEW r \in Reader, Find(r) PROVE AllSettled
  <2>0. r \in Process
    BY DEF Process
  <2>1. CASE path = 0
    <3> DEFINE state == [Idle EXCEPT !.pc = "closing", !.result = "done", !.since = {None}]
    <3>1. state \in RunState /\ state.pc # "probe" /\ state.result # "invalid" /\ Starts(r, state)
      BY <1>4, <2>1, IdleIsRunState DEF Find, RunState, Places, Results, Maybe, Idle
    <3> HIDE DEF state
    <3> QED
      BY <2>0, <3>1, StartsSettles
  <2>2. CASE path # 0
    <3> DEFINE state == OpensReadOnly(Idle)
    <3>1. path \in File /\ store[path] \in Content
      BY <2>2 DEF TypeOK
    <3>2. state \in RunState
      BY <2>2, IdleIsRunState, OpensIsRunState
    <3>3. state.pc # "probe" /\ state.result # "invalid"
      BY DEF OpensReadOnly, Idle
    <3>4. Starts(r, state)
      BY <1>4, <2>2 DEF Find
    <3> HIDE DEF state
    <3> QED
      BY <2>0, <3>2, <3>3, <3>4, StartsSettles
  <2> QED
    BY <2>1, <2>2
<1>5. ASSUME NEW p \in Process, Step(p) PROVE AllSettled
  <2>1. CASE Probe(p)
    BY <2>1 DEF Probe, Goes, Settled, TypeOK, RunState
  <2>2. CASE ProbeCloses(p)
    BY <2>2 DEF ProbeCloses, Settled, TypeOK, RunState
  <2>3. CASE CheckSidecars(p)
    <3>1. CASE Ends(p, "refused")
      BY <3>1, EndsSettles
    <3>2. CASE Goes(p, "stage")
      BY <3>2 DEF Goes, Settled, TypeOK, RunState
    <3> QED
      BY <2>3, <3>1, <3>2 DEF CheckSidecars
  <2>4. CASE Stage(p)
    BY <2>4 DEF Stage, Settled, TypeOK, RunState
  <2>5. CASE Replace(p)
    BY <2>5 DEF Replace, Settled, TypeOK, RunState
  <2>6. CASE Reopen(p)
    BY <2>6 DEF Reopen, OpensReadOnly, Settled, TypeOK, RunState
  <2>7. CASE Connect(p)
    BY <2>7 DEF Connect, Settled, TypeOK, RunState
  <2>8. CASE Preflight(p)
    <3>1. CASE Ends(p, "incompatible")
      BY <3>1, EndsSettles
    <3>2. CASE run' = [run EXCEPT ![p].pc = "bootstrap", ![p].marked = FALSE]
      BY <3>2 DEF Settled, TypeOK, RunState
    <3> QED
      BY <2>8, <3>1, <3>2 DEF Preflight
  <2>9. CASE Bootstrap(p)
    BY <2>9 DEF Bootstrap, Goes, Settled, TypeOK, RunState
  <2>10. CASE Initialize(p)
    <3>1. CASE Ends(p, "taken")
      BY <3>1, EndsSettles
    <3>2. CASE Commits(p, run[p].file, None, "count")
      BY <3>2, CommitsSettles
    <3> QED
      BY <2>10, <3>1, <3>2 DEF Initialize
  <2>11. CASE CountMeta(p)
    BY <2>11 DEF CountMeta, Settled, TypeOK, RunState
  <2>12. CASE CountRows(p)
    <3>1. CASE Ends(p, "torn")
      BY <3>1, EndsSettles
    <3>2. CASE Validated(p)
      BY <3>2, ValidatedSettles
    <3>3. CASE run' = [run EXCEPT ![p].pc = "meta", ![p].some = FALSE]
      BY <3>3 DEF Settled, TypeOK, RunState
    <3> QED
      BY <2>12, <3>1, <3>2, <3>3 DEF CountRows
  <2>13. CASE ReadMeta(p)
    <3>1. CASE HasRead(p, Nothing)
      BY <3>1, HasReadSettles
    <3>2. CASE run' = [run EXCEPT ![p].pc = "ledger", ![p].reading = Read(p, "meta")]
      BY <3>2 DEF Settled, TypeOK, RunState
    <3> QED
      BY <2>13, <3>1, <3>2 DEF ReadMeta
  <2>14. CASE ReadLedger(p)
    BY <2>14 DEF ReadLedger, Settled, TypeOK, RunState
  <2>15. CASE ReadRows(p)
    <3>1. CASE HasRead(p, Read(p, "rows"))
      BY <3>1, HasReadSettles
    <3>2. CASE Ends(p, "torn")
      BY <3>2, EndsSettles
    <3> QED
      BY <2>15, <3>1, <3>2 DEF ReadRows
  <2>16. CASE Commit(p)
    <3>1. \A q \in Process : /\ run'[q].result = run[q].result /\ run'[q].plan = run[q].plan
                             /\ run'[q].pc \in {run[q].pc, "meta"}
      BY <2>16 DEF Commit, TypeOK, RunState
    <3> QED
      BY <3>1 DEF Settled
  <2>17. CASE Close(p)
    BY <2>17 DEF Close, Idle, Settled, TypeOK
  <2> QED
    BY <1>5, <2>1, <2>2, <2>3, <2>4, <2>5, <2>6, <2>7, <2>8, <2>9, <2>10, <2>11, <2>12, <2>13,
       <2>14, <2>15, <2>16, <2>17 DEF Step
<1>6. ASSUME NEW b \in Rebuilder, ProbeFails(b) \/ Fails(b) \/ Killed(b) PROVE AllSettled
  <2>0. b \in Process
    BY DEF Process
  <2>1. CASE ProbeFails(b)
    BY <2>0, <2>1 DEF ProbeFails, Settled, TypeOK, RunState
  <2>2. CASE Fails(b)
    BY <2>0, <2>2, EndsSettles DEF Fails
  <2>3. CASE Killed(b)
    BY <2>0, <2>3 DEF Killed, Idle, Settled, TypeOK
  <2> QED
    BY <1>6, <2>1, <2>2, <2>3
<1> QED
  BY <1>0, <1>1, <1>2, <1>3, <1>4, <1>5, <1>6 DEF Next

(* In every reachable state, a rebuild that goes ahead has replayed sessions *)
(* whose clocks agree and keeps the latest positive observation of each unit *)
(* and product in the order of the ledger; one that is refused is refused    *)
(* for the clocks of its sessions and never for what their pages say         *)
(* (build_replay_snapshot).                                                  *)
THEOREM ReplaysKeepTheLatest == Spec => []ReplaysAreFaithful
<1> DEFINE AllDecided == \A q \in Rebuilder : Decided(q)
<1>1. TypeOK /\ AllDecided => ReplaysAreFaithful
  <2> SUFFICES ASSUME TypeOK, AllDecided, NEW b \in Rebuilder
               PROVE  /\ run[b].pc = "probe" =>
                           ClocksAgree(run[b].plan) /\ KeepsLatest(SnapshotOf[run[b].plan])
                      /\ run[b].result = "invalid" => ~ClocksAgree(run[b].plan)
    BY DEF ReplaysAreFaithful
  <2>1. b \in Process /\ run[b] \in RunState /\ Tidy(b) /\ Decided(b)
    BY DEF TypeOK, Process
  <2>2. ASSUME run[b].pc = "probe"
        PROVE  ClocksAgree(run[b].plan) /\ KeepsLatest(SnapshotOf[run[b].plan])
    <3>1. run[b].plan \in SUBSET Session
      BY <2>1, <2>2 DEF RunState, Maybe, Tidy
    <3>2. SnapshotOf[run[b].plan] = Snapshot(run[b].plan)
      BY <3>1 DEF SnapshotOf
    <3> QED
      BY <2>1, <2>2, <3>1, <3>2, ReplaysAre, SnapshotsKeepLatest DEF Decided
  <2>3. ASSUME run[b].result = "invalid" PROVE ~ClocksAgree(run[b].plan)
    BY <2>1, <2>3, ReplaysAre DEF Decided
  <2> QED
    BY <2>2, <2>3
<1>2. Init => AllDecided
  BY DEF Init, Decided, Idle, Process
<1>3. TypeOK /\ AllDecided /\ [Next]_vars => AllDecided'
  BY DecidedStep
<1> HIDE DEF AllDecided
<1>4. Spec => []TypeOK
  BY CurrentStateTypeCorrect
<1> QED
  BY <1>1, <1>2, <1>3, <1>4, PTL DEF Spec
=============================================================================
