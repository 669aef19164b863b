-------------------------------- MODULE AgentIndex --------------------------------
(* The agent index: its rebuild from curated knowledge, finished sessions    *)
(* and the detector's changes (core/index.py), and the pages that are read   *)
(* from it (core/read.py, core/pagination.py).                               *)
(*                                                                           *)
(* While a rebuild reads file after file, collectors start and end sessions, *)
(* the detector creates its database and records changes, a curator edits    *)
(* knowledge, and files of finished sessions are altered.  A file is read in *)
(* one step; what has been altered never gets an older content back.         *)
EXTENDS Knowledge, Store

CONSTANTS
  Session,        \* session ids, in their order
  FilesOf,        \* FilesOf[s]: names of the event files of a session
  Recorded,       \* Recorded[f]: what the collector wrote to an event file
  Times,          \* Times[s]: possible <<started_at, ended_at>>
  Outcomes,       \* statuses that a session may end with
  Finished,       \* sessions that have ended at first
  Rewrites,       \* Rewrites[f]: contents an event file may be altered to
  FirstCurated,   \* file name -> content
  Edits,          \* edits of the curator: functions from names to contents
  Found,          \* Found[s]: rows that the detector adds when it processes a session
  Limits,         \* page limits that a client asks for
  Queries,        \* texts and
  KindFilters,    \*   sets of kinds that are searched for
  MaxEdits, MaxRebuilds, MaxListings  \* bounds of the model

Change == [profile : Int, change : Int]

(* All that files of events may hold.                                        *)
Contents == Range(Recorded) \cup UNION {Range(Rewrites[f]) : f \in DOMAIN Rewrites}

(* Nothing that a file of events is altered to is what it was before.        *)
ASSUME IndexAssumption ==
  /\ Session \subseteq Int /\ IsFiniteSet(Session)
  /\ FilesOf \in [Session -> Seq(DOMAIN Recorded)]
  /\ Times \in [Session -> SUBSET (Int \X Int)]
  /\ Finished \subseteq Session
  /\ \A s \in Finished : \E t \in Times[s] : t[1] <= t[2]
  /\ DOMAIN Rewrites \subseteq DOMAIN Recorded
  /\ \A f \in DOMAIN Rewrites :
       IsInjective(Rewrites[f]) /\ Recorded[f] \notin Range(Rewrites[f])
  /\ \A content \in Contents : content \in Seq(Range(content))
  /\ \A s \in Session : Found[s] \subseteq Change /\ IsFiniteSet(Found[s])
  /\ Limits \subseteq Nat \ {0}

VARIABLES
  curated,    \* the files of curated knowledge
  manifest,   \* what the directory of each session holds
  events,     \* event file -> content
  detector,   \* the detector's database
  rebuild,    \* the rebuild under way
  index,      \* the index in its place
  client,     \* a client that reads page after page
  was,        \* history: manifests and contents of each session that coexisted
  spent       \* edits, rebuilds and listings so far

world == <<curated, manifest, events, detector, was>>
vars == <<curated, manifest, events, detector, rebuild, index, client, was, spent>>

NoDirectory == [status |-> "absent"]
NoManifest == [status |-> "none"]

Manifest(s, status, times) ==
  [status |-> status, started |-> times[1], ended |-> times[2], files |-> FilesOf[s],
   warnings |-> 0]

ContentsOf(s, ev) == [i \in DOMAIN FilesOf[s] |-> ev[FilesOf[s][i]]]

Idle == [pc |-> "idle", want |-> <<>>, got |-> <<>>, records |-> <<>>, atStart |-> {},
         disturbed |-> FALSE, opened |-> FALSE, todo |-> <<>>, first |-> NoDirectory,
         state |-> Unread, contents |-> <<>>, snapshot |-> <<>>, summaries |-> <<>>]

NoIndex == [records |-> <<>>, sessions |-> {}, changes |-> {}, missing |-> TRUE]
IsMissing(i) == "missing" \in DOMAIN i

Client == [pc |-> "idle", kind |-> "sessions", scope |-> Anything, limit |-> 1, cursor |-> <<>>,
           got |-> <<>>, generation |-> NoIndex]

FirstManifest(s) ==
  IF s \in Finished THEN Manifest(s, "completed", CHOOSE t \in Times[s] : t[1] <= t[2])
  ELSE NoDirectory

(* The index that a rebuild makes of the first files.                        *)
FirstIndex ==
  Index(Projected(FirstCurated),
        [i \in 1 .. Cardinality(Finished) |->
           LET s == Numbers(Finished)[i]
               identity == Identity(FirstManifest(s), ContentsOf(s, Recorded))
           IN SessionSummary(s, identity, identity.contents, 0)], {})

Init ==
  /\ curated = FirstCurated
  /\ manifest = [s \in Session |-> FirstManifest(s)]
  /\ events = Recorded
  /\ detector = [stage |-> "absent", rows |-> {}]
  /\ rebuild = Idle
  /\ index \in {NoIndex, FirstIndex}
  /\ client = Client
  /\ was = [s \in Session |-> {<<FirstManifest(s), ContentsOf(s, Recorded)>>}]
  /\ spent = [edits |-> {}, rebuilds |-> 0, listings |-> 0]

-----------------------------------------------------------------------------
(* The world: collectors, the detector, a curator, and alterations.          *)

With(files, others) ==
  [f \in DOMAIN files \cup DOMAIN others |->
     IF f \in DOMAIN others THEN others[f] ELSE files[f]]

Coexist == was' = [s \in Session |-> was[s] \cup {<<manifest'[s], ContentsOf(s, events')>>}]

SessionChanges(s, m) ==
  /\ manifest' = [manifest EXCEPT ![s] = m]
  /\ UNCHANGED events
  /\ Coexist
  /\ UNCHANGED <<curated, detector, index, client>>

MakeDirectory(s) ==
  /\ manifest[s] = NoDirectory
  /\ SessionChanges(s, NoManifest)
  /\ UNCHANGED <<rebuild, spent>>

StartSession(s) ==
  /\ manifest[s] = NoManifest
  /\ \E t \in Times[s] : SessionChanges(s, Manifest(s, "running", t))
  /\ UNCHANGED <<rebuild, spent>>

EndSession(s, status) ==
  /\ manifest[s].status = "running"
  /\ SessionChanges(s, [manifest[s] EXCEPT !.status = status])
  /\ UNCHANGED <<rebuild, spent>>

Disturb(edit) ==
  /\ Cardinality(spent.edits) < MaxEdits
  /\ edit \notin spent.edits
  /\ spent' = [spent EXCEPT !.edits = @ \cup {edit}]
  /\ rebuild' = IF rebuild.pc \in {"idle", "refused"} THEN rebuild
                ELSE [rebuild EXCEPT !.disturbed = TRUE]

AlterManifest(s) ==
  /\ manifest[s].status \in FinalizedStatuses
  /\ Disturb(<<"manifest", s>>)
  /\ SessionChanges(s, [manifest[s] EXCEPT !.warnings = @ + 1])

AlterEvents(f, i) ==
  /\ Disturb(<<"events", f, i>>)
  /\ events' = [events EXCEPT ![f] = Rewrites[f][i]]
  /\ UNCHANGED manifest
  /\ Coexist
  /\ UNCHANGED <<curated, detector, index, client>>

Curate(n) ==
  /\ Disturb(<<"curated", n>>)
  /\ curated' = With(curated, Edits[n])
  /\ UNCHANGED <<manifest, events, detector, index, client, was>>

DetectorChanges(stage, rows) ==
  /\ detector' = [stage |-> stage, rows |-> rows]
  /\ UNCHANGED <<curated, manifest, events, rebuild, index, client, was, spent>>

CreateState == detector.stage = "absent" /\ DetectorChanges("empty", {})

BootstrapState == detector.stage = "empty" /\ DetectorChanges("ready", {})

ProcessSession(s) ==
  /\ detector.stage = "ready"
  /\ ~(Found[s] \subseteq detector.rows)
  /\ manifest[s].status \in FinalizedStatuses
  /\ DetectorChanges("ready", detector.rows \cup Found[s])

-----------------------------------------------------------------------------
(* rebuild_agent_index: knowledge first.                                     *)

Becomes(state) ==
  /\ rebuild' = state
  /\ UNCHANGED <<world, index, client, spent>>

Refuse == Becomes([Idle EXCEPT !.pc = "refused"])

DataSets == <<"actions", "products", "attributes", "categories", "entities", "captures",
              "endpoints", "session-endpoints", "operations", "forms", "topics">>

(* The files of the data sets are there or Missing, and an edit only changes *)
(* them; what they say of themselves may be wrong.                           *)
ASSUME CuratedAssumption ==
  /\ \A i \in DOMAIN DataSets : <<DataSets[i], 0>> \in DOMAIN FirstCurated
  /\ \A file \in DOMAIN FirstCurated :
       /\ file \in Range(DataSets) \X Nat
       /\ Fits(file, FirstCurated[file], DOMAIN FirstCurated)
  /\ \A n \in DOMAIN Edits :
       /\ DOMAIN Edits[n] \subseteq DOMAIN FirstCurated
       /\ \A file \in DOMAIN Edits[n] : Fits(file, Edits[n][file], DOMAIN FirstCurated)

FinishedNow == {s \in Session : manifest[s].status \in FinalizedStatuses}

Rebuild ==
  /\ rebuild.pc \in {"idle", "refused"}
  /\ spent.rebuilds < MaxRebuilds
  /\ rebuild' = [Idle EXCEPT !.pc = "knowledge",
                   !.want = [i \in DOMAIN DataSets |-> <<DataSets[i], 0>>]]
  /\ spent' = [spent EXCEPT !.rebuilds = @ + 1]
  /\ UNCHANGED <<world, index, client>>

PartsOf(file) ==
  IF curated[file] = Missing \/ "parts" \notin DOMAIN curated[file] THEN <<>>
  ELSE PartNames(curated, file[1])

ReadKnowledge ==
  LET file == Head(rebuild.want)
  IN /\ rebuild.pc = "knowledge" /\ rebuild.want # <<>>
     /\ Becomes([rebuild EXCEPT !.want = PartsOf(file) \o Tail(@),
                   !.got = With(@, [f \in {file} |-> curated[f]])])

Project ==
  /\ rebuild.pc = "knowledge" /\ rebuild.want = <<>>
  /\ \E projection \in {Projected(rebuild.got)} :
       IF projection = Refused THEN Refuse
       ELSE Becomes([rebuild EXCEPT !.pc = "projected", !.records = projection, !.got = <<>>])

-----------------------------------------------------------------------------
(* Then the detector's database is opened, and the sessions are read.        *)

OpenChanges ==
  /\ rebuild.pc = "projected"
  /\ IF detector.stage = "empty" THEN Refuse
     ELSE Becomes([rebuild EXCEPT !.pc = "list", !.opened = detector.stage = "ready",
                                 !.atStart = FinishedNow])

ListSessions ==
  /\ rebuild.pc = "list"
  /\ Becomes([rebuild EXCEPT !.pc = "session",
                !.todo = Numbers({s \in Session : manifest[s] # NoDirectory})])

This == Head(rebuild.todo)

NextSession == [rebuild EXCEPT !.pc = "session", !.todo = Tail(@), !.first = NoDirectory,
                               !.state = Unread, !.contents = <<>>, !.snapshot = <<>>]

ReadManifest ==
  /\ rebuild.pc = "session" /\ rebuild.todo # <<>>
  /\ IF manifest[This] = NoManifest THEN Refuse
     ELSE IF ~IsFinalized(manifest[This]) THEN Becomes(NextSession)
     ELSE Becomes([rebuild EXCEPT !.pc = "inspect", !.first = manifest[This]])

InspectFile ==
  LET content == events[rebuild.first.files[Len(rebuild.contents) + 1]]
      state == ReadEvents(This, rebuild.state, content)
  IN /\ rebuild.pc = "inspect" /\ Len(rebuild.contents) < Len(rebuild.first.files)
     /\ IF ~state.valid THEN Refuse
        ELSE Becomes([rebuild EXCEPT !.state = state, !.contents = Append(@, content)])

Inspected == Identity(rebuild.first, rebuild.contents)

ReadAgain ==
  /\ rebuild.pc = "inspect" /\ Len(rebuild.contents) = Len(rebuild.first.files)
  /\ IF SameManifest(Inspected, manifest[This]) THEN Becomes([rebuild EXCEPT !.pc = "stage"])
     ELSE Refuse

StageFile ==
  /\ rebuild.pc = "stage" /\ Len(rebuild.snapshot) < Len(rebuild.first.files)
  /\ Becomes([rebuild EXCEPT !.snapshot =
                Append(@, events[rebuild.first.files[Len(rebuild.snapshot) + 1]])])

Summarise ==
  /\ rebuild.pc = "stage" /\ Len(rebuild.snapshot) = Len(rebuild.first.files)
  /\ IF ~SameEvidence(Inspected, rebuild.first, rebuild.snapshot) THEN Refuse
     ELSE IF ~HasOrderedEnds(rebuild.first) THEN Refuse
     ELSE Becomes([NextSession EXCEPT !.summaries =
            Append(@, SessionSummary(This, Inspected, rebuild.snapshot, rebuild.first.warnings))])

-----------------------------------------------------------------------------
(* Last the changes; then the new file is made beside the old and put in its *)
(* place.                                                                    *)

Build ==
  LET changes == IF rebuild.opened THEN detector.rows ELSE {}
  IN /\ rebuild.pc = "session" /\ rebuild.todo = <<>>
     /\ IF RuntimeAccepted(rebuild.summaries, changes) /\ Validates(rebuild.records)
        THEN Becomes([rebuild EXCEPT !.pc = "staged", !.snapshot = changes])
        ELSE Refuse

Replace ==
  /\ rebuild.pc = "staged"
  /\ index' = Index(rebuild.records, rebuild.summaries, rebuild.snapshot)
  /\ rebuild' = Idle
  /\ UNCHANGED <<world, client, spent>>

Crash ==
  /\ rebuild.pc \notin {"idle", "refused"}
  /\ Becomes(Idle)

-----------------------------------------------------------------------------
(* list_sessions, list_session_anomalies and list_changes.                   *)

(* Every request opens the index that is in place then.                      *)
PageOf(kind, scope, limit, after) ==
  CASE kind = "sessions" -> SessionPage(index, limit, after)
    [] kind = "session-anomalies" -> SessionSignalPage(index, limit, after)
    [] kind = "changes" -> ChangePage(index, limit, scope, after)

KeyOf(kind, row) == IF kind = "changes" THEN ChangeKey(row) ELSE SessionKey(row)

(* The cursor of the next page: the last key of this one and the generation. *)
Answer(c) ==
  LET page == PageOf(c.kind, c.scope, c.limit, c.cursor)
  IN [c EXCEPT !.pc = IF page.more THEN "more" ELSE "complete",
               !.cursor = IF page.more THEN KeyOf(c.kind, Last(page.items)) ELSE <<>>,
               !.got = @ \o page.items,
               !.generation = index]

AnswerClient(c) ==
  /\ client' = c
  /\ UNCHANGED <<world, rebuild, index>>

List(kind, scope, limit) ==
  /\ client.pc \in {"idle", "complete", "stale"}
  /\ spent.listings < MaxListings
  /\ ~IsMissing(index)
  /\ scope = Anything \/ kind = "changes"
  /\ spent' = [spent EXCEPT !.listings = @ + 1]
  /\ AnswerClient(Answer([Client EXCEPT !.kind = kind, !.scope = scope, !.limit = limit]))

NextPage ==
  /\ client.pc = "more"
  /\ AnswerClient(IF client.generation = index THEN Answer(client)
                  ELSE [Client EXCEPT !.pc = "stale"])
  /\ UNCHANGED spent

-----------------------------------------------------------------------------
Profiles == {row.profile : row \in UNION Range(Found)}

(* The first part of a rebuild sees the files of the curator, the other part *)
(* what else there is: each changes when the next step may see it.           *)
World ==
  \/ /\ rebuild.pc \in {"idle", "knowledge"}
     /\ \E n \in DOMAIN Edits : Curate(n)
  \/ /\ rebuild.pc \notin {"idle", "refused", "knowledge"}
     /\ \/ \E s \in Session :
             \/ MakeDirectory(s) \/ StartSession(s) \/ AlterManifest(s) \/ ProcessSession(s)
             \/ \E status \in Outcomes : EndSession(s, status)
        \/ \E f \in DOMAIN Rewrites : \E i \in DOMAIN Rewrites[f] : AlterEvents(f, i)
        \/ CreateState \/ BootstrapState

RebuildStep ==
  \/ Rebuild \/ ReadKnowledge \/ Project \/ OpenChanges \/ ListSessions
  \/ ReadManifest \/ InspectFile \/ ReadAgain \/ StageFile \/ Summarise
  \/ Build \/ Replace \/ Crash

(* A request reads the index only, and that is replaced in one step: a       *)
(* request during a rebuild is one before it.                                *)
ClientStep ==
  /\ rebuild.pc \in {"idle", "refused"}
  /\ \/ \E kind \in {"sessions", "session-anomalies", "changes"}, scope \in {Anything} \cup Profiles,
           limit \in Limits : List(kind, scope, limit)
     \/ NextPage

Next == World \/ RebuildStep \/ ClientStep

Spec == Init /\ [][Next]_vars

-----------------------------------------------------------------------------
(* What a session's directory and its event files said at one moment, and    *)
(* what the collector guarantees of it: events of the session, numbered in   *)
(* order, no two with one id.                                                *)
Genuine(s, moment) ==
  LET all == FlattenSeq(moment[2])
  IN /\ moment[1].status \in FinalizedStatuses
     /\ \A i \in DOMAIN all : all[i].session = s /\ all[i].sequence = i - 1
     /\ \A i, j \in DOMAIN all : all[i].id = all[j].id => i = j

(* The sessions that have ended at first are as the collector wrote them.    *)
ASSUME FirstAreGenuine ==
  \A s \in Finished : Genuine(s, <<FirstManifest(s), ContentsOf(s, Recorded)>>)

(* Every summary in the index is of a manifest and of events that were on    *)
(* disk together at one moment, and these were a session's; whatever was     *)
(* altered while the manifest was read twice and each event file twice       *)
(* (EvidenceReader.iter_finalized_info, iter_events).                        *)
IndexedEvidenceIsOne ==
  \A row \in index.sessions : \E moment \in was[row.session] :
    /\ Genuine(row.session, moment)
    /\ row = SessionSummary(row.session, Identity(moment[1], moment[2]), moment[2],
                            moment[1].warnings)

(* What is about to be put in place has every session that had ended when    *)
(* the rebuild turned to the sessions (iter_finalized_info).                 *)
NothingFinishedIsMissed ==
  rebuild.pc = "staged" => rebuild.atStart \subseteq {r.session : r \in Range(rebuild.summaries)}

(* A rebuild is refused only for a cause: something was altered while it     *)
(* read, the curated files or a session were not in order before, a session  *)
(* had its directory and not yet its manifest or a clock that went back, or  *)
(* the detector's database was being made.  Sessions that start, go on and   *)
(* end are no cause, and what the rebuild has written itself is none.        *)
RefusalIsJustified ==
  [][rebuild'.pc = "refused" /\ rebuild.pc # "refused" =>
       \/ rebuild.disturbed
       \/ Projected(curated) = Refused
       \/ detector.stage = "empty"
       \/ \E s \in Session :
            \/ manifest[s] = NoManifest
            \/ /\ manifest[s].status \in FinalizedStatuses
               /\ \/ ~HasOrderedEnds(manifest[s])
                  \/ ~Genuine(s, <<manifest[s], ContentsOf(s, events)>>)]_vars

(* The rows of its index that a client asks for.                             *)
Wanted(c) ==
  CASE c.kind = "sessions" -> c.generation.sessions
    [] c.kind = "session-anomalies" -> {row \in c.generation.sessions : HasSignal(row)}
    [] c.kind = "changes" -> {row \in c.generation.changes : c.scope \in {Anything, row.profile}}

(* A client that has read to the last page has read one index, all of it     *)
(* that it asked for and in order, each row once; however often the index    *)
(* was replaced meanwhile (list_sessions, list_session_anomalies,            *)
(* list_changes and their cursors).                                          *)
PagesAreOneSnapshot ==
  client.pc = "complete" =>
    /\ Range(client.got) = Wanted(client)
    /\ \A i, j \in DOMAIN client.got :
         i < j => Before(KeyOf(client.kind, client.got[i]), KeyOf(client.kind, client.got[j]))

-----------------------------------------------------------------------------
(* What the curated files say of each thing, by its ref: words and evidence. *)
Said(ref, words, evidence) == [ref |-> ref, words |-> words, evidence |-> Range(evidence)]

Sayings(files) ==
  {Said(a.id, Range(a.route) \cup a.fields \cup a.query, a.evidence) :
     a \in Range(files[<<"actions", 0>>].items)}
  \cup {Said(p.id, Range(p.name) \cup Range(p.slug), p.evidence) :
          p \in Range(Items(files, "products"))}
  \cup (IF ~Present(files, "attributes") THEN {} ELSE
        {Said(a.product, Range(a.terms), a.evidence) : a \in Range(Items(files, "attributes"))})
  \cup (IF ~Present(files, "categories") THEN {} ELSE
        UNION {{Said(p, {c.name}, c.evidence) : p \in c.products} :
                 c \in Range(Items(files, "categories"))})
  \cup {Said(EndpointRef(e.pattern), e.keys \cup e.types, ObservationRefs(files, e.examples)) :
          e \in Range(Items(files, "endpoints"))}
  \cup (IF ~Present(files, "session-endpoints") THEN {} ELSE
        {Said(EndpointRef(e.pattern), e.methods \cup e.keys, e.evidence) :
           e \in Range(Items(files, "session-endpoints"))})

(* The projection that comes of the files now read, if one does.             *)
Completed ==
  IF rebuild.pc = "knowledge" /\ rebuild.want = <<>> THEN {Projected(rebuild.got)} \ {Refused}
  ELSE {}

(* Nothing that the accepted files say is lost: each word and each evidence  *)
(* is in the record of the thing it is said of, also where two data sets say *)
(* something of one thing (knowledge.py, _merge_endpoint_records).           *)
NothingSaidIsLost ==
  \A projection \in Completed : \A said \in Sayings(rebuild.got) :
    \E r \in Range(projection) :
      /\ r.ref = said.ref
      /\ {Lower(w) : w \in said.words} \subseteq WordsOf(r)
      /\ said.evidence \subseteq Range(r.evidence)

-----------------------------------------------------------------------------
(* The best way in which a record meets a text, and its place among all.     *)
Best(record, text) == CHOOSE t \in DOMAIN Tiers :
  Meets(record, text, Tiers[t]) /\ \A u \in 1 .. t - 1 : ~Meets(record, text, Tiers[u])

Place(record, text) ==
  <<Best(record, text), IF Best(record, text) = Len(Tiers) THEN Bm25(record, text) ELSE 0>>
    \o record.ref

(* The search answers with the first of all records that meet the text, in   *)
(* any way, each once and by the best way it does; although it looks for one *)
(* way after the other and for a limited number (KnowledgeIndex.search).     *)
SearchIsComplete ==
  \A projection \in Completed :
    LET found == Index(projection, <<>>, {})
    IN \A text \in Queries, limit \in 1 .. 3, kinds \in KindFilters :
         LET meeting == {r \in Range(found.records) :
                           /\ kinds = {} \/ r.kind \in kinds
                           /\ \E t \in Range(Tiers) : Meets(r, text, t)}
             first == First(Ordered(meeting, LAMBDA r, s : Before(Place(r, text), Place(s, text))),
                            limit)
         IN Search(found, text, limit, kinds) =
              [i \in DOMAIN first |-> Hit(first[i], Tiers[Best(first[i], text)])]

=============================================================================
