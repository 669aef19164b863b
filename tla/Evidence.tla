-------------------------------- MODULE Evidence --------------------------------
(* The reader of finished sessions: sessions/evidence.py, and the summary    *)
(* that readmodel/runtime.py makes of one.                                   *)
(*                                                                           *)
(* A manifest says status, start, end, warnings and event files; an event    *)
(* says its session, number, id and what it is.  A hash stands for what it   *)
(* is a hash of.  Schemas, sizes, encodings and paths are left out.          *)
EXTENDS Integers, FiniteSets, SequencesExt

CONSTANT MemoryLimit    \* _IN_MEMORY_EVENT_IDS

FinalizedStatuses == {"completed", "cancelled"}

(* Mutant: a cancelled session counts as unfinished.                         *)
IsFinalizedByEnd(manifest) == manifest.status = "completed"

IsFinalized(manifest) == manifest.status \in FinalizedStatuses

-----------------------------------------------------------------------------
(* _UniqueEventIds: ids in memory up to the limit, then in a table.          *)

NoIds == [memory |-> {}, spilled |-> FALSE, table |-> {}]

Spill(ids) == [memory |-> {}, spilled |-> TRUE, table |-> ids.memory]

IsNew(ids, id) == id \notin IF ids.spilled THEN ids.table ELSE ids.memory

InTable(ids, id) == [ids EXCEPT !.table = @ \cup {id}]

Added(ids, id) ==
  IF ids.spilled THEN InTable(ids, id)
  ELSE IF id \in ids.memory \/ Cardinality(ids.memory) < MemoryLimit
       THEN [ids EXCEPT !.memory = @ \cup {id}]
       ELSE InTable(Spill(ids), id)

-----------------------------------------------------------------------------
(* The events of a session are numbered from 0 through all its files.        *)

Unread == [valid |-> TRUE, next |-> 0, ids |-> NoIds]

ValidateEvent(session, state, event) ==
  [valid |-> state.valid /\ event.session = session /\ event.sequence = state.next
               /\ IsNew(state.ids, event.id),
   next |-> state.next + 1,
   ids |-> Added(state.ids, event.id)]

(* The reading of one file, from where the files before it left off.         *)
ReadEvents(session, state, content) ==
  FoldLeft(LAMBDA st, event : ValidateEvent(session, st, event), state, content)

Identity(manifest, contents) == [manifest |-> manifest, contents |-> contents]

SameManifest(identity, manifest) == identity.manifest = manifest

(* Mutant: only the manifest is compared.                                    *)
SameEvidenceByManifest(identity, manifest, contents) == identity.manifest = manifest

SameEvidence(identity, manifest, contents) == identity = Identity(manifest, contents)

-----------------------------------------------------------------------------
(* _session_summary, over the events of the snapshot.                        *)

Kept(contents, Wanted(_)) == SelectSeq(FlattenSeq(contents), Wanted)

Ids(contents, what) == {e.id : e \in Range(Kept(contents, LAMBDA e : e.what = what))}

Linked(contents) == {e.of : e \in Range(Kept(contents, LAMBDA e : e.what = "link"))}

HasOrderedEnds(manifest) == manifest.started <= manifest.ended

SessionSummary(session, identity, snapshot, warnings) ==
  [session |-> session, identity |-> identity,
   started |-> identity.manifest.started, status |-> identity.manifest.status,
   events |-> Len(FlattenSeq(snapshot)),
   actions |-> Cardinality(Ids(snapshot, "action")),
   requests |-> Len(Kept(snapshot, LAMBDA e : e.what = "request")),
   links |-> Len(Kept(snapshot, LAMBDA e : e.what = "link")),
   uncorrelated |-> Cardinality(Ids(snapshot, "action") \ Linked(snapshot)),
   warnings |-> warnings,
   anomalies |-> Len(Kept(snapshot, LAMBDA e : e.what = "failed"))]

=============================================================================
