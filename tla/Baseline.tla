-------------------------------- MODULE Baseline --------------------------------
(* The contract that the change detector compares sessions with, and which   *)
(* curated files are refused: changes/baseline.py.  A state of the files is  *)
(* a function from their names to what they hold: the parts and the index of *)
(* the three partitioned data sets, the operations, the catalogue of actions.*)
(* The checks of JSON types are left out.                                    *)
EXTENDS Paths, SequencesExt

SumOver(f) == FoldFunction(+, 0, f)

Image(records, Of(_)) == {Of(records[i]) : i \in DOMAIN records}

-----------------------------------------------------------------------------
(* _load_partitioned_json and _load_partitioned_jsonl.                       *)

PartFile(dataset, index, i) == <<dataset, index.parts[i].file>>

(* Records declared before the i-th part.                                    *)
Offset(index, i) ==
  FoldLeft(LAMBDA sum, part : sum + part.records, 0, SubSeq(index.parts, 1, i - 1))

Whole(files, dataset) ==
  LET index == files[<<dataset, 0>>]
      parts == DOMAIN index.parts
  IN /\ parts # {}
     /\ \A i, j \in parts : index.parts[i].file = index.parts[j].file => i = j
     /\ \A i \in parts :
          /\ PartFile(dataset, index, i) \in DOMAIN files
          /\ Len(files[PartFile(dataset, index, i)]) = index.parts[i].records
          /\ index.parts[i].offset = Offset(index, i)
     /\ index.total = Offset(index, Len(index.parts) + 1)

Loaded(files, dataset) ==
  LET index == files[<<dataset, 0>>]
  IN FlattenSeq([i \in DOMAIN index.parts |-> files[PartFile(dataset, index, i)]])

IsStatus(status) == status \in 100 .. 599

-----------------------------------------------------------------------------
(* Endpoints: the census must say what the application events say.           *)

Patterns(census) == Image(census, LAMBDA c : c.pattern)

CensusAddsUp(census) ==
  /\ \A i, j \in DOMAIN census : census[i].pattern = census[j].pattern => i = j
  /\ \A i \in DOMAIN census :
       /\ IsPathname(census[i].pattern)
       /\ census[i].count > 0
       /\ SumOver(census[i].methods) = census[i].count
       /\ SumOver(census[i].statuses) = census[i].count
       /\ \A m \in DOMAIN census[i].methods : IsMethod(m)
       /\ \A s \in DOMAIN census[i].statuses : IsStatus(s)

MapsUniquely(patterns, event) == Unique(patterns, event.path)

(* The events of a pattern, by their places.                                 *)
EventsOf(events, patterns, p) ==
  {i \in DOMAIN events : Canonical(patterns, events[i].path) = p}

Methods(events, seen) == {events[i].method : i \in seen}

Statuses(events, seen) == {events[i].status : i \in seen}

(* Mutant: only the totals are compared.                                     *)
TotalsAgree(c, events, seen) == Cardinality(seen) = c.count

Agrees(c, events, seen) ==
  /\ Cardinality(seen) = c.count
  /\ DOMAIN c.methods = Methods(events, seen)
  /\ \A m \in DOMAIN c.methods : c.methods[m] = Cardinality({i \in seen : events[i].method = m})
  /\ DOMAIN c.statuses = Statuses(events, seen)
  /\ \A s \in DOMAIN c.statuses : c.statuses[s] = Cardinality({i \in seen : events[i].status = s})
  /\ KeySet(c.keys) = UNION {KeySet(events[i].query) : i \in seen}

EventsAgree(census, events) ==
  LET patterns == Patterns(census)
  IN /\ \A i \in DOMAIN events :
          /\ IsPathname(events[i].path) /\ IsMethod(events[i].method)
          /\ IsStatus(events[i].status)
          /\ MapsUniquely(patterns, events[i])
     /\ \A i \in DOMAIN census :
          Agrees(census[i], events, EventsOf(events, patterns, census[i].pattern))

Variant(keys, status) == [keys |-> keys, status |-> status]

(* The families: for each pattern, for each method, the variants seen.       *)
Families(census, events) ==
  [p \in Patterns(census) |->
     LET seen == EventsOf(events, Patterns(census), p)
     IN [m \in Methods(events, seen) |->
           {Variant(KeySet(events[i].query), events[i].status) :
              i \in {i \in seen : events[i].method = m}}]]

-----------------------------------------------------------------------------
(* Forms and operations, their paths in the patterns of the census.          *)

(* Where a form's action leads: to a path of the origin, or it names a       *)
(* scheme, a host or a fragment.                                             *)
FormAccepted(patterns, form) ==
  /\ IsMethod(form.method)
  /\ form.place = "origin"
  /\ IsPathname(form.action)
  /\ ~Ambiguous(patterns, form.action)

(* Mutant: the path of the form is kept.                                     *)
SignatureAsRead(patterns, form) ==
  [method |-> form.method, path |-> form.action, fields |-> KeySet(form.fields)]

Signature(patterns, form) ==
  [method |-> form.method, path |-> Canonical(patterns, form.action),
   fields |-> KeySet(form.fields)]

(* The observations of an operation are the statuses of its answers.         *)
OperationAccepted(patterns, op) ==
  /\ op.observations # <<>>
  /\ \A s \in Range(op.observations) : IsStatus(s)
  /\ op.count = Len(op.observations)
  /\ IsPathname(op.path)
  /\ ~Ambiguous(patterns, op.path)

PostsAddUp(operations) ==
  operations.posts = FoldLeft(LAMBDA sum, op : sum + op.count, 0, operations.items)

Operation(patterns, op) ==
  [method |-> "POST", path |-> Canonical(patterns, op.path),
   query |-> KeySet(op.query), body |-> KeySet(op.body), statuses |-> Range(op.observations)]

(* _merge_operation_endpoints.                                               *)
Merged(families, operations) ==
  [p \in DOMAIN families \cup {op.path : op \in operations} |->
     LET old == IF p \in DOMAIN families THEN families[p] ELSE <<>>
         new == {op \in operations : op.path = p}
     IN [m \in DOMAIN old \cup {op.method : op \in new} |->
           (IF m \in DOMAIN old THEN old[m] ELSE {})
             \cup UNION {{Variant(op.query, s) : s \in op.statuses} :
                           op \in {op \in new : op.method = m}}]]

-----------------------------------------------------------------------------
(* Actions: each must be one of the operations.  The catalogue counts them,  *)
(* and an action the answers it had of each status.                          *)

CatalogAddsUp(catalog) ==
  /\ catalog.count = Len(catalog.items)
  /\ \A i, j \in DOMAIN catalog.items : catalog.items[i].id = catalog.items[j].id => i = j

Matching(operations, method, path) ==
  {op \in operations : op.method = method /\ op.path = path}

ActionAccepted(endpoints, operations, action) ==
  LET patterns == DOMAIN endpoints
      path == Canonical(patterns, action.path)
      ops == Matching(operations, action.method, path)
  IN /\ action.observed
     /\ IsMethod(action.method)
     /\ DOMAIN action.statuses # {}
     /\ \A s \in DOMAIN action.statuses : IsStatus(s) /\ action.statuses[s] > 0
     /\ action.count = SumOver(action.statuses)
     /\ IsPathname(action.path)
     /\ Unique(patterns, action.path)
     /\ action.method \in DOMAIN endpoints[path]
     /\ ops # {}
     /\ {KeySet(q) : q \in action.queries} \subseteq {op.query : op \in ops}
     /\ KeySet(action.fields) \subseteq UNION {op.body : op \in ops}
     /\ DOMAIN action.statuses \subseteq UNION {op.statuses : op \in ops}

Action(endpoints, action) ==
  [id |-> action.id, method |-> action.method,
   path |-> Canonical(DOMAIN endpoints, action.path), fields |-> KeySet(action.fields),
   queries |-> {KeySet(q) : q \in action.queries}, statuses |-> DOMAIN action.statuses]

-----------------------------------------------------------------------------
(* BaselineCompiler.compile: the contract, or a refusal.                     *)

Refused == [ok |-> FALSE]

Compiled(files) ==
  LET census == Loaded(files, "endpoints")
      events == Loaded(files, "events")
      forms == Loaded(files, "forms")
      patterns == Patterns(census)
      listed == files[<<"operations", 0>>].items
      operations == Image(listed, LAMBDA op : Operation(patterns, op))
      endpoints == Merged(Families(census, events), operations)
      actions == files[<<"catalog", 0>>].items
  IN IF /\ \A d \in {"endpoints", "events", "forms"} : Whole(files, d)
        /\ CensusAddsUp(census)
        /\ EventsAgree(census, events)
        /\ \A i \in DOMAIN forms : FormAccepted(patterns, forms[i])
        /\ \A i \in DOMAIN listed : OperationAccepted(patterns, listed[i])
        /\ PostsAddUp(files[<<"operations", 0>>])
        /\ CatalogAddsUp(files[<<"catalog", 0>>])
        /\ \A i \in DOMAIN actions : ActionAccepted(endpoints, operations, actions[i])
     THEN [ok |-> TRUE,
           endpoints |-> endpoints,
           forms |-> Image(forms, LAMBDA f : Signature(patterns, f)),
           operations |-> operations,
           actions |-> Image(actions, LAMBDA a : Action(endpoints, a))]
     ELSE Refused

(* build_analysis_profile: what identifies an analysis.  The detector keeps  *)
(* its checkpoints and changes by it.  Mutant: the operations are not named. *)
ProfileButOperations(contract, versions) ==
  <<contract.endpoints, contract.forms, contract.actions, versions>>

Profile(contract, versions) ==
  <<contract.endpoints, contract.forms, contract.operations, contract.actions, versions>>

=============================================================================
