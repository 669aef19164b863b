--------------------------------- MODULE Ingest ---------------------------------
(* The data sets that the change detector's baseline is made from, as they   *)
(* are generated from captured traffic: ingest/har.py, ingest/datasets.py    *)
(* and the tool ingest/__main__.py.                                          *)
(*                                                                           *)
(* An entry of a capture says whose host it went to, whether it is a static  *)
(* resource, its method, path, query keys and status, and the forms of its   *)
(* page.  Bodies, times, sizes and provenance are left out, and with them    *)
(* the data sets that the detector does not read.                            *)
EXTENDS Paths, SequencesExt

CONSTANTS Aliases,   \* names of captures, in the order they are read
          PartSize

(* How often the items at some places have each value.                       *)
Tally(items, places, Of(_)) ==
  [v \in {Of(items[i]) : i \in places} |-> Cardinality({i \in places : Of(items[i]) = v})]

-----------------------------------------------------------------------------
(* The entries of all captures, one capture after the other.                 *)

Gathered(captures) == FlattenSeq([i \in DOMAIN Aliases |-> captures[Aliases[i]]])

IsApplicationEvent(entry) == entry.own /\ ~entry.static

Event(entry) ==
  [path |-> entry.path, method |-> entry.method, query |-> entry.query, status |-> entry.status]

ApplicationEvents(captures) ==
  FoldLeft(LAMBDA events, entry :
             IF IsApplicationEvent(entry) THEN Append(events, Event(entry)) ELSE events,
           <<>>, Gathered(captures))

-----------------------------------------------------------------------------
(* The endpoint census.                                                      *)

(* _ENDPOINT_PATTERN_RULES: a placeholder is one segment, or all that        *)
(* follows.  The literal segments before the last are left out.              *)
PatternRules ==
  << [pattern |-> <<"message", "{id}">>, deep |-> TRUE],
     [pattern |-> <<"splash", "{id}", "style", "{style}">>, deep |-> FALSE],
     [pattern |-> <<"splash", "{id}">>, deep |-> FALSE],
     [pattern |-> <<"topic", "{topic}">>, deep |-> TRUE] >>

RuleFits(rule, path) ==
  \/ Fits(rule.pattern, path)
  \/ rule.deep /\ Len(path) > Len(rule.pattern) /\ IsPrefix(Front(rule.pattern), path)

EndpointPattern(path) ==
  LET fitting == {i \in DOMAIN PatternRules : RuleFits(PatternRules[i], path)}
  IN IF fitting = {} THEN path
     ELSE PatternRules[CHOOSE i \in fitting : \A j \in fitting : i <= j].pattern

Census(events, pattern) ==
  LET mine == {i \in DOMAIN events : EndpointPattern(events[i].path) = pattern}
  IN [pattern |-> pattern, count |-> Cardinality(mine),
      methods |-> Tally(events, mine, LAMBDA e : e.method),
      statuses |-> Tally(events, mine, LAMBDA e : e.status),
      keys |-> UNION {events[i].query : i \in mine}]

Endpoints(captures) ==
  LET events == ApplicationEvents(captures)
      patterns == SetToSeq({EndpointPattern(events[i].path) : i \in DOMAIN events})
  IN [i \in DOMAIN patterns |-> Census(events, patterns[i])]

(* The forms of the captured pages, each once.                               *)
Forms(captures) ==
  LET pages == {e \in Range(Gathered(captures)) : e.own /\ e.html /\ e.status = 200}
  IN SetToSeq(UNION {page.forms : page \in pages})

-----------------------------------------------------------------------------
(* write_dataset: parts of PartSize records, then the index.  A part that    *)
(* the data set no longer needs stays.                                       *)

Parts(records) == (Len(records) + PartSize - 1) \div PartSize

Chunk(records, n) ==
  SubSeq(records, (n - 1) * PartSize + 1,
         IF n * PartSize < Len(records) THEN n * PartSize ELSE Len(records))

Index(records) ==
  [total |-> Len(records),
   parts |-> [n \in 1 .. Parts(records) |->
                [file |-> n, records |-> Len(Chunk(records, n)), offset |-> (n - 1) * PartSize]]]

Write(file, content) == [file |-> file, content |-> content]

Written(dataset, records) ==
  Append([n \in 1 .. Parts(records) |-> Write(<<dataset, n>>, Chunk(records, n))],
         Write(<<dataset, 0>>, Index(records)))

(* One run of the tool over the data sets of the baseline.                   *)
Generation(captures) ==
  Written("events", ApplicationEvents(captures))
    \o Written("endpoints", Endpoints(captures))
    \o Written("forms", Forms(captures))

=============================================================================
