-------------------------------- MODULE Knowledge --------------------------------
(* Endpoints, operations, forms and wiki topics of curated knowledge as      *)
(* records (readmodel/extended.py), and the projection of all knowledge      *)
(* (readmodel/knowledge.py).  A hashed ref stands for what it is a hash of.  *)
(* That the counts of one endpoint's methods add up is taken to be right.    *)
EXTENDS Catalogue

CONSTANT Refused    \* a projection that the code refuses to make

-----------------------------------------------------------------------------
(* Captures, and the observations that cite them.                            *)

(* A capture and its source manifest say the same of one file.  The index of *)
(* the captures and the manifests, a file each, are one file here: nothing   *)
(* that is read of them is read twice.                                       *)
CapturesAccepted(files) ==
  LET document == files[<<"captures", 0>>]
  IN /\ document # Missing
     /\ Keyed(document.captures, LAMBDA c : c.name)
     /\ Keyed(document.captures, LAMBDA c : c.source)
     /\ Keyed(document.manifests, LAMBDA m : m.name)
     /\ Keyed(document.manifests, LAMBDA m : m.source)
     /\ Range(document.captures) \subseteq Range(document.manifests)

(* An observation is an entry of a capture or an event of a session.         *)
Observation == [by : {"capture", "session"}, of : Int, at : Int]

Capture == [name : Int, source : Int]

Citable(files, observation) ==
  observation.by = "capture" =>
    \E c \in Range(files[<<"captures", 0>>].captures) : c.name = observation.of

ObservationRef(files, observation) ==
  LET captures == files[<<"captures", 0>>].captures
  IN IF observation.by = "capture"
     THEN <<captures[SelectInSeq(captures, LAMBDA c : c.name = observation.of)].source,
            observation.at>>
     ELSE <<observation.of, observation.at>>

ObservationRefs(files, observations) ==
  [i \in DOMAIN observations |-> ObservationRef(files, observations[i])]

Cited(files, observations) ==
  observations # <<>> /\ \A i \in DOMAIN observations : Citable(files, observations[i])

-----------------------------------------------------------------------------
(* Endpoints: the census of the captures, and what sessions add to it.       *)

EndpointItem ==
  [pattern : Seq(Int), methods : Words, keys : Words, types : Words, examples : Seq(Observation)]

SessionEndpointItem ==
  [pattern : Seq(Int), methods : Words, keys : Words, types : Seq(Word), session : Int,
   evidence : Seq(Source), class : Int, known : BOOLEAN]

EndpointRef(pattern) == <<KindNumber("endpoint")>> \o pattern

EndpointRecord(item, evidence, terms) ==
  Record(EndpointRef(item.pattern), "endpoint", item.pattern,
         << <<Tag("endpoint")>> \o item.pattern, item.pattern>>
           \o [i \in DOMAIN Numbers(item.methods) |-> <<Numbers(item.methods)[i]>> \o item.pattern],
         item.pattern \o Numbers(item.methods) \o Numbers(item.keys) \o terms, evidence)

EndpointsAccepted(files) ==
  /\ Whole(files, "endpoints")
  /\ PartsDiffer(files, "endpoints")
  /\ Keyed(Items(files, "endpoints"), LAMBDA e : e.pattern)
  /\ \A item \in Range(Items(files, "endpoints")) :
       item.methods # {} /\ Cited(files, item.examples)

CensusRecords(files) ==
  LET items == Items(files, "endpoints")
  IN [i \in DOMAIN items |->
        EndpointRecord(items[i], ObservationRefs(files, items[i].examples), Numbers(items[i].types))]

Classes(known) == IF known THEN {KnownEndpoint} ELSE {NewEndpoint, ErrorSurface}

(* A record's confidence and counts are left out: what is checked of them is *)
(* checked within the record.                                                *)
SessionEndpointsAccepted(files) ==
  Present(files, "session-endpoints") =>
    LET index == IndexOf(files, "session-endpoints")
        items == Items(files, "session-endpoints")
    IN /\ Whole(files, "session-endpoints")
       /\ HasOffsets(index.parts)
       /\ PartsDiffer(files, "session-endpoints")
       /\ Keyed(items, LAMBDA e : e.pattern)
       /\ \A item \in Range(items) :
            /\ item.session = index.session
            /\ item.methods # {} /\ item.evidence # <<>>
            /\ \A i \in DOMAIN item.evidence : item.evidence[i][1] = index.source
            /\ item.class \in Classes(item.known)

SessionRecords(files) ==
  LET items == Items(files, "session-endpoints")
  IN IF ~Present(files, "session-endpoints") THEN <<>>
     ELSE [i \in DOMAIN items |->
             EndpointRecord(items[i], items[i].evidence, Append(items[i].types, items[i].class))]

(* Mutant: what is in the census already is kept as it is.                   *)
MergedIntoFirst(existing, candidate) == existing

Merged(existing, candidate) ==
  Record(existing.ref, "endpoint", existing.title, existing.aliases \o candidate.aliases,
         Unrepeated(existing.body \o candidate.body), existing.evidence \o candidate.evidence)

MergeEndpointRecords(census, added) ==
  LET twin(c) == SelectInSeq(added, LAMBDA a : a.ref = c.ref)
      isNew(a) == \A i \in DOMAIN census : census[i].ref # a.ref
      new == FlattenSeq([i \in DOMAIN added |-> IF isNew(added[i]) THEN <<added[i]>> ELSE <<>>])
  IN [i \in DOMAIN census |->
        IF twin(census[i]) = 0 THEN census[i]
        ELSE Merged(census[i], added[twin(census[i])])] \o new

EndpointRecords(files) == MergeEndpointRecords(CensusRecords(files), SessionRecords(files))

-----------------------------------------------------------------------------
(* An operation's ref is its path and keys, not its number.                  *)
OperationItem ==
  [number : Int, path : Seq(Int), query : Words, body : Words, count : Int,
   observations : Seq(Observation)]

OperationsAccepted(files) ==
  LET operations == files[<<"operations", 0>>]
      items == operations.items
  IN /\ operations # Missing
     /\ Keyed(items, LAMBDA o : o.number)
     /\ \A item \in Range(items) :
          Len(item.observations) = item.count /\ Cited(files, item.observations)
     /\ operations.posts = FoldLeft(LAMBDA sum, o : sum + o.count, 0, items)

OperationRecord(files, item) ==
  Record(<<KindNumber("operation")>> \o item.path \o <<0>> \o Numbers(item.query) \o <<0>>
           \o Numbers(item.body), "operation",
         <<Post>> \o item.path \o <<item.number>>,
         << <<item.number>>, <<Tag("operation"), item.number>>, <<Post>> \o item.path>>,
         <<Post>> \o item.path \o Numbers(item.query) \o Numbers(item.body),
         ObservationRefs(files, item.observations))

OperationRecords(files) ==
  LET items == files[<<"operations", 0>>].items
  IN [i \in DOMAIN items |-> OperationRecord(files, items[i])]

FormItem ==
  [id : Int, method : Int, path : Seq(Int), query : Words, fields : Words, relative : BOOLEAN,
   observed : Seq(Observation)]

FormsAccepted(files) ==
  /\ Whole(files, "forms")
  /\ HasOffsets(IndexOf(files, "forms").parts)
  /\ PartsDiffer(files, "forms")
  /\ Keyed(Items(files, "forms"), LAMBDA f : f.id)
  /\ \A item \in Range(Items(files, "forms")) :
       item.relative /\ Cited(files, item.observed)

FormRecord(files, item) ==
  Record(<<KindNumber("form"), item.id>>, "form", <<item.method>> \o item.path,
         << <<item.id>>, <<Tag("form"), item.id>>, <<item.method>> \o item.path>>,
         <<item.method>> \o item.path \o Numbers(item.query) \o Numbers(item.fields),
         ObservationRefs(files, item.observed))

FormRecords(files) ==
  LET items == Items(files, "forms") IN [i \in DOMAIN items |-> FormRecord(files, items[i])]

TopicItem ==
  [topic : Seq(Word), text : Seq(Word), related : Seq(Word), source : Observation]

TopicsAccepted(files) ==
  /\ Whole(files, "topics")
  /\ PartsDiffer(files, "topics")
  /\ Keyed(Items(files, "topics"), LAMBDA t : t.topic)
  /\ \A item \in Range(Items(files, "topics")) : Citable(files, item.source)

TopicRecord(files, item) ==
  Record(<<KindNumber("wiki_topic")>> \o item.topic, "wiki_topic", item.topic,
         <<item.topic, <<Tag("wiki_topic")>> \o item.topic>>,
         item.topic \o item.text \o item.related, <<ObservationRef(files, item.source)>>)

TopicRecords(files) ==
  LET items == Items(files, "topics") IN [i \in DOMAIN items |-> TopicRecord(files, items[i])]

-----------------------------------------------------------------------------
(* What the files hold: one list of items, or an index and parts of them.    *)
ItemOf(dataset) ==
  CASE dataset = "actions" -> ActionItem
    [] dataset = "products" -> ProductItem
    [] dataset = "attributes" -> AttributeItem
    [] dataset = "categories" -> CategoryItem
    [] dataset = "entities" -> EntityItem
    [] dataset = "endpoints" -> EndpointItem
    [] dataset = "session-endpoints" -> SessionEndpointItem
    [] dataset = "operations" -> OperationItem
    [] dataset = "forms" -> FormItem
    [] dataset = "topics" -> TopicItem

InParts ==
  {"products", "attributes", "categories", "endpoints", "session-endpoints", "forms", "topics"}

FirstFile(dataset) ==
  CASE dataset \in {"actions", "entities"} -> [count : Int, items : Seq(ItemOf(dataset))]
    [] dataset = "captures" -> [captures : Seq(Capture), manifests : Seq(Capture)]
    [] dataset = "operations" -> [posts : Int, items : Seq(OperationItem)]
    [] dataset = "session-endpoints" ->
         [parts : Seq(PartEntry), total : Int, session : Int, source : Int]
    [] OTHER -> [parts : Seq(PartEntry), total : Int]

(* The content of a file among files of some names.                          *)
Fits(file, content, names) ==
  LET dataset == file[1]
  IN \/ content = Missing
     \/ /\ file[2] = 0
        /\ content \in FirstFile(dataset)
        /\ dataset \in InParts =>
             \A i \in DOMAIN content.parts : <<dataset, content.parts[i].file>> \in names
     \/ /\ file[2] # 0 /\ dataset \in InParts
        /\ content \in [part : Int, offset : Int, items : Seq(ItemOf(dataset))]

-----------------------------------------------------------------------------
(* project_curated_knowledge                                                 *)

Accepted(files) ==
  /\ ActionsAccepted(files) /\ ProductsAccepted(files) /\ EntitiesAccepted(files)
  /\ CapturesAccepted(files)
  /\ EndpointsAccepted(files) /\ SessionEndpointsAccepted(files)
  /\ OperationsAccepted(files) /\ FormsAccepted(files) /\ TopicsAccepted(files)

AllRecords(files) ==
  ActionRecords(files) \o ProductRecords(files) \o EntityRecords(files) \o EndpointRecords(files)
    \o OperationRecords(files) \o FormRecords(files) \o TopicRecords(files)

InOrder(records) == Ordered(Range(records), LAMBDA r, s : Before(r.ref, s.ref))

Projected(files) ==
  IF Accepted(files) /\ Keyed(AllRecords(files), LAMBDA r : r.ref)
  THEN InOrder(AllRecords(files)) ELSE Refused

=============================================================================
