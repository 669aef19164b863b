-------------------------------- MODULE Analysis --------------------------------
(* From captured traffic to findings: traffic is captured, the ingest tool   *)
(* generates the data sets file by file and may be stopped between two       *)
(* files, a curator edits the operations and the catalogue of actions, and   *)
(* the change detector compiles its baseline by reading the files one after  *)
(* the other while all that goes on, then compares what sessions show.  The  *)
(* tool writes into the directory that it is told to (--out).  Its authors   *)
(* say that the generators never touch the committed files; modelled is the  *)
(* operator who renews those files in place by naming their directory.       *)
EXTENDS Ingest, Diff

CONSTANTS
  Entries,          \* the entries a capture may gain
  FirstCaptures,    \* the captures that the committed files were made from
  OperationEdits,   \* the operations and
  ActionEdits,      \*   the actions that the curator may add
  Sessions,         \* what sessions show: observations as the extraction reads them
  MaxEntries, MaxGenerations, MaxCompilations  \* bounds of the model

EveryEntry == Entries \cup UNION {Range(FirstCaptures[a]) : a \in DOMAIN FirstCaptures}

ASSUME AnalysisAssumption ==
  /\ PartSize \in Nat \ {0}
  /\ Aliases \in Seq(DOMAIN FirstCaptures)
  /\ FirstCaptures \in [DOMAIN FirstCaptures -> Seq(EveryEntry)]
  /\ \A entry \in EveryEntry : IsFiniteSet(entry.forms)
  /\ IsFiniteSet(Sessions)
  /\ \A o \in Sessions :
       o.what \in {"http", "form", "relation"} /\ {"what", "path"} \subseteq DOMAIN o

(* What the rules of the tool name is not what they have for a placeholder,  *)
(* and clean; POST is a method.  The paths of entries and operations are     *)
(* those of requests that were sent: what browsers send in a path has no     *)
(* braces.                                                                   *)
ASSUME PathsAssumption ==
  /\ {"{id}", "{style}", "{topic}"} \subseteq Placeholders
  /\ {"message", "splash", "style", "topic"} \cap Placeholders = {}
  /\ {"{id}", "{style}", "{topic}", "message", "splash", "style", "topic"} \cap Unclean = {}
  /\ "POST" \notin Garbled
  /\ \A entry \in EveryEntry :
       /\ entry.path \in Seq(STRING) /\ ~IsTemplate(entry.path)
       /\ \A form \in entry.forms : form.action \in Seq(STRING)
  /\ \A op \in OperationEdits :
       op.path \in Seq(STRING) /\ ~IsTemplate(op.path) /\ op.count \in Nat

VARIABLES
  captures,   \* the entries of each capture
  files,      \* name -> content
  writing,    \* what the ingest tool has still to write
  reader,     \* the compilation under way
  last,       \* of the last accepted compilation, its profile and what it shows
  versions,   \* history: the event data sets that were generated
  spent       \* generations and compilations so far

vars == <<captures, files, writing, reader, last, versions, spent>>

Versions == <<"schema", "normalization", "extraction", "redaction", "rules">>

Idle == [pc |-> "idle", want |-> <<>>, got |-> <<>>, contract |-> Refused]

Stored(old, writes) ==
  With(old, [f \in {w.file : w \in Range(writes)} |->
               (CHOOSE w \in Range(writes) : w.file = f).content])

OperationsFile == <<"operations", 0>>
CatalogFile == <<"catalog", 0>>

NoEdits ==
  [f \in {OperationsFile, CatalogFile} |->
     IF f = OperationsFile THEN [posts |-> 0, items |-> <<>>] ELSE [count |-> 0, items |-> <<>>]]

Init ==
  /\ captures = FirstCaptures
  /\ files = Stored(NoEdits, Generation(FirstCaptures))
  /\ writing = <<>>
  /\ reader = Idle
  /\ last = [profile |-> <<>>, facts |-> {}]
  /\ versions = {ApplicationEvents(FirstCaptures)}
  /\ spent = [generations |-> 0, compilations |-> 0]

-----------------------------------------------------------------------------
(* Captures, the ingest tool and the curator.                                *)

Captured(alias, entry) ==
  /\ writing = <<>>
  /\ Len(Gathered(captures)) < MaxEntries
  /\ spent.generations < MaxGenerations
  /\ captures' = [captures EXCEPT ![alias] = Append(@, entry)]
  /\ UNCHANGED <<files, writing, reader, last, versions, spent>>

Generate ==
  /\ writing = <<>>
  /\ spent.generations < MaxGenerations
  /\ writing' = Generation(captures)
  /\ versions' = versions \cup {ApplicationEvents(captures)}
  /\ spent' = [spent EXCEPT !.generations = @ + 1]
  /\ UNCHANGED <<captures, files, reader, last>>

WriteFile ==
  /\ writing # <<>>
  /\ files' = Stored(files, <<Head(writing)>>)
  /\ writing' = Tail(writing)
  /\ UNCHANGED <<captures, reader, last, versions, spent>>

Stop ==
  /\ writing # <<>>
  /\ writing' = <<>>
  /\ UNCHANGED <<captures, files, reader, last, versions, spent>>

EditOperations(op) ==
  /\ op \notin Range(files[OperationsFile].items)
  /\ files' = [files EXCEPT ![OperationsFile] =
                 [posts |-> @.posts + op.count, items |-> Append(@.items, op)]]
  /\ UNCHANGED <<captures, writing, reader, last, versions, spent>>

EditCatalog(action) ==
  /\ action \notin Range(files[CatalogFile].items)
  /\ files' = [files EXCEPT ![CatalogFile] =
                 [count |-> @.count + 1, items |-> Append(@.items, action)]]
  /\ UNCHANGED <<captures, writing, reader, last, versions, spent>>

-----------------------------------------------------------------------------
(* The compilation: an index names the files to be read next.                *)

Compile ==
  /\ reader.pc = "idle"
  /\ spent.compilations < MaxCompilations
  /\ reader' = [Idle EXCEPT !.pc = "reading",
       !.want = << <<"endpoints", 0>>, <<"events", 0>>, <<"forms", 0>>, OperationsFile, CatalogFile>>]
  /\ spent' = [spent EXCEPT !.compilations = @ + 1]
  /\ UNCHANGED <<captures, files, writing, last, versions>>

IsIndex(file) == file \in {<<d, 0>> : d \in {"endpoints", "events", "forms"}}

ReadFile ==
  LET file == Head(reader.want)
      more == IF IsIndex(file)
              THEN [i \in DOMAIN files[file].parts |-> PartFile(file[1], files[file], i)]
              ELSE <<>>
  IN /\ reader.pc = "reading"
     /\ reader.want # <<>>
     /\ reader' = [reader EXCEPT !.want = more \o Tail(@),
                     !.got = With(@, [f \in {file} \cap DOMAIN files |-> files[f]])]
     /\ UNCHANGED <<captures, files, writing, last, versions, spent>>

Conclude ==
  /\ reader.pc = "reading"
  /\ reader.want = <<>>
  /\ reader' = [reader EXCEPT !.pc = "compiled", !.contract = Compiled(reader.got)]
  /\ UNCHANGED <<captures, files, writing, last, versions, spent>>

FactsOf(contract, shown) ==
  UNION {Facts(contract, o) : o \in {o \in shown : Observable(contract, o)}}

Compare ==
  /\ reader.pc = "compiled"
  /\ reader' = Idle
  /\ last' = IF reader.contract.ok
             THEN [profile |-> Profile(reader.contract, Versions),
                   facts |-> FactsOf(reader.contract, Sessions)]
             ELSE last
  /\ UNCHANGED <<captures, files, writing, versions, spent>>

Next ==
  \/ \E i \in DOMAIN Aliases, entry \in Entries : Captured(Aliases[i], entry)
  \/ Generate \/ WriteFile \/ Stop
  \/ \E op \in OperationEdits : EditOperations(op)
  \/ \E action \in ActionEdits : EditCatalog(action)
  \/ Compile \/ ReadFile \/ Conclude \/ Compare

Spec == Init /\ [][Next]_vars

-----------------------------------------------------------------------------
Accepted == reader.pc = "compiled" /\ reader.contract.ok

HttpOf(event, body) ==
  [what |-> "http", method |-> event.method, path |-> event.path, query |-> KeySet(event.query),
   status |-> event.status, body |-> body, id |-> "session"]

(* What a session shows that does again what the files read record.          *)
Recorded ==
  LET events == Loaded(reader.got, "events")
      forms == Loaded(reader.got, "forms")
      operations == Range(reader.got[OperationsFile].items)
  IN {HttpOf(events[i], Unknown) : i \in DOMAIN events}
     \cup {[what |-> "form", method |-> forms[i].method, path |-> forms[i].action,
            fields |-> KeySet(forms[i].fields), id |-> "session"] : i \in DOMAIN forms}
     \cup (UNION {{HttpOf([method |-> "POST", path |-> op.path, query |-> op.query, status |-> s],
                          KeySet(op.body)) : s \in Range(op.observations)} : op \in operations})
     \cup {[what |-> "relation", method |-> a.method, path |-> a.path, action |-> a.path,
            correlation |-> "strong", id |-> "session"] : a \in Range(reader.got[CatalogFile].items)}

(* What the files record is not new to a contract compiled from them: each   *)
(* event, form, operation and action, seen again in a session, is known,     *)
(* whatever placeholders its path fits and whichever other records name it.  *)
(* Otherwise a curated change would be reported again by every session.      *)
RecordedIsKnown ==
  Accepted =>
    \A o \in Recorded :
      /\ Observable(reader.contract, o)
      /\ \A f \in Facts(reader.contract, o) : ~Promotable(f)

SameCensus(c, d) ==
  /\ c.count = d.count /\ c.methods = d.methods /\ c.statuses = d.statuses
  /\ KeySet(c.keys) = KeySet(d.keys)

(* What a contract says of endpoints is never torn: what the events that an  *)
(* accepted compilation read say of the endpoints in one part of the census  *)
(* is what one generation's events said of them all, and each event is of an *)
(* endpoint of the census, though the tool may have stopped or gone on       *)
(* between any two of the files.  Nothing compares the forms with the rest:  *)
(* they may be of another generation.                                        *)
TornIsRefused ==
  Accepted =>
    LET index == reader.got[<<"endpoints", 0>>]
        events == Loaded(reader.got, "events")
    IN /\ \A i \in DOMAIN index.parts : \E v \in versions :
            \A c \in Range(reader.got[PartFile("endpoints", index, i)]) :
              SameCensus(Census(events, c.pattern), Census(v, c.pattern))
       /\ \A i \in DOMAIN events :
            EndpointPattern(events[i].path) \in Patterns(Loaded(reader.got, "endpoints"))

(* Traffic that the tool can describe: what the compiler refuses of a single *)
(* record is not in it, and no rule takes more than one segment.             *)
Describable(entry) ==
  /\ IsStatus(entry.status) /\ IsMethod(entry.method) /\ IsPathname(entry.path)
  /\ \A i \in DOMAIN PatternRules :
       RuleFits(PatternRules[i], entry.path) => Len(entry.path) = Len(PatternRules[i].pattern)
  /\ \A form \in entry.forms :
       IsMethod(form.method) /\ form.place = "origin" /\ IsPathname(form.action)

InOrder(op) ==
  op.observations # <<>> /\ (\A s \in Range(op.observations) : IsStatus(s))
    /\ op.count = Len(op.observations) /\ IsPathname(op.path)

(* Data sets the tool wrote to the end, from such traffic, are accepted: the *)
(* rules it groups paths by and the matching of the compiler agree, and so   *)
(* do the two sides of the index.                                            *)

GeneratedCompiles ==
  (/\ reader.pc = "compiled"
   /\ \A w \in Range(Generation(captures)) :
        w.file \in DOMAIN reader.got /\ reader.got[w.file] = w.content
   /\ ApplicationEvents(captures) # <<>> /\ Forms(captures) # <<>>
   /\ \A i \in DOMAIN Gathered(captures) : Describable(Gathered(captures)[i])
   /\ \A op \in Range(reader.got[OperationsFile].items) : InOrder(op)
   /\ reader.got[CatalogFile] = NoEdits[CatalogFile])
  => reader.contract.ok

(* Both: of the endpoints the tool wrote the compiler accepts what is whole, *)
(* and only that (_partition_manifest, _endpoint_families).                  *)
WholeOrRefused == TornIsRefused /\ GeneratedCompiles

(* In whatever order a session's events come, there is one finding for each  *)
(* change, with the evidence of every fact of it, and no fact that is to be  *)
(* promoted lacks a rule, which would end the detector's run.                *)
FindingsAreComplete ==
  Accepted =>
    LET shown == {o \in Sessions : Observable(reader.contract, o)}
        facts == {f \in FactsOf(reader.contract, shown) : Promotable(f)}
        all == [id \in {ChangeId(f) : f \in facts} |->
                  {f[5] : f \in {f \in facts : ChangeId(f) = id}}]
    IN \A found \in {[o \in shown |-> SetToSeq(Facts(reader.contract, o))]} :
         \A order \in SetToSeqs(shown) :
           Applied(FlattenSeq([i \in DOMAIN order |-> found[order[i]]]))
             = [ok |-> TRUE, findings |-> all]

(* Two contracts under one profile find the same: a session whose analysis   *)
(* under that profile is recorded need not be analysed again.                *)
SameProfileFindsTheSame ==
  Accepted /\ last.profile = Profile(reader.contract, Versions)
    => last.facts = FactsOf(reader.contract, Sessions)

=============================================================================
