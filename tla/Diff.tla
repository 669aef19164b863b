---------------------------------- MODULE Diff ----------------------------------
(* What a session's observations say that the contract does not: SemanticDiff *)
(* (changes/diff.py), and the findings made of it: RuleEngine                *)
(* (changes/rules).  Observations carry normal forms; an id stands for the   *)
(* events an observation was made from.                                      *)
EXTENDS Baseline

CONSTANT Unknown  \* a status not answered, or the keys of a body not kept

SafeMethods == {"GET", "HEAD", "OPTIONS", "TRACE"}

(* A fact: its kind and state, what it is about, what is new, the evidence.  *)
Fact(state, kind, subject, delta, id) == <<kind, state, subject, delta, id>>

Novel(kind, subject, delta, id) == Fact("novel", kind, subject, delta, id)
Known(kind, subject, id) == Fact("known", kind, subject, {}, id)

Smallest(sets) == {x \in sets : \A y \in sets : Cardinality(x) <= Cardinality(y)}

-----------------------------------------------------------------------------
(* An observation as the extraction makes it, with the patterns of the       *)
(* contract.                                                                 *)

PathsOf(o) == {o.path} \cup (IF o.what = "relation" THEN {o.action} \ {Unknown} ELSE {})

Observable(contract, o) ==
  /\ IsMethod(o.method)
  /\ \A p \in PathsOf(o) : IsPathname(p) /\ ~Ambiguous(DOMAIN contract.endpoints, p)

Observed(contract, o) ==
  LET Place(p) == Canonical(DOMAIN contract.endpoints, p)
      placed == [o EXCEPT !.path = Place(@)]
  IN IF o.what = "relation" /\ o.action # Unknown THEN [placed EXCEPT !.action = Place(@)]
     ELSE placed

-----------------------------------------------------------------------------
(* Requests against endpoints and operations.                                *)

OfMethod(contract, o) == contract.endpoints[o.path][o.method]

AddedKeys(contract, o) == o.query \ UNION {v.keys : v \in OfMethod(contract, o)}

AddedStatus(contract, o) == {o.status} \ ({v.status : v \in OfMethod(contract, o)} \cup {Unknown})

EndpointFacts(contract, o) ==
  LET subject == <<o.method, o.path>>
      new == {Novel("endpoint.query_key_added", subject, k, o.id) :
                k \in {AddedKeys(contract, o)} \ {{}}}
             \cup {Novel("endpoint.status_added", subject, s, o.id) : s \in AddedStatus(contract, o)}
  IN IF o.path \notin DOMAIN contract.endpoints
     THEN {Novel("endpoint.new", <<o.path>>, {}, o.id)}
     ELSE IF o.method \notin DOMAIN contract.endpoints[o.path]
     THEN {Novel("endpoint.method_added", <<o.path>>, o.method, o.id)}
     ELSE IF new # {} THEN new ELSE {Known("endpoint.known", subject, o.id)}

(* What is added to the signatures that the observation extends: one that    *)
(* differs least, if there is only one.                                      *)
Additions(contract, o) ==
  LET extended == {op \in Matching(contract.operations, o.method, o.path) :
                     op.query \subseteq o.query /\ op.body \subseteq o.body}
      Size(op) == Cardinality(o.query \ op.query) + Cardinality(o.body \ op.body)
  IN {op \in extended : \A other \in extended : Size(op) <= Size(other)}

OperationFacts(contract, o) ==
  LET subject == <<o.method, o.path>>
      ops == Matching(contract.operations, o.method, o.path)
      closest == Additions(contract, o)
      Added(op, kind, keys) == {Novel(kind, subject, k, o.id) : k \in {keys} \ {{}}}
  IN IF o.method \in SafeMethods THEN {}
     ELSE IF o.body = Unknown THEN {Fact("indeterminate", "operation.indeterminate", subject, {}, o.id)}
     ELSE IF \E op \in ops : op.query = o.query /\ op.body = o.body
     THEN {Known("operation.known", subject, o.id)}
     ELSE IF Cardinality(closest) = 1
     THEN UNION {Added(op, "operation.query_key_added", o.query \ op.query)
                   \cup Added(op, "operation.body_key_added", o.body \ op.body) : op \in closest}
     ELSE {Novel("operation.new_signature", subject, <<o.query, o.body>>, o.id)}

-----------------------------------------------------------------------------
(* Forms, and which request an action led to.                                *)

FormFacts(contract, o) ==
  LET subject == <<o.method, o.path>>
      known == {f.fields : f \in {f \in contract.forms : f.method = o.method /\ f.path = o.path}}
      rest == {o.fields \ f : f \in {f \in known : f \subseteq o.fields}}
  IN IF \E f \in known : o.fields \subseteq f THEN {Known("form.known", subject, o.id)}
     ELSE IF Cardinality(Smallest(rest)) = 1
     THEN {Novel("form.field_added", subject, added, o.id) : added \in Smallest(rest)}
     ELSE {Novel("form.signature_new", subject, o.fields, o.id)}

RelationFacts(contract, o) ==
  LET subject == <<o.method, o.path>>
      actions == {<<a.method, a.path>> : a \in contract.actions}
      new == IF o.method \notin SafeMethods /\ subject \notin actions
             THEN {Novel("action_http.request_family_new", subject, o.correlation, o.id)} ELSE {}
      conflict == IF o.action \notin {Unknown, o.path}
                  THEN {Fact("conflict", "action_http.path_conflict", <<subject, o.action>>,
                             o.correlation, o.id)} ELSE {}
  IN IF o.correlation = "temporal-only"
     THEN {Fact("indeterminate", "relation.temporal_only", <<subject, o.action>>, {}, o.id)}
     ELSE IF new \cup conflict # {} THEN new \cup conflict
     ELSE {Known("relation.known", <<subject, o.action>>, o.id)}

Facts(contract, raw) ==
  LET o == Observed(contract, raw)
  IN CASE o.what = "http" -> EndpointFacts(contract, o) \cup OperationFacts(contract, o)
       [] o.what = "form" -> FormFacts(contract, o)
       [] o.what = "relation" -> RelationFacts(contract, o)

-----------------------------------------------------------------------------
(* RuleEngine.apply: a finding for each identity, with all its evidence.     *)

RuleKinds ==
  {"endpoint.new", "endpoint.method_added", "endpoint.query_key_added", "endpoint.status_added",
   "form.signature_new", "form.field_added",
   "operation.new_signature", "operation.query_key_added", "operation.body_key_added",
   "action_http.request_family_new", "action_http.path_conflict"}

Promotable(fact) == fact[2] \in {"novel", "conflict"}

ChangeId(fact) == SubSeq(fact, 1, 4)

(* A dictionary with what is assigned to some of its keys.                   *)
With(old, new) ==
  [key \in DOMAIN old \cup DOMAIN new |-> IF key \in DOMAIN new THEN new[key] ELSE old[key]]

(* Mutant: the finding keeps the evidence it was made from.                  *)
FoundOnce(findings, fact) ==
  IF ChangeId(fact) \in DOMAIN findings THEN findings
  ELSE With(findings, [id \in {ChangeId(fact)} |-> {fact[5]}])

Found(findings, fact) ==
  LET before == IF ChangeId(fact) \in DOMAIN findings THEN findings[ChangeId(fact)] ELSE {}
  IN With(findings, [id \in {ChangeId(fact)} |-> before \cup {fact[5]}])

Applied(facts) ==
  [ok |-> \A f \in Range(facts) : Promotable(f) => f[1] \in RuleKinds,
   findings |-> FoldLeft(LAMBDA findings, f :
                           IF Promotable(f) THEN Found(findings, f) ELSE findings, <<>>, facts)]

=============================================================================
