------------------------------ MODULE MCAnalysis ------------------------------
EXTENDS Analysis

CONSTANTS a, b

MCAliases == <<a, b>>
MCPlaceholders == {"{id}", "{style}", "{topic}"}
MCUnclean == {"x#y"}
MCGarbled == {"P OST"}

(* "i[0]" and "i[1]" are one key, "secret" is dropped.                       *)
MCNormalKey == [k \in {"f", "g", "i[0]", "i[1]", "secret"} |->
  CASE k \in {"f", "g"} -> {k} [] k = "secret" -> {} [] OTHER -> {"i[n]"}]

E(method, path, query, status) ==
  [own |-> TRUE, static |-> FALSE, html |-> FALSE, method |-> method, path |-> path,
   query |-> query, status |-> status, forms |-> {}]

Form(action, place, fields) ==
  [method |-> "POST", action |-> action, place |-> place, fields |-> fields]

Page == [E("GET", <<"page">>, {}, 200) EXCEPT !.html = TRUE, !.forms =
  {Form(<<"topic", "x">>, "origin", {"f", "i[0]", "secret"})}]

Look == E("GET", <<"topic", "x">>, {"i[0]"}, 200)

Post == E("POST", <<"topic", "y">>, {"i[1]"}, 302)

MCFirstCaptures == (a :> <<Page>>) @@ (b :> <<[Page EXCEPT !.own = FALSE], Look, Post>>)

(* A page with another form, a path that a rule takes more than a segment    *)
(* of, and what is refused: two slashes at the start of a path, a fragment.  *)
MCEntries ==
  {Look, Post,
   [Look EXCEPT !.html = TRUE, !.forms = {Form(<<"buy">>, "origin", {"g"})}],
   E("GET", <<"message", "m", "n">>, {}, 200),
   E("GET", <<"", "page">>, {}, 200),
   [Page EXCEPT !.forms = {Form(<<"buy">>, "fragment", {"g"})}]}

MCOperationEdits ==
  {[path |-> <<"topic", "x">>, query |-> {"i[1]"}, body |-> {"f"}, observations |-> <<302>>,
    count |-> 1],
   [path |-> <<"buy">>, query |-> {}, body |-> {"f", "secret"}, observations |-> <<302>>, count |-> 1]}

MCActionEdits ==
  {[id |-> "buy", observed |-> TRUE, method |-> "POST", path |-> <<"buy">>, fields |-> {"f"},
    queries |-> {{}}, statuses |-> 302 :> 2, count |-> 2]}

Http(method, path, query, body, status, id) ==
  [what |-> "http", method |-> method, path |-> path, query |-> query, body |-> body,
   status |-> status, id |-> id]

MCSessions ==
  {Http("POST", <<"topic", "x">>, {"g", "i[n]"}, {"f"}, 302, "e1"),
   Http("POST", <<"topic", "z">>, {"g", "i[n]"}, {"f", "g"}, Unknown, "e2"),
   [what |-> "form", method |-> "POST", path |-> <<"topic", "z">>, fields |-> {"f", "g", "i[n]"},
    id |-> "e3"],
   [what |-> "relation", method |-> "POST", path |-> <<"buy">>, action |-> <<"topic", "x">>,
    correlation |-> "probable", id |-> "e4"]}
===============================================================================
