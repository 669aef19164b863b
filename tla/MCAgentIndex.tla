------------------------------ MODULE MCAgentIndex ------------------------------
EXTENDS AgentIndex

-----------------------------------------------------------------------------
(* Sessions 1 and 3 start at one time, session 1 has two event files.        *)

MCFilesOf == <<<<"1a", "1b">>, <<"2a">>, <<"3a">>>>
MCTimes == <<{<<5, 6>>}, {<<4, 5>>, <<8, 7>>}, {<<5, 7>>}>>

Ev(session, sequence, id, what, of) ==
  [session |-> session, sequence |-> sequence, id |-> id, what |-> what, of |-> of]

MCRecorded ==
  ("1a" :> <<Ev(1, 0, 10, "action", 0), Ev(1, 1, 11, "request", 0)>>)
    @@ ("1b" :> <<Ev(1, 2, 12, "link", 10)>>)
    @@ ("2a" :> <<Ev(2, 0, 20, "failed", 0)>>)
    @@ ("3a" :> <<Ev(3, 0, 30, "action", 0)>>)

(* Another event of the same number, and an event of an id used before.      *)
MCRewrites ==
  ("1a" :> <<<<Ev(1, 0, 10, "action", 0), Ev(1, 1, 13, "failed", 0)>>>>)
    @@ ("1b" :> <<<<Ev(1, 2, 14, "request", 0)>>, <<Ev(1, 2, 10, "link", 10)>>>>)

R(profile, change) == [profile |-> profile, change |-> change]

MCFound == <<{R(1, 1), R(2, 1), R(1, 2)}, {}, {}>>

-----------------------------------------------------------------------------
(* A few things that share words, spellings, refs and evidence.              *)

Get == 31
Had == 90
Seen == 91

Part(dataset, n, part, offset, items) ==
  <<dataset, n>> :> [part |-> part, offset |-> offset, items |-> items]

IndexFile(dataset, parts, total) ==
  <<dataset, 0>> :> [parts |-> parts, total |-> total]

P(file, offset, count) == [file |-> file, offset |-> offset, count |-> count]

Product(n, slug, name, evidence) ==
  [id |-> <<7, n>>, slug |-> slug, name |-> name, numbers |-> <<n>>, categories |-> <<>>,
   evidence |-> evidence]

Entry(n) == [by |-> "capture", of |-> 60, at |-> n]

Sugar == Product(1, <<45>>, <<-45>>, <<<<Had, 1>>>>)
Salt == Product(2, <<46>>, <<46, -47>>, <<<<Had, 2>>>>)

CategoryFile(products) ==
  Part("categories", 1, 0, 0,
       <<[id |-> 1, name |-> 48, products |-> products, documented |-> TRUE,
          evidence |-> <<<<Had, 3>>>>]>>)

MCFirstCurated ==
  (<<"actions", 0>> :> [count |-> 1, items |->
     <<[id |-> <<1, 1>>, method |-> Post, route |-> <<41, 42>>, fields |-> {44}, query |-> {43},
        evidence |-> <<<<Had, 4>>>>, observed |-> TRUE]>>])
  @@ IndexFile("products", <<P(1, 0, 1), P(2, 1, 1)>>, 2)
  @@ Part("products", 1, 0, 0, <<Sugar>>) @@ Part("products", 2, 1, 1, <<Salt>>)
  @@ IndexFile("attributes", <<P(1, 0, 1)>>, 1)
  @@ Part("attributes", 1, 0, 0,
          <<[product |-> <<7, 1>>, terms |-> <<49, 45>>, documented |-> TRUE,
             evidence |-> <<<<Had, 3>>, <<Had, 5>>>>]>>)
  @@ IndexFile("categories", <<P(1, 0, 1)>>, 1)
  @@ CategoryFile({<<7, 1>>})
  @@ (<<"entities", 0>> :> [count |-> 1, items |->
        <<[id |-> <<2, 1>>, kind |-> "city", name |-> <<45>>, number |-> 1, subtype |-> <<>>,
           evidence |-> <<>>]>>])
  @@ (<<"captures", 0>> :> [captures |-> <<[name |-> 60, source |-> Had]>>,
                            manifests |-> <<[name |-> 60, source |-> Had]>>])
  @@ IndexFile("endpoints", <<P(1, 0, 1)>>, 1)
  @@ Part("endpoints", 1, 0, 0,
          <<[pattern |-> <<Slash, 41, 42>>, methods |-> {Get}, keys |-> {43}, types |-> {50},
             examples |-> <<Entry(6)>>]>>)
  @@ (<<"session-endpoints", 0>> :> [parts |-> <<P(1, 0, 2)>>, total |-> 2, session |-> 61,
                                     source |-> Seen])
  @@ Part("session-endpoints", 1, 0, 0,
          <<[pattern |-> <<Slash, 41, 42>>, methods |-> {Post}, keys |-> {51}, types |-> <<50>>,
             session |-> 61, evidence |-> <<<<Seen, 1>>>>, class |-> KnownEndpoint, known |-> TRUE],
            [pattern |-> <<Slash, 45>>, methods |-> {Get}, keys |-> {}, types |-> <<>>,
             session |-> 61, evidence |-> <<<<Seen, 2>>>>, class |-> NewEndpoint, known |-> FALSE]>>)
  @@ (<<"operations", 0>> :> [posts |-> 1, items |->
        <<[number |-> 71, path |-> <<Slash, 41, 42>>, query |-> {43}, body |-> {44}, count |-> 1,
           observations |-> <<Entry(7)>>]>>])
  @@ IndexFile("forms", <<P(1, 0, 1)>>, 1)
  @@ Part("forms", 1, 0, 0,
          <<[id |-> 81, method |-> Post, path |-> <<Slash, 41, 42>>, query |-> {}, fields |-> {44},
             relative |-> TRUE, observed |-> <<Entry(8)>>]>>)
  @@ IndexFile("topics", <<P(1, 0, 1)>>, 1)
  @@ Part("topics", 1, 0, 0,
          <<[topic |-> <<45>>, text |-> <<46, 45>>, related |-> <<47>>,
             source |-> [by |-> "session", of |-> Seen, at |-> 3]]>>)

(* A part loses its product; a category names a product that is not there,   *)
(* and gains one that is; the attributes are taken away.                     *)
MCEdits ==
  << Part("products", 2, 1, 1, <<>>),
     CategoryFile({<<7, 1>>, <<7, 3>>}),
     CategoryFile({<<7, 1>>, <<7, 2>>}),
     <<"attributes", 0>> :> Missing >>

MCQueries == {<<45>>, <<41, 42>>, <<-45>>, <<46, 47>>, <<7, 1>>, <<Slash, 41, 42>>, <<Slash>>}
MCKindFilters == {{}, {"product", "endpoint"}}

(* The shorter document comes first.                                         *)
MCBm25(record, text) == Len(record.body)
================================================================================
