------------------------------- MODULE Requests -------------------------------
(* What the collector remembers of requests under way and what it records of *)
(* them: NetworkNormalizer (collector/network.py), as operators on the       *)
(* dictionaries `requests`, keyed by target and request id, and `sockets`,   *)
(* keyed by request id alone.                                                *)
(*                                                                           *)
(* A place is where a request goes: whether the host is first-party, a path, *)
(* and whether what is recorded of it is clear to the extraction.  Headers,  *)
(* times, queries and fingerprints are left out; the response that may be    *)
(* captured is one with status 200, HTML and a capture route, which `page`   *)
(* says.                                                                     *)
EXTENDS Targets, Sequences

None == "none"

Entry(what, key, state) ==
  [what |-> what, target |-> key[1], id |-> key[2], index |-> state.index, path |-> state.path,
   from |-> {}, status |-> FALSE, clear |-> TRUE]

-----------------------------------------------------------------------------
(* requestWillBeSent.  `from` holds the place of the redirect response, if  *)
(* there is one.                                                             *)

(* Mutant: a redirect keeps the index of the request it follows.             *)
RedirectIndexKept(requests, key, from) ==
  IF key \in DOMAIN requests THEN requests[key].index ELSE 0

RedirectIndex(requests, key, from) ==
  LET before == IF key \in DOMAIN requests THEN requests[key].index ELSE 0
  IN IF from = {} THEN before ELSE before + 1

Sent(requests, key, place, from) ==
  [index |-> RedirectIndex(requests, key, from), path |-> place.path, page |-> FALSE]

RequestState(requests, key, place, from) ==
  IF place.own THEN Put(requests, key, Sent(requests, key, place, from))
               ELSE Without(requests, {key})

RequestRecords(requests, key, place, from) ==
  IF ~place.own THEN <<>>
  ELSE <<[Entry("request", key, Sent(requests, key, place, from)) EXCEPT
            !.from = {x.path : x \in {x \in from : x.own}},
            !.status = from # {}, !.clear = place.clear]>>

-----------------------------------------------------------------------------
(* responseReceived.                                                         *)

ResponseState(requests, key, place, page) ==
  IF key \notin DOMAIN requests THEN requests
  ELSE IF place.own THEN [requests EXCEPT ![key].page = page]
  ELSE Without(requests, {key})

ResponseRecords(requests, key, place) ==
  IF key \in DOMAIN requests /\ place.own
  THEN <<[Entry("response", key, [requests[key] EXCEPT !.path = place.path])
            EXCEPT !.clear = place.clear]>>
  ELSE <<>>

-----------------------------------------------------------------------------
(* loadingFinished and loadingFailed; before the former is recorded, the     *)
(* body of a page that may be captured is asked for.                         *)

EndState(requests, key, how) == Without(requests, {key})

Capturable(requests, key, how) ==
  how = "finished" /\ key \in DOMAIN requests /\ requests[key].page

EndRecords(requests, key, how, body) ==
  IF key \notin DOMAIN requests THEN <<>>
  ELSE (IF body THEN <<Entry("body", key, requests[key])>> ELSE <<>>)
         \o <<Entry(how, key, requests[key])>>

-----------------------------------------------------------------------------
(* Web sockets.                                                              *)

SocketRecord(what, target, id) == [what |-> what, target |-> target, id |-> id]

SocketState(sockets, what, id, place) ==
  CASE what = "created" /\ place.own -> sockets \cup {id}
    [] what = "frame" -> sockets
    [] OTHER -> sockets \ {id}

SocketRecords(sockets, what, target, id, place) ==
  IF (what = "created" /\ place.own) \/ (what # "created" /\ id \in sockets)
  THEN <<SocketRecord(what, target, id)>>
  ELSE <<>>

=============================================================================
