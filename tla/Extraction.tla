------------------------------ MODULE Extraction ------------------------------
(* What the change detector makes of the records of one session, and which   *)
(* sequences of records it refuses: ObservationExtractor.extract             *)
(* (changes/extract.py).  A refusal ends the detector's run.                 *)
(*                                                                           *)
(* The observations of requests are in the order of the requests, a status   *)
(* and the record it was taken from in `status`.  `refused` is the record    *)
(* that the refusal names, or 0.                                             *)
(*                                                                           *)
(* A record says by `clear` whether what it quotes can be read.  It cannot   *)
(* if a path is no pathname of an origin (the collector records "//x" as it  *)
(* comes), if two patterns of the catalogue match it equally well, or if a   *)
(* body was kept whose content type the redaction policy drops.  Methods and *)
(* queries always can, in the form in which the collector records them.      *)
EXTENDS Requests, SequencesExt

CONSTANT SourceLimit  \* max_pending_relation_sources

NotYet == "none"

Nothing == [refused |-> 0, http |-> <<>>, known |-> <<>>, actions |-> {}, related |-> <<>>]

Refused(sofar, n) == [sofar EXCEPT !.refused = n]

(* The transport identity of a request.  There is no target in it.           *)
Transport(r) == <<r.id, r.index>>

(* Relation sources: the actions and requests that correlations may name.    *)
WithinLimit(sofar) ==
  Len(sofar.http) + Cardinality(sofar.actions) <= SourceLimit

Checked(sofar, n) == IF WithinLimit(sofar) THEN sofar ELSE Refused(sofar, n)

-----------------------------------------------------------------------------
(* _attach_redirect_status: the response of the previous hop comes with the  *)
(* request that follows it.  A path that is the request's can be read.       *)

Previous(r) == <<r.id, r.index - 1>>

Redirected(r) == r.from # {} \/ r.status

RedirectAgrees(sofar, r) ==
  /\ r.from # {} /\ r.status
  /\ r.index > 0
  /\ Previous(r) \in DOMAIN sofar.known
  /\ LET before == sofar.http[sofar.known[Previous(r)]]
     IN before.path \in r.from /\ before.status \in {NotYet, "redirect"}

RedirectAttached(sofar, r, n) ==
  IF ~Redirected(r) THEN sofar
  ELSE LET before == sofar.http[sofar.known[Previous(r)]]
       IN [sofar EXCEPT !.http[sofar.known[Previous(r)]] =
             [before EXCEPT !.status = "redirect",
                            !.answer = IF before.answer = 0 THEN n ELSE before.answer]]

RequestTaken(sofar, r, n) ==
  IF \/ ~r.clear \/ Transport(r) \in DOMAIN sofar.known
     \/ Redirected(r) /\ ~RedirectAgrees(sofar, r)
  THEN Refused(sofar, n)
  ELSE LET known == RedirectAttached(sofar, r, n)
       IN Checked([known EXCEPT
            !.http = Append(@, [path |-> r.path, request |-> n, answer |-> 0, status |-> NotYet]),
            !.known = Put(@, Transport(r), Len(known.http) + 1)], n)

-----------------------------------------------------------------------------
ResponseTaken(sofar, r, n) ==
  LET at == sofar.known[Transport(r)]
  IN IF Transport(r) \in DOMAIN sofar.known /\ sofar.http[at].answer = 0
          /\ r.clear /\ sofar.http[at].path = r.path
     THEN [sofar EXCEPT !.http[at] = [@ EXCEPT !.status = "response", !.answer = n]]
     ELSE Refused(sofar, n)

ActionTaken(sofar, r, n) ==
  IF r.clear THEN Checked([sofar EXCEPT !.actions = @ \cup {n}], n) ELSE Refused(sofar, n)

(* A correlation names an action and a request taken before it.              *)
LinkTaken(sofar, r, n) ==
  IF /\ r.action \in sofar.actions
     /\ \E k \in DOMAIN sofar.http : sofar.http[k].request = r.request
  THEN [sofar EXCEPT !.related = Append(@, <<r.action, r.request>>)]
  ELSE Refused(sofar, n)

Taken(sofar, r, n) ==
  IF sofar.refused # 0 THEN sofar
  ELSE CASE r.what = "request"  -> RequestTaken(sofar, r, n)
         [] r.what = "response" -> ResponseTaken(sofar, r, n)
         [] r.what = "action"   -> ActionTaken(sofar, r, n)
         [] r.what = "link"     -> LinkTaken(sofar, r, n)
         [] OTHER -> sofar

Extracted(records) ==
  FoldLeftDomain(LAMBDA sofar, n : Taken(sofar, records[n], n), Nothing, records)

=============================================================================
