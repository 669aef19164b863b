----------------------------- MODULE Correlator -----------------------------
(***************************************************************************)
(* The online correlation of user actions with HTTP requests               *)
(* (ActionHttpCorrelator).  Observations reach it in the order of their    *)
(* session sequence numbers; it remembers the recent ones and links a      *)
(* request to the best action that explains it.                            *)
(*                                                                         *)
(* An observation is named by its place in `observed', the history of what *)
(* the pipeline appended; its number, and the order of the two deques, are *)
(* that place.  The numbers the links take in between are only counted.    *)
(* Times are whole milliseconds of the collector's monotonic clock, read when    *)
(* the observation is made, so they never decrease.                        *)
(***************************************************************************)
EXTENDS Integers, FiniteSets, Sequences

CONSTANTS
  None,           \* a field the observation does not have
  Targets, Frames, Paths, Methods,
  Actions,        \* the actions that may happen: their time counts from the
  Requests,       \* observation before them; and the requests
  Window,         \* window_seconds, in milliseconds
  MaxRecent,      \* max_recent
  MaxEvents       \* bound: observations in a session

Action ==
  [kind : {"action"}, target : Targets \cup {None}, frame : Frames \cup {None},
   path : Paths \cup {None}, method : Methods \cup {None},
   trusted : BOOLEAN, submit : BOOLEAN, time : Nat]

Request ==
  [kind : {"request"}, target : Targets \cup {None}, frame : Frames \cup {None},
   path : Paths \cup {None}, method : Methods \cup {None}, gesture : BOOLEAN, time : Nat]

ASSUME CorrelatorAssumption ==
  /\ Actions \subseteq Action
  /\ Requests \subseteq Request
  /\ Window \in Nat \ {0}
  /\ MaxRecent \in Nat \ {0}

VARIABLES
  observed,   \* every action and request appended so far, with its time
  last,       \* _last_source_sequence
  newest,     \* _max_seen_time
  actions,    \* _actions: places of the actions remembered
  requests,   \* _requests: places of the requests remembered, none of them linked
  links,      \* the links emitted
  emitted     \* how many sequence numbers they took

vars == <<observed, last, newest, actions, requests, links, emitted>>

-----------------------------------------------------------------------------
(* How well an action explains a request.                                  *)

Delta(a, r) == IF a.time <= r.time THEN r.time - a.time ELSE a.time - r.time

Comparable(a, r) ==
  /\ a.target # None
  /\ a.target = r.target
  /\ a.frame = None \/ r.frame = None \/ a.frame = r.frame
  /\ Delta(a, r) <= Window

SameFrame(a, r) == a.frame # None /\ a.frame = r.frame
PathMatch(a, r) == a.path # None /\ a.path = r.path
MethodMatch(a, r) == a.method # None /\ a.method = r.method
Structural(a, r) == a.submit /\ PathMatch(a, r) /\ MethodMatch(a, r)
Causal(a, r) == PathMatch(a, r) \/ r.gesture

Proximity(d) == IF d <= 150 THEN 30 ELSE IF d <= 500 THEN 22 ELSE IF d <= 1500 THEN 10 ELSE 0
Points(holds, weight) == IF holds THEN weight ELSE 0

\* The sum of the signals, in hundredths.
Sum(a, r) ==
  Points(SameFrame(a, r), 25) + Proximity(Delta(a, r)) + Points(PathMatch(a, r), 25)
    + Points(MethodMatch(a, r), 15) + Points(r.gesture, 10) + Points(a.trusted, 5)
    + Points(Structural(a, r), 5)
Score(a, r) == IF Sum(a, r) > 100 THEN 100 ELSE Sum(a, r)

\* The code adds binary doubles.  Of all sums only one ends on the wrong side
\* of a threshold: a trusted action's 0.05 comes after 0.35, which yields
\* 0.39999999999999997.
Reaches(a, r, threshold) ==
  Score(a, r) >= threshold /\ ~ (Score(a, r) = 40 /\ a.trusted)

Status(a, r) ==
  IF ~ Comparable(a, r) THEN "none"
  ELSE IF Causal(a, r) /\ Reaches(a, r, 80) THEN "strong"
  ELSE IF Causal(a, r) /\ Reaches(a, r, 60) THEN "probable"
  ELSE IF Reaches(a, r, 40) THEN "temporal-only"
  ELSE "none"

\* Equal sums of different signals may differ in their last bit, either way.
SameSignals(a, b, r) ==
  /\ Proximity(Delta(a, r)) = Proximity(Delta(b, r))
  /\ SameFrame(a, r) <=> SameFrame(b, r)
  /\ PathMatch(a, r) <=> PathMatch(b, r)
  /\ MethodMatch(a, r) <=> MethodMatch(b, r)
  /\ a.trusted <=> b.trusted
  /\ Structural(a, r) <=> Structural(b, r)
Better(a, b, r) ==
  \/ Score(a, r) > Score(b, r)
  \/ SameSignals(a, b, r) /\ Delta(a, r) < Delta(b, r)

\* The actions of A that may explain request r.
Candidates(log, A, r) == {a \in A : Status(log[a], log[r]) # "none"}

(* Mutant: any explanation will do.                                        *)
BestIsAny(log, A, r) == Candidates(log, A, r)

\* The best of them: ties are left to the random ends of the event ids.
Best(log, A, r) ==
  {a \in Candidates(log, A, r) :
     \A b \in Candidates(log, A, r) : ~ Better(log[b], log[a], log[r])}

-----------------------------------------------------------------------------
(* What is remembered.                                                     *)

(* Mutant: an event is dropped a moment early.                             *)
PrunedEarly(log, S, now) == {p \in S : \E q \in S : q <= p /\ log[q].time > now - Window}

\* Older events are dropped from the front while they are out of the window.
Pruned(log, S, now) == {p \in S : \E q \in S : q <= p /\ log[q].time >= now - Window}

\* At most MaxRecent are kept: the oldest goes.
Oldest(S) == CHOOSE p \in S : \A q \in S : p <= q
Remembered(S, n) ==
  IF Cardinality(S) < MaxRecent THEN S \cup {n} ELSE (S \ {Oldest(S)}) \cup {n}

Init ==
  /\ observed = <<>>
  /\ last = 0
  /\ newest = 0
  /\ actions = {}
  /\ requests = {}
  /\ links = {}
  /\ emitted = 0

(* Mutant: a second observation is handled as the first.                   *)
FreshAlways(n) == TRUE

Fresh(n) == n > last

Link(a, r) == [action |-> a, request |-> r]

Emit(new) ==
  /\ links' = links \cup new
  /\ emitted' = emitted + Cardinality(new)

\* observe, of the action at n: every remembered request this action is the
\* best explanation of is linked and forgotten.
ObserveAction(n, now) ==
  LET A == Remembered(Pruned(observed', actions, now), n)
      R == Pruned(observed', requests, now)
  IN  /\ actions' = A
      /\ \E linked \in SUBSET {r \in R : n \in Best(observed', A, r)} :
           /\ {r \in R : Best(observed', A, r) = {n}} \subseteq linked
           /\ requests' = R \ linked
           /\ Emit({Link(n, r) : r \in linked})

\* observe, of the request at n: it is linked to the best action remembered,
\* or remembered until one comes.
ObserveRequest(n, now) ==
  LET A == Pruned(observed', actions, now)
      R == Remembered(Pruned(observed', requests, now), n)
  IN  /\ actions' = A
      /\ \/ /\ Candidates(observed', A, n) = {}
            /\ requests' = R
            /\ Emit({})
         \/ \E a \in Best(observed', A, n) :
              /\ requests' = R \ {n}
              /\ Emit({Link(a, n)})

AtLeast(time) == IF time > newest THEN time ELSE newest

\* observe, of the observation at n: one that was observed before is rejected.
Observe(n) ==
  IF Fresh(n)
  THEN /\ last' = n
       /\ newest' = AtLeast(observed'[n].time)
       /\ \/ observed'[n].kind = "action" /\ ObserveAction(n, newest')
          \/ observed'[n].kind = "request" /\ ObserveRequest(n, newest')
  ELSE UNCHANGED <<last, newest, actions, requests, links, emitted>>

\* The pipeline appends an observation and hands it over.
Happens(event) ==
  /\ Len(observed) < MaxEvents
  /\ observed' = Append(observed, [event EXCEPT !.time = newest + @])
  /\ Observe(Len(observed) + 1)

\* An observation is handed over a second time.
Replay(n) ==
  /\ UNCHANGED observed
  /\ Observe(n)

Next ==
  \/ \E event \in Actions \cup Requests : Happens(event)
  \/ \E n \in 1..Len(observed) : Replay(n)

Spec == Init /\ [][Next]_vars

-----------------------------------------------------------------------------
(* Properties.                                                             *)

\* What is remembered are actions and requests that were observed, never more
\* than max_recent of each, and nothing that left the window: the memory the
\* correlator needs does not grow with the session (correlation.py:93-127).
TypeOK ==
  /\ observed \in Seq(Action \cup Request)
  /\ last = Len(observed)
  /\ newest \in Nat
  /\ \A p \in actions : p \in 1..last /\ observed[p].kind = "action"
  /\ \A p \in requests : p \in 1..last /\ observed[p].kind = "request"
  /\ Cardinality(actions) <= MaxRecent
  /\ Cardinality(requests) <= MaxRecent
  /\ \A p \in actions \cup requests : observed[p].time >= newest - Window
  /\ links \subseteq [action : 1..last, request : 1..last]

\* "each request is linked to at most one best action", also when it is handed
\* over again; one that waits for an action has no link
\* (correlation.py:329-331, 341-350, 353-356).
LinkedOnce ==
  /\ emitted = Cardinality({l.request : l \in links})
  /\ \A l, m \in links : l.request = m.request => l = m
  /\ \A l \in links : l.request \notin requests

\* A request waits only while no remembered action explains it, so an action
\* that arrives can only win by being the first (correlation.py:338-350).
WaitingIsUnexplained ==
  \A r \in requests : Candidates(observed, actions, r) = {}

\* The later of an action and a request found the other still remembered:
\* fewer than max_recent of its kind came in between.
Since(p, n, kind) == Cardinality({q \in (p + 1)..n : observed[q].kind = kind})
Later(p, q) == IF p < q THEN q ELSE p
Met(a, r) ==
  IF a < r THEN Since(a, r, "action") < MaxRecent
           ELSE Since(r, a, "request") < MaxRecent

Places(kind) == {p \in 1..Len(observed) : observed[p].kind = kind}

\* No explanation is missed: a request that met an action which explains it is
\* linked, whichever came first and whatever was observed, forgotten or linked
\* in between (correlation.py:333-356).
NothingMissed ==
  \A a \in Places("action"), r \in Places("request") :
    /\ Status(observed[a], observed[r]) # "none"
    /\ Met(a, r)
    => \E l \in links : l.request = r

\* The link is the best one: no action that met the request before it was
\* linked explains it better (correlation.py:259-275).
LinkIsBest ==
  \A l \in links : \A b \in Places("action") :
    /\ Status(observed[b], observed[l.request]) # "none"
    /\ Met(b, l.request)
    /\ b <= Later(l.action, l.request)
    => ~ Better(observed[b], observed[l.action], observed[l.request])

=============================================================================
