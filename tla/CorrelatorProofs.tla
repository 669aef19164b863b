-------------------------- MODULE CorrelatorProofs --------------------------
(* Theorems about the correlator for any number of observations, any window  *)
(* and any bound on what it remembers.                                       *)
EXTENDS Correlator, FiniteSetTheorems, WellFoundedInduction, TLAPS

USE CorrelatorAssumption

LinkedRequests == {l.request : l \in links}

(* The clock never goes back, so the oldest events are the first to leave    *)
(* the window.                                                               *)
Ordered ==
  /\ \A p \in 1..last : observed[p].time <= newest
  /\ \A p, q \in 1..last : p <= q => observed[p].time <= observed[q].time

(* What is in the window was forgotten only for max_recent newer ones, or    *)
(* because it was linked.                                                    *)
ActionsKept ==
  \A a \in Places("action") :
    /\ observed[a].time >= newest - Window
    /\ Since(a, last, "action") < MaxRecent
    => a \in actions

RequestsKept ==
  \A r \in Places("request") :
    /\ observed[r].time >= newest - Window
    /\ Since(r, last, "request") < MaxRecent
    => r \in requests \cup LinkedRequests

Kept == ActionsKept /\ RequestsKept

CorrelatorInv ==
  TypeOK /\ Ordered /\ LinkedOnce /\ WaitingIsUnexplained /\ Kept /\ NothingMissed /\ LinkIsBest

-----------------------------------------------------------------------------
(* The helpers.                                                              *)

LEMMA OldestIsLeast ==
  ASSUME NEW S \in SUBSET Nat, S # {}
  PROVE  Oldest(S) \in S /\ \A q \in S : Oldest(S) <= q
<1>1. PICK p \in S : \A q \in S : ~ (<<q, p>> \in OpToRel(<, Nat))
  BY WFMin, NatLessThanWellFounded
<1>2. ASSUME NEW q \in S PROVE p <= q
  <2>1. <<q, p>> \in Nat \X Nat /\ p \in Nat /\ q \in Nat
    OBVIOUS
  <2>2. ~ (<<q, p>>[1] < <<q, p>>[2])
    BY <1>1, <2>1, Zenon DEF OpToRel
  <2> QED BY <2>1, <2>2
<1> QED BY <1>2 DEF Oldest

(* The deque keeps its bound, and gives up an element only for max_recent    *)
(* newer ones.                                                               *)
LEMMA RememberedBound ==
  ASSUME NEW m \in Nat, NEW S \in SUBSET (1..m), Cardinality(S) <= MaxRecent
  PROVE  LET T == Remembered(S, m + 1)
         IN  /\ T \subseteq S \cup {m + 1}
             /\ m + 1 \in T
             /\ Cardinality(T) <= MaxRecent
             /\ \A p \in S \ T :
                  Cardinality({q \in S \cup {m + 1} : q > p}) >= MaxRecent
<1> DEFINE n == m + 1
<1>1. IsFiniteSet(S) /\ Cardinality(S) \in Nat
  <2>1. IsFiniteSet(1..m)
    BY FS_Interval
  <2> QED BY <2>1, FS_Subset, FS_CardinalityType
<1>2. n \notin S /\ S \subseteq Nat
  OBVIOUS
<1>3. IsFiniteSet(S \cup {n}) /\ Cardinality(S \cup {n}) = Cardinality(S) + 1
  BY <1>1, <1>2, FS_AddElement
<1>4. CASE Cardinality(S) < MaxRecent
  <2>1. Remembered(S, n) = S \cup {n}
    BY <1>4 DEF Remembered
  <2>2. Cardinality(S \cup {n}) <= MaxRecent
    BY <1>1, <1>3, <1>4
  <2> QED BY <2>1, <2>2
<1>5. CASE Cardinality(S) = MaxRecent
  <2> DEFINE o == Oldest(S)
  <2>1. S # {}
    BY <1>5, FS_EmptySet
  <2>2. o \in S /\ \A q \in S : o <= q
    BY <1>2, <2>1, OldestIsLeast
  <2> HIDE DEF o
  <2>3. Remembered(S, n) = (S \ {o}) \cup {n}
    BY <1>5 DEF Remembered, o
  <2>4. IsFiniteSet(S \ {o}) /\ Cardinality(S \ {o}) = MaxRecent - 1
    BY <1>1, <1>5, <2>2, FS_RemoveElement
  <2>5. Cardinality((S \ {o}) \cup {n}) = MaxRecent
    <3>1. n \notin S \ {o}
      BY <1>2
    <3>2. Cardinality((S \ {o}) \cup {n}) = Cardinality(S \ {o}) + 1
      BY <2>4, <3>1, FS_AddElement
    <3> QED BY <2>4, <3>2
  <2>6. {q \in S \cup {n} : q > o} = (S \ {o}) \cup {n}
    <3>1. n > o /\ n \in Nat
      BY <2>2
    <3>2. \A q \in S : q > o <=> q # o
      BY <1>2, <2>2
    <3> QED BY <2>2, <3>1, <3>2
  <2>7. S \ Remembered(S, n) = {o}
    BY <1>2, <2>2, <2>3
  <2>8. /\ Remembered(S, n) \subseteq S \cup {n}
        /\ n \in Remembered(S, n)
        /\ Cardinality(Remembered(S, n)) <= MaxRecent
    BY <2>3, <2>5
  <2> QED BY <2>5, <2>6, <2>7, <2>8
<1> QED BY <1>1, <1>4, <1>5

LEMMA ScoreIsInteger ==
  ASSUME NEW a \in Action, NEW r \in Request
  PROVE  Score(a, r) \in Nat /\ Delta(a, r) \in Nat
<1>1. Delta(a, r) \in Nat
  BY DEF Delta, Action, Request
<1>2. Proximity(Delta(a, r)) \in Nat
  BY DEF Proximity
<1>3. \A b, w : w \in Nat => Points(b, w) \in Nat
  BY DEF Points
<1>4. Sum(a, r) \in Nat
  BY <1>2, <1>3 DEF Sum
<1> QED BY <1>1, <1>4 DEF Score

LEMMA NothingBeatsItself ==
  ASSUME NEW a \in Action, NEW r \in Request
  PROVE  ~ Better(a, a, r)
BY ScoreIsInteger DEF Better

(* The only action that explains a request is the best one.                  *)
LEMMA OnlyIsBest ==
  ASSUME NEW log, NEW A, NEW n \in A, NEW r, log[n] \in Action, log[r] \in Request,
         Candidates(log, A, r) \subseteq {n}
  PROVE  /\ n \in Best(log, A, r) <=> n \in Candidates(log, A, r)
         /\ n \in Candidates(log, A, r) => Best(log, A, r) = {n}
BY NothingBeatsItself DEF Best

LEMMA ExplainedIsClose ==
  ASSUME NEW a \in Action, NEW r \in Request, Status(a, r) # "none"
  PROVE  a.time >= r.time - Window /\ r.time >= a.time - Window
BY DEF Status, Comparable, Delta, Action, Request

-----------------------------------------------------------------------------
(* What an observation changes, whichever kind it is of.                     *)

LEMMA InitInv == Init => CorrelatorInv
<1> SUFFICES ASSUME Init PROVE CorrelatorInv
  OBVIOUS
<1>1. links = {} /\ actions = {} /\ requests = {} /\ last = 0 /\ newest = 0
      /\ observed = <<>> /\ emitted = 0 /\ Len(observed) = 0
  BY DEF Init
<1>2. Cardinality({}) = 0 /\ LinkedRequests = {}
  BY <1>1, FS_EmptySet DEF LinkedRequests
<1>3. TypeOK
  BY <1>1, <1>2 DEF TypeOK
<1>4. LinkedOnce
  BY <1>1, <1>2 DEF LinkedOnce, LinkedRequests
<1>5. Places("action") = {} /\ Places("request") = {}
  BY <1>1 DEF Places
<1> QED BY <1>1, <1>3, <1>4, <1>5 DEF CorrelatorInv, Ordered, WaitingIsUnexplained,
                   Kept, ActionsKept, RequestsKept, NothingMissed, LinkIsBest

LEMMA HappensStep ==
  ASSUME CorrelatorInv, NEW event \in Actions \cup Requests, Happens(event)
  PROVE  LET n == last + 1
         IN  /\ last \in Nat /\ newest \in Nat
             /\ observed \in Seq(Action \cup Request) /\ last = Len(observed)
             /\ observed' \in Seq(Action \cup Request) /\ n = Len(observed')
             /\ \A p \in 1..last : observed'[p] = observed[p]
             /\ observed'[n].kind = event.kind
             /\ newest' = observed'[n].time /\ newest' \in Nat /\ newest <= newest'
             /\ last' = n
             /\ \/ event \in Actions /\ ObserveAction(n, newest')
                \/ event \in Requests /\ ObserveRequest(n, newest')
<1> DEFINE n == last + 1
           e == [event EXCEPT !.time = newest + @]
<1>1. last = Len(observed) /\ observed \in Seq(Action \cup Request) /\ last \in Nat /\ newest \in Nat
  BY DEF CorrelatorInv, TypeOK
<1>2. e \in Action \cup Request /\ e.kind = event.kind /\ e.time = newest + event.time
      /\ event.time \in Nat
  <2>1. CASE event \in Actions
    <3>1. event \in Action
      BY <2>1
    <3>2. e \in Action /\ e.kind = event.kind /\ e.time = newest + event.time
      BY <1>1, <3>1 DEF Action
    <3> QED BY <3>1, <3>2 DEF Action
  <2>2. CASE event \in Requests
    <3>1. event \in Request
      BY <2>2
    <3>2. e \in Request /\ e.kind = event.kind /\ e.time = newest + event.time
      BY <1>1, <3>1 DEF Request
    <3> QED BY <3>1, <3>2 DEF Request
  <2> QED BY <2>1, <2>2
<1>3. observed' = Append(observed, e)
  BY DEF Happens
<1> HIDE DEF e
<1>4. /\ observed' \in Seq(Action \cup Request) /\ n = Len(observed')
      /\ \A p \in 1..last : observed'[p] = observed[p]
      /\ observed'[n] = e
  BY <1>1, <1>2, <1>3
<1>5. Fresh(n)
  BY <1>1 DEF Fresh
<1>6. /\ last' = n /\ newest' = AtLeast(e.time)
      /\ \/ observed'[n].kind = "action" /\ ObserveAction(n, newest')
         \/ observed'[n].kind = "request" /\ ObserveRequest(n, newest')
  BY <1>1, <1>4, <1>5 DEF Happens, Observe
<1>7. newest' = e.time /\ newest' \in Nat /\ newest <= newest'
  BY <1>1, <1>2, <1>6 DEF AtLeast
<1>8. event.kind = "action" => event \in Actions
  BY DEF Action, Request
<1>9. event.kind = "request" => event \in Requests
  BY DEF Action, Request
<1> QED BY <1>1, <1>2, <1>4, <1>6, <1>7, <1>8, <1>9

LEMMA HappensOrdered ==
  ASSUME CorrelatorInv, NEW event \in Actions \cup Requests, Happens(event)
  PROVE  Ordered'
<1>1. /\ last \in Nat /\ newest \in Nat /\ last' = last + 1
      /\ \A p \in 1..last : observed'[p] = observed[p] /\ observed[p].time \in Nat
      /\ newest' = observed'[last + 1].time /\ newest' \in Nat /\ newest <= newest'
  BY HappensStep DEF Action, Request
<1> QED BY <1>1 DEF Ordered, CorrelatorInv

(* The front of the deque is all there is to look at.                        *)
LEMMA PrunedIsWindow ==
  ASSUME CorrelatorInv, NEW event \in Actions \cup Requests, Happens(event),
         NEW S \in SUBSET (1..last)
  PROVE  Pruned(observed', S, newest') = {p \in S : observed'[p].time >= newest' - Window}
<1>1. last \in Nat /\ last' = last + 1 /\ newest' \in Nat
      /\ \A p \in 1..last : observed'[p].time \in Nat
  BY HappensStep DEF Action, Request
<1>2. \A p, q \in S : q <= p => observed'[q].time <= observed'[p].time
  BY <1>1, HappensOrdered DEF Ordered
<1>3. ASSUME NEW p \in S
      PROVE  (\E q \in S : q <= p /\ observed'[q].time >= newest' - Window)
               <=> observed'[p].time >= newest' - Window
  <2>0. p \in 1..last
    OBVIOUS
  <2>1. p <= p /\ observed'[p].time \in Nat
    BY <1>1, <2>0
  <2>2. ASSUME NEW q \in S, q <= p, observed'[q].time >= newest' - Window
        PROVE  observed'[p].time >= newest' - Window
    <3>1. observed'[q].time <= observed'[p].time /\ observed'[q].time \in Nat
      BY <1>1, <1>2, <2>2
    <3> QED BY <1>1, <2>1, <2>2, <3>1
  <2> QED BY <2>1, <2>2
<1> QED BY <1>3 DEF Pruned

(* What is counted between two places.                                       *)
LEMMA SinceGrows ==
  ASSUME CorrelatorInv, NEW event \in Actions \cup Requests, Happens(event),
         NEW kind, NEW m, m = last, NEW n, n = last + 1, NEW p \in 1..m
  PROVE  /\ \A q \in 1..m : Since(p, q, kind)' = Since(p, q, kind)
         /\ Since(p, m, kind) \in Nat
         /\ Since(p, n, kind)' \in Nat
         /\ Since(p, m, kind) <= Since(p, n, kind)'
         /\ \A S \in SUBSET (1..n) :
              (\A x \in S : x > p /\ observed'[x].kind = kind)
                => Cardinality(S) <= Since(p, n, kind)'
<1> DEFINE Old == {x \in (p + 1)..m : observed[x].kind = kind}
           New == {x \in (p + 1)..n : observed'[x].kind = kind}
<1>1. m \in Nat /\ n = m + 1 /\ \A x \in 1..m : observed'[x] = observed[x]
  BY HappensStep
<1>2. ASSUME NEW q \in 1..m
      PROVE  Since(p, q, kind)' = Since(p, q, kind)
  <2>1. {x \in (p + 1)..q : observed'[x].kind = kind} = {x \in (p + 1)..q : observed[x].kind = kind}
    BY <1>1
  <2> QED BY <2>1 DEF Since
<1>3. Old \subseteq New
  BY <1>1
<1>4. IsFiniteSet(New)
  <2>1. IsFiniteSet((p + 1)..n)
    BY <1>1, FS_Interval
  <2> QED BY <2>1, FS_Subset
<1>5. Since(p, m, kind) = Cardinality(Old) /\ Since(p, n, kind)' = Cardinality(New)
  BY DEF Since
<1>6. IsFiniteSet(Old) /\ Cardinality(Old) <= Cardinality(New)
  BY <1>3, <1>4, FS_Subset
<1>7. Cardinality(Old) \in Nat /\ Cardinality(New) \in Nat
  BY <1>4, <1>6, FS_CardinalityType
<1>8. ASSUME NEW S \in SUBSET (1..n), \A x \in S : x > p /\ observed'[x].kind = kind
      PROVE  Cardinality(S) <= Cardinality(New)
  <2>1. S \subseteq New
    BY <1>1, <1>8
  <2> QED BY <1>4, <2>1, FS_Subset
<1> QED BY <1>2, <1>5, <1>6, <1>7, <1>8

-----------------------------------------------------------------------------
(* The two handlers, in terms of what is in the window.                      *)

InWindow(S) == {p \in S : observed'[p].time >= newest' - Window}

LEMMA WindowBound ==
  ASSUME CorrelatorInv, NEW S \in SUBSET (1..last), Cardinality(S) <= MaxRecent
  PROVE  InWindow(S) \subseteq 1..last /\ Cardinality(InWindow(S)) <= MaxRecent
<1>1. last \in Nat
  BY DEF CorrelatorInv, TypeOK
<1>2. IsFiniteSet(S) /\ InWindow(S) \in SUBSET S
  <2>1. IsFiniteSet(1..last)
    BY <1>1, FS_Interval
  <2> QED BY <2>1, FS_Subset DEF InWindow
<1>3. Cardinality(InWindow(S)) <= Cardinality(S) /\ IsFiniteSet(InWindow(S))
  BY <1>2, FS_Subset
<1>4. Cardinality(S) \in Nat /\ Cardinality(InWindow(S)) \in Nat
  BY <1>2, <1>3, FS_CardinalityType
<1>5. InWindow(S) \subseteq 1..last
  BY DEF InWindow
<1>6. Cardinality(InWindow(S)) <= MaxRecent
  BY <1>3, <1>4
<1> QED BY <1>5, <1>6

(* What the deque of the new observation's kind holds, and why it let go of  *)
(* what it does not hold.                                                    *)
LEMMA NewIsRemembered ==
  ASSUME CorrelatorInv, NEW event \in Actions \cup Requests, Happens(event),
         NEW n, n = last + 1, NEW S \in SUBSET (1..last), Cardinality(S) <= MaxRecent,
         \A p \in S : observed[p].kind = event.kind
  PROVE  LET T == Remembered(InWindow(S), n)
         IN  /\ T \subseteq InWindow(S) \cup {n} /\ n \in T
             /\ Cardinality(T) <= MaxRecent
             /\ \A p \in T : /\ p \in 1..n
                             /\ observed'[p].kind = event.kind
                             /\ observed'[p].time >= newest' - Window
             /\ \A p \in InWindow(S) \ T : Since(p, n, event.kind)' >= MaxRecent
<1> DEFINE T == Remembered(InWindow(S), n)
<1>1. /\ last \in Nat /\ \A p \in 1..last : observed'[p] = observed[p]
      /\ observed'[n].kind = event.kind /\ observed'[n].time = newest' /\ newest' \in Nat
  BY HappensStep
<1>2. InWindow(S) \subseteq 1..last /\ Cardinality(InWindow(S)) <= MaxRecent
  BY WindowBound
<1>3. /\ T \subseteq InWindow(S) \cup {n} /\ n \in T
      /\ Cardinality(T) <= MaxRecent
      /\ \A p \in InWindow(S) \ T :
           Cardinality({q \in InWindow(S) \cup {n} : q > p}) >= MaxRecent
  BY <1>1, <1>2, RememberedBound
<1>4. ASSUME NEW p \in InWindow(S) \cup {n}
      PROVE  /\ p \in 1..n
             /\ observed'[p].kind = event.kind
             /\ observed'[p].time >= newest' - Window
  <2>1. CASE p = n
    BY <1>1, <2>1
  <2>2. CASE p \in InWindow(S)
    <3>1. p \in S /\ p \in 1..last /\ observed'[p].time >= newest' - Window
      BY <2>2 DEF InWindow
    <3> QED BY <1>1, <3>1
  <2> QED BY <2>1, <2>2
<1>5. ASSUME NEW p \in InWindow(S) \ T
      PROVE  Since(p, n, event.kind)' >= MaxRecent
  <2> DEFINE Q == {q \in InWindow(S) \cup {n} : q > p}
  <2>1. p \in 1..last /\ Q \in SUBSET (1..n)
    BY <1>2, <1>4
  <2>2. \A q \in Q : q > p /\ observed'[q].kind = event.kind
    BY <1>4
  <2>3. Cardinality(Q) <= Since(p, n, event.kind)' /\ Since(p, n, event.kind)' \in Nat
    BY <2>1, <2>2, SinceGrows
  <2>4. Cardinality(Q) >= MaxRecent
    BY <1>3
  <2>5. IsFiniteSet(Q) /\ Cardinality(Q) \in Nat
    <3>1. IsFiniteSet(1..n)
      BY <1>1, FS_Interval
    <3> QED BY <2>1, <3>1, FS_Subset, FS_CardinalityType
  <2> QED BY <2>3, <2>4, <2>5
<1> QED BY <1>3, <1>4, <1>5

(* An action takes every remembered request it explains: no earlier action   *)
(* explains any of them.                                                     *)
LEMMA ActionStep ==
  ASSUME CorrelatorInv, NEW event \in Actions, Happens(event), NEW n, n = last + 1,
         ObserveAction(n, newest')
  PROVE  LET E == {r \in InWindow(requests) : Status(observed'[n], observed'[r]) # "none"}
         IN  /\ actions' = Remembered(InWindow(actions), n)
             /\ requests' = InWindow(requests) \ E
             /\ links' = links \cup {Link(n, r) : r \in E}
             /\ emitted' = emitted + Cardinality({Link(n, r) : r \in E})
<1> DEFINE A == Remembered(InWindow(actions), n)
           R == InWindow(requests)
           E == {r \in R : Status(observed'[n], observed'[r]) # "none"}
<1>1. /\ last \in Nat /\ observed' \in Seq(Action \cup Request) /\ n = Len(observed')
      /\ \A p \in 1..last : observed'[p] = observed[p]
      /\ observed'[n].kind = event.kind /\ event.kind = "action"
  BY HappensStep DEF Action
<1>2. actions \subseteq 1..last /\ requests \subseteq 1..last /\ Cardinality(actions) <= MaxRecent
  BY DEF CorrelatorInv, TypeOK
<1>3. Pruned(observed', actions, newest') = InWindow(actions)
      /\ Pruned(observed', requests, newest') = R
  BY <1>2, PrunedIsWindow DEF InWindow
<1>4. n \in A /\ A \subseteq actions \cup {n}
  <2>1. InWindow(actions) \subseteq 1..last /\ Cardinality(InWindow(actions)) <= MaxRecent
    BY <1>2, WindowBound
  <2>2. InWindow(actions) \subseteq actions
    BY DEF InWindow
  <2> QED BY <1>1, <2>1, <2>2, RememberedBound
<1>5. PICK linked \in SUBSET {r \in R : n \in Best(observed', A, r)} :
        /\ {r \in R : Best(observed', A, r) = {n}} \subseteq linked
        /\ requests' = R \ linked
        /\ Emit({Link(n, r) : r \in linked})
  BY <1>3 DEF ObserveAction
<1>6. ASSUME NEW r \in R
      PROVE  r \in linked <=> Status(observed'[n], observed'[r]) # "none"
  <2>1. r \in requests /\ r \in 1..last /\ observed[r].kind = "request"
    BY DEF InWindow, CorrelatorInv, TypeOK
  <2>2. Candidates(observed, actions, r) = {}
    BY <2>1 DEF CorrelatorInv, WaitingIsUnexplained
  <2>3. ASSUME NEW a \in A, a # n PROVE Status(observed'[a], observed'[r]) = "none"
    <3>1. a \in actions
      BY <1>4, <2>3
    <3>2. a \in 1..last
      BY <1>2, <3>1
    <3>3. observed'[a] = observed[a] /\ observed'[r] = observed[r]
      BY <1>1, <2>1, <3>2
    <3> QED BY <2>2, <3>1, <3>3 DEF Candidates
  <2>4. Candidates(observed', A, r) \subseteq {n}
    BY <2>3 DEF Candidates
  <2>5. observed'[n] \in Action /\ observed'[r] \in Request
    <3>1. n \in 1..Len(observed') /\ r \in 1..Len(observed')
      BY <1>1, <2>1
    <3>2. observed'[n] \in Action \cup Request /\ observed'[r] \in Action \cup Request
      BY <1>1, <3>1
    <3>3. observed'[n].kind = "action" /\ observed'[r].kind = "request"
      BY <1>1, <2>1
    <3> QED BY <3>2, <3>3 DEF Action, Request
  <2>6. n \in Candidates(observed', A, r) <=> Status(observed'[n], observed'[r]) # "none"
    BY <1>4 DEF Candidates
  <2> QED BY <1>4, <1>5, <2>4, <2>5, <2>6, OnlyIsBest
<1>7. linked = E
  BY <1>6
<1>8. actions' = A
  BY <1>3 DEF ObserveAction
<1> QED BY <1>5, <1>7, <1>8 DEF Emit

(* A request is linked to one of the best, or waits if nothing explains it.  *)
LEMMA RequestStep ==
  ASSUME CorrelatorInv, NEW event \in Requests, Happens(event), NEW n, n = last + 1,
         ObserveRequest(n, newest')
  PROVE  /\ actions' = InWindow(actions)
         /\ \/ /\ Candidates(observed', InWindow(actions), n) = {}
               /\ requests' = Remembered(InWindow(requests), n)
               /\ links' = links
               /\ emitted' = emitted + 0
            \/ \E a \in Best(observed', InWindow(actions), n) :
                 /\ requests' = Remembered(InWindow(requests), n) \ {n}
                 /\ links' = links \cup {Link(a, n)}
                 /\ emitted' = emitted + 1
<1>1. actions \subseteq 1..last /\ requests \subseteq 1..last
  BY DEF CorrelatorInv, TypeOK
<1>2. Pruned(observed', actions, newest') = InWindow(actions)
      /\ Pruned(observed', requests, newest') = InWindow(requests)
  BY <1>1, PrunedIsWindow DEF InWindow
<1>3. Cardinality({}) = 0
  BY FS_EmptySet
<1>4. \A a : Cardinality({Link(a, n)}) = 1
  BY FS_Singleton
<1>5. actions' = InWindow(actions)
  BY <1>2 DEF ObserveRequest
<1>6. CASE /\ Candidates(observed', InWindow(actions), n) = {}
           /\ requests' = Remembered(InWindow(requests), n)
           /\ Emit({})
  BY <1>3, <1>5, <1>6 DEF Emit
<1>7. CASE \E a \in Best(observed', InWindow(actions), n) :
             /\ requests' = Remembered(InWindow(requests), n) \ {n}
             /\ Emit({Link(a, n)})
  BY <1>4, <1>5, <1>7 DEF Emit
<1> QED BY <1>2, <1>6, <1>7 DEF ObserveRequest

-----------------------------------------------------------------------------
(* The invariant, conjunct by conjunct.                                      *)

LEMMA HappensTypeOK ==
  ASSUME CorrelatorInv, NEW event \in Actions \cup Requests, Happens(event)
  PROVE  TypeOK'
<1> DEFINE n == last + 1
<1>1. /\ last \in Nat /\ last' = n /\ newest' \in Nat
      /\ observed' \in Seq(Action \cup Request) /\ n = Len(observed')
      /\ \A p \in 1..last : observed'[p] = observed[p]
  BY HappensStep
<1>2. /\ \A p \in actions : p \in 1..last /\ observed[p].kind = "action"
      /\ \A p \in requests : p \in 1..last /\ observed[p].kind = "request"
      /\ Cardinality(actions) <= MaxRecent /\ Cardinality(requests) <= MaxRecent
      /\ links \subseteq [action : 1..last, request : 1..last]
  BY DEF CorrelatorInv, TypeOK
<1>3. actions \in SUBSET (1..last) /\ requests \in SUBSET (1..last)
  BY <1>2
<1>4. /\ Cardinality(InWindow(actions)) <= MaxRecent
      /\ Cardinality(InWindow(requests)) <= MaxRecent
  BY <1>2, <1>3, WindowBound
<1>5. /\ \A p \in InWindow(actions) : p \in 1..n /\ observed'[p].kind = "action"
                                      /\ observed'[p].time >= newest' - Window
      /\ \A p \in InWindow(requests) : p \in 1..n /\ observed'[p].kind = "request"
                                      /\ observed'[p].time >= newest' - Window
  BY <1>1, <1>2 DEF InWindow
<1>6. \A S, T : Cardinality(S) <= MaxRecent /\ S \in SUBSET (1..n) /\ T \subseteq S
                  => Cardinality(T) <= MaxRecent
  <2> SUFFICES ASSUME NEW S \in SUBSET (1..n), Cardinality(S) <= MaxRecent, NEW T \in SUBSET S
               PROVE  Cardinality(T) <= MaxRecent
    OBVIOUS
  <2>1. IsFiniteSet(S)
    <3>1. 1 \in Int /\ n \in Int
      BY <1>1
    <3>2. IsFiniteSet(1..n)
      BY <3>1, FS_Interval
    <3> QED BY <3>2, FS_Subset
  <2>2. Cardinality(T) <= Cardinality(S) /\ IsFiniteSet(T)
    BY <2>1, FS_Subset
  <2> QED BY <2>1, <2>2, FS_CardinalityType
<1>7. CASE event \in Actions /\ ObserveAction(n, newest')
  <2>1. event.kind = "action"
    BY <1>7 DEF Action
  <2> DEFINE T == Remembered(InWindow(actions), n)
             E == {r \in InWindow(requests) : Status(observed'[n], observed'[r]) # "none"}
  <2>2. actions' = T /\ requests' = InWindow(requests) \ E
        /\ links' = links \cup {Link(n, r) : r \in E}
    BY <1>7, ActionStep
  <2>3. /\ Cardinality(T) <= MaxRecent
        /\ \A p \in T : p \in 1..n /\ observed'[p].kind = "action"
                        /\ observed'[p].time >= newest' - Window
    BY <1>2, <1>3, <1>7, <2>1, NewIsRemembered
  <2>4. Cardinality(requests') <= MaxRecent
    BY <1>4, <1>5, <1>6, <2>2
  <2>5. links' \subseteq [action : 1..n, request : 1..n]
    BY <1>1, <1>2, <1>5, <2>2 DEF Link
  <2> QED BY <1>1, <1>5, <2>2, <2>3, <2>4, <2>5 DEF TypeOK
<1>8. CASE event \in Requests /\ ObserveRequest(n, newest')
  <2>1. event.kind = "request"
    BY <1>8 DEF Request
  <2> DEFINE T == Remembered(InWindow(requests), n)
  <2>2. /\ actions' = InWindow(actions)
        /\ requests' \subseteq T
        /\ links' = links \/ \E a \in Best(observed', InWindow(actions), n) :
                               links' = links \cup {Link(a, n)}
    BY <1>8, RequestStep
  <2>3. /\ Cardinality(T) <= MaxRecent
        /\ \A p \in T : p \in 1..n /\ observed'[p].kind = "request"
                        /\ observed'[p].time >= newest' - Window
    BY <1>2, <1>3, <1>8, <2>1, NewIsRemembered
  <2>4. Cardinality(requests') <= MaxRecent
    BY <1>6, <2>2, <2>3
  <2>5. links' \subseteq [action : 1..n, request : 1..n]
    BY <1>1, <1>2, <1>5, <2>2 DEF Link, Best, Candidates
  <2> QED BY <1>1, <1>4, <1>5, <2>2, <2>3, <2>4, <2>5 DEF TypeOK
<1> QED BY <1>7, <1>8, HappensStep

(* One link for each request of a set.                                       *)
LEMMA LinksOfRequests ==
  ASSUME NEW n, NEW E, IsFiniteSet(E)
  PROVE  Cardinality({Link(n, r) : r \in E}) = Cardinality(E)
<1> DEFINE L == {Link(n, r) : r \in E}
           f == [r \in E |-> Link(n, r)]
<1>1. f \in Bijection(E, L)
  <2>1. f \in [E -> L]
    OBVIOUS
  <2>2. \A r, q \in E : f[r] = f[q] => r = q
    BY DEF Link
  <2>3. \A l \in L : \E r \in E : f[r] = l
    OBVIOUS
  <2>4. f \in Injection(E, L)
    BY <2>1, <2>2 DEF Injection, IsInjective
  <2>5. f \in Surjection(E, L)
    BY <2>1, <2>3 DEF Surjection
  <2> QED BY <2>4, <2>5 DEF Bijection
<1> QED BY <1>1, FS_Bijection DEF ExistsBijection

LEMMA HappensLinkedOnce ==
  ASSUME CorrelatorInv, NEW event \in Actions \cup Requests, Happens(event)
  PROVE  LinkedOnce'
<1> DEFINE n == last + 1
<1>1. last \in Nat
  BY DEF CorrelatorInv, TypeOK
<1>2. /\ \A p \in requests : p \in 1..last
      /\ links \subseteq [action : 1..last, request : 1..last]
  BY DEF CorrelatorInv, TypeOK
<1>3. /\ emitted = Cardinality(LinkedRequests)
      /\ \A l, m \in links : l.request = m.request => l = m
      /\ \A l \in links : l.request \notin requests
  BY DEF CorrelatorInv, LinkedOnce, LinkedRequests
<1>4. IsFiniteSet(1..last) /\ IsFiniteSet(LinkedRequests) /\ Cardinality(LinkedRequests) \in Nat
  <2>1. IsFiniteSet(1..last)
    BY <1>1, FS_Interval
  <2>2. LinkedRequests \in SUBSET (1..last)
    BY <1>2 DEF LinkedRequests
  <2> QED BY <2>1, <2>2, FS_Subset, FS_CardinalityType
<1>5. CASE event \in Actions /\ ObserveAction(n, newest')
  <2> DEFINE E == {r \in InWindow(requests) : Status(observed'[n], observed'[r]) # "none"}
             L == {Link(n, r) : r \in E}
  <2>1. requests' = InWindow(requests) \ E /\ links' = links \cup L
        /\ emitted' = emitted + Cardinality(L)
    BY <1>5, ActionStep
  <2>2. E \subseteq requests /\ requests' \subseteq requests
    BY <2>1 DEF InWindow
  <2> HIDE DEF E
  <2>3. IsFiniteSet(E) /\ Cardinality(E) \in Nat
    <3>1. E \in SUBSET (1..last)
      BY <1>2, <2>2
    <3> QED BY <1>4, <3>1, FS_Subset, FS_CardinalityType
  <2>4. Cardinality(L) = Cardinality(E)
    BY <2>3, LinksOfRequests
  <2>5. LinkedRequests' = LinkedRequests \cup E /\ LinkedRequests \cap E = {}
    <3>1. \A r : Link(n, r).request = r
      BY DEF Link
    <3>2. \A m : (\E l \in links' : m = l.request) <=> (\E l \in links : m = l.request) \/ m \in E
      BY <2>1, <3>1
    <3> QED BY <1>3, <2>2, <3>2 DEF LinkedRequests
  <2>6. Cardinality(LinkedRequests \cup E) = Cardinality(LinkedRequests) + Cardinality(E)
    <3>1. Cardinality(LinkedRequests \cap E) = 0
      BY <2>5, FS_EmptySet
    <3>2. Cardinality(LinkedRequests \cup E)
            = Cardinality(LinkedRequests) + Cardinality(E) - Cardinality(LinkedRequests \cap E)
      BY <1>4, <2>3, FS_Union
    <3> QED BY <1>4, <2>3, <3>1, <3>2
  <2>7. emitted' = Cardinality(LinkedRequests')
    BY <1>3, <2>1, <2>4, <2>5, <2>6
  <2>8. \A l, m \in links' : l.request = m.request => l = m
    BY <1>3, <2>1, <2>2 DEF Link
  <2>9. \A l \in links' : l.request \notin requests'
    BY <1>3, <2>1, <2>2 DEF Link
  <2> QED BY <2>7, <2>8, <2>9 DEF LinkedOnce, LinkedRequests
<1>6. CASE event \in Requests /\ ObserveRequest(n, newest')
  <2>1. Remembered(InWindow(requests), n) \subseteq requests \cup {n}
    <3>1. InWindow(requests) \subseteq requests
      BY DEF InWindow
    <3>2. event.kind = "request"
      BY <1>6 DEF Request
    <3>3. requests \in SUBSET (1..last) /\ Cardinality(requests) <= MaxRecent
          /\ \A p \in requests : observed[p].kind = event.kind
      BY <3>2 DEF CorrelatorInv, TypeOK
    <3> QED BY <3>1, <3>3, NewIsRemembered
  <2>2. \A l \in links : l.request # n
    BY <1>1, <1>2
  <2>3. CASE /\ requests' = Remembered(InWindow(requests), n)
             /\ links' = links
             /\ emitted' = emitted + 0
    <3>1. LinkedRequests' = LinkedRequests /\ emitted' = emitted
      BY <1>3, <1>4, <2>3 DEF LinkedRequests
    <3> QED BY <1>3, <2>1, <2>2, <2>3, <3>1 DEF LinkedOnce, LinkedRequests
  <2>4. CASE \E a \in Best(observed', InWindow(actions), n) :
               /\ requests' = Remembered(InWindow(requests), n) \ {n}
               /\ links' = links \cup {Link(a, n)}
               /\ emitted' = emitted + 1
    <3>1. PICK a : /\ requests' = Remembered(InWindow(requests), n) \ {n}
                   /\ links' = links \cup {Link(a, n)}
                   /\ emitted' = emitted + 1
      BY <2>4
    <3>2. LinkedRequests' = LinkedRequests \cup {n} /\ n \notin LinkedRequests
      <4>1. Link(a, n).request = n
        BY DEF Link
      <4>2. \A m : (\E l \in links' : m = l.request) <=> (\E l \in links : m = l.request) \/ m = n
        BY <3>1, <4>1
      <4> QED BY <2>2, <4>2 DEF LinkedRequests
    <3>3. Cardinality(LinkedRequests \cup {n}) = Cardinality(LinkedRequests) + 1
      BY <1>4, <3>2, FS_AddElement
    <3>4. \A l, m \in links' : l.request = m.request => l = m
      BY <1>3, <2>2, <3>1 DEF Link
    <3>5. \A l \in links' : l.request \notin requests'
      BY <1>3, <2>1, <2>2, <3>1 DEF Link
    <3>6. emitted' = Cardinality(LinkedRequests')
      BY <1>3, <3>1, <3>2, <3>3
    <3> QED BY <3>4, <3>5, <3>6 DEF LinkedOnce, LinkedRequests
  <2> QED BY <1>6, <2>3, <2>4, RequestStep
<1> QED BY <1>5, <1>6, HappensStep

LEMMA HappensWaiting ==
  ASSUME CorrelatorInv, NEW event \in Actions \cup Requests, Happens(event)
  PROVE  WaitingIsUnexplained'
<1> DEFINE n == last + 1
<1>1. /\ last \in Nat /\ \A p \in 1..last : observed'[p] = observed[p]
  BY HappensStep
<1>2. /\ \A p \in actions : p \in 1..last /\ observed[p].kind = "action"
      /\ \A p \in requests : p \in 1..last /\ observed[p].kind = "request"
      /\ Cardinality(actions) <= MaxRecent /\ Cardinality(requests) <= MaxRecent
  BY DEF CorrelatorInv, TypeOK
<1>3. actions \in SUBSET (1..last) /\ requests \in SUBSET (1..last)
  BY <1>2
<1>4. ASSUME NEW r \in requests, NEW a \in actions
      PROVE  Status(observed'[a], observed'[r]) = "none"
  BY <1>1, <1>2 DEF CorrelatorInv, WaitingIsUnexplained, Candidates
<1>5. InWindow(actions) \subseteq actions /\ InWindow(requests) \subseteq requests
  BY DEF InWindow
<1>6. CASE event \in Actions /\ ObserveAction(n, newest')
  <2>1. event.kind = "action"
    BY <1>6 DEF Action
  <2> DEFINE E == {r \in InWindow(requests) : Status(observed'[n], observed'[r]) # "none"}
  <2>2. actions' = Remembered(InWindow(actions), n) /\ requests' = InWindow(requests) \ E
    BY <1>6, ActionStep
  <2>3. actions' \subseteq actions \cup {n}
    BY <1>2, <1>3, <1>5, <1>6, <2>1, <2>2, NewIsRemembered
  <2>4. ASSUME NEW r \in requests', NEW a \in actions'
        PROVE  Status(observed'[a], observed'[r]) = "none"
    BY <1>4, <1>5, <2>2, <2>3
  <2> QED BY <2>4 DEF WaitingIsUnexplained, Candidates
<1>7. CASE event \in Requests /\ ObserveRequest(n, newest')
  <2>1. event.kind = "request"
    BY <1>7 DEF Request
  <2>2. Remembered(InWindow(requests), n) \subseteq requests \cup {n}
    BY <1>2, <1>3, <1>5, <1>7, <2>1, NewIsRemembered
  <2>3. /\ actions' = InWindow(actions)
        /\ requests' \subseteq requests \cup {n}
        /\ n \in requests' => Candidates(observed', InWindow(actions), n) = {}
    BY <1>7, <2>2, RequestStep
  <2>4. ASSUME NEW r \in requests', NEW a \in actions'
        PROVE  Status(observed'[a], observed'[r]) = "none"
    BY <1>4, <1>5, <2>3 DEF Candidates
  <2> QED BY <2>4 DEF WaitingIsUnexplained, Candidates
<1> QED BY <1>6, <1>7, HappensStep

LEMMA LinksGrow ==
  ASSUME CorrelatorInv, NEW event \in Actions \cup Requests, Happens(event)
  PROVE  links \subseteq links' /\ LinkedRequests \subseteq LinkedRequests'
<1>1. links \subseteq links'
  <2>1. CASE event \in Actions /\ ObserveAction(last + 1, newest')
    BY <2>1, ActionStep
  <2>2. CASE event \in Requests /\ ObserveRequest(last + 1, newest')
    BY <2>2, RequestStep
  <2> QED BY <2>1, <2>2, HappensStep
<1> QED BY <1>1 DEF LinkedRequests

(* An action takes a request out of the window's only to link it.            *)
LEMMA LinkedOrKept ==
  ASSUME CorrelatorInv, NEW event \in Actions, Happens(event),
         ObserveAction(last + 1, newest')
  PROVE  InWindow(requests) \subseteq requests' \cup LinkedRequests'
<1> DEFINE n == last + 1
           E == {r \in InWindow(requests) : Status(observed'[n], observed'[r]) # "none"}
<1>1. requests' = InWindow(requests) \ E /\ links' = links \cup {Link(n, r) : r \in E}
  BY ActionStep
<1> HIDE DEF E
<1>2. \A r \in E : Link(n, r) \in links' /\ Link(n, r).request = r
  BY <1>1 DEF Link
<1>3. E \subseteq LinkedRequests'
  BY <1>2 DEF LinkedRequests
<1> QED BY <1>1, <1>3

LEMMA HappensKept ==
  ASSUME CorrelatorInv, NEW event \in Actions \cup Requests, Happens(event)
  PROVE  Kept'
<1>n. PICK n : n = last + 1
  OBVIOUS
<1>m. PICK m : m = last
  OBVIOUS
<1>1. /\ last \in Nat /\ newest \in Nat /\ last' = n /\ newest' \in Nat /\ newest <= newest'
      /\ n = Len(observed')
      /\ \A p \in 1..last : observed'[p] = observed[p] /\ observed[p].time \in Nat
      /\ observed'[n].kind = event.kind
  BY <1>n, HappensStep DEF Action, Request
<1>2. /\ \A p \in actions : p \in 1..last /\ observed[p].kind = "action"
      /\ \A p \in requests : p \in 1..last /\ observed[p].kind = "request"
      /\ Cardinality(actions) <= MaxRecent /\ Cardinality(requests) <= MaxRecent
      /\ last = Len(observed)
  BY DEF CorrelatorInv, TypeOK
<1>3. actions \in SUBSET (1..last) /\ requests \in SUBSET (1..last)
  BY <1>2
<1>4. \A kind, p : Since(p, last, kind)' = Since(p, n, kind)'
  BY <1>1 DEF Since
<1>s. \A kind : \A p \in 1..last :
        /\ Since(p, last, kind) \in Nat /\ Since(p, n, kind)' \in Nat
        /\ Since(p, last, kind) <= Since(p, n, kind)'
  <2>1. \A kind : \A p \in 1..m :
          /\ Since(p, m, kind) \in Nat /\ Since(p, n, kind)' \in Nat
          /\ Since(p, m, kind) <= Since(p, n, kind)'
    BY <1>n, <1>m, SinceGrows
  <2> QED BY <1>m, <2>1
<1>5. ASSUME NEW kind, NEW p \in 1..last, observed'[p].kind = kind,
             observed'[p].time >= newest' - Window, Since(p, last, kind)' < MaxRecent
      PROVE  /\ p \in Places(kind)
             /\ observed[p].time >= newest - Window
             /\ Since(p, last, kind) < MaxRecent
  <2>1. p \in Places(kind) /\ observed[p].time >= newest - Window
    BY <1>1, <1>2, <1>5 DEF Places
  <2>2. /\ Since(p, last, kind) <= Since(p, last, kind)'
        /\ Since(p, last, kind) \in Nat /\ Since(p, last, kind)' \in Nat
    BY <1>4, <1>s
  <2> QED BY <1>5, <2>1, <2>2
<1>6. ActionsKept'
  <2> SUFFICES ASSUME NEW a \in Places("action")', observed'[a].time >= newest' - Window,
                      Since(a, last, "action")' < MaxRecent
               PROVE  a \in actions'
    BY DEF ActionsKept
  <2>1. a \in 1..n /\ observed'[a].kind = "action"
    BY <1>1 DEF Places
  <2>2. a \in 1..last => a \in InWindow(actions)
    BY <1>5, <2>1 DEF CorrelatorInv, Kept, ActionsKept, InWindow
  <2>3. CASE event \in Actions /\ ObserveAction(n, newest')
    <3>1. event.kind = "action"
      BY <2>3 DEF Action
    <3>2. actions' = Remembered(InWindow(actions), n)
      BY <2>3, <1>n, ActionStep
    <3>3. /\ n \in actions'
          /\ \A p \in InWindow(actions) \ actions' : Since(p, n, "action")' >= MaxRecent
      BY <1>2, <1>3, <3>1, <3>2, <1>n, NewIsRemembered
    <3>4. CASE a = n
      BY <3>3, <3>4
    <3>5. CASE a \in 1..last
      <4>1. Since(a, n, "action")' \in Nat /\ Since(a, n, "action")' < MaxRecent
        BY <1>4, <1>s, <3>5
      <4> QED BY <2>2, <3>3, <3>5, <4>1
    <3> QED BY <1>1, <1>n, <2>1, <3>4, <3>5
  <2>4. CASE event \in Requests /\ ObserveRequest(n, newest')
    <3>1. event.kind = "request"
      BY <2>4 DEF Request
    <3>2. a \in 1..last
      BY <1>1, <1>n, <2>1, <3>1
    <3>3. actions' = InWindow(actions)
      BY <2>4, <1>n, RequestStep
    <3> QED BY <2>2, <3>2, <3>3
  <2> QED BY <2>3, <2>4, <1>n, HappensStep
<1>7. RequestsKept'
  <2> SUFFICES ASSUME NEW q \in Places("request")', observed'[q].time >= newest' - Window,
                      Since(q, last, "request")' < MaxRecent
               PROVE  q \in requests' \cup LinkedRequests'
    BY DEF RequestsKept
  <2>1. q \in 1..n /\ observed'[q].kind = "request"
    BY <1>1 DEF Places
  <2>2. q \in 1..last => q \in InWindow(requests) \cup LinkedRequests
    BY <1>5, <2>1 DEF CorrelatorInv, Kept, RequestsKept, InWindow
  <2>3. CASE event \in Actions /\ ObserveAction(n, newest')
    <3>1. event.kind = "action"
      BY <2>3 DEF Action
    <3>2. q \in 1..last
      BY <1>1, <1>n, <2>1, <3>1
    <3>3. InWindow(requests) \subseteq requests' \cup LinkedRequests'
      BY <1>n, <2>3, LinkedOrKept
    <3> QED BY <2>2, <3>2, <3>3, LinksGrow
  <2>4. CASE event \in Requests /\ ObserveRequest(n, newest')
    <3> DEFINE T == Remembered(InWindow(requests), n)
    <3>1. event.kind = "request"
      BY <2>4 DEF Request
    <3>2. /\ n \in T
          /\ \A p \in InWindow(requests) \ T : Since(p, n, "request")' >= MaxRecent
      BY <1>2, <1>3, <3>1, <1>n, NewIsRemembered
    <3> HIDE DEF T
    <3>3. requests' = T \/ (requests' = T \ {n} /\ n \in LinkedRequests')
      <4>1. ASSUME NEW a, links' = links \cup {Link(a, n)} PROVE n \in LinkedRequests'
        <5>1. Link(a, n) \in links' /\ Link(a, n).request = n
          BY <4>1 DEF Link
        <5> QED BY <5>1 DEF LinkedRequests
      <4> QED BY <2>4, <4>1, <1>n, RequestStep DEF T
    <3>4. CASE q = n
      BY <3>2, <3>3, <3>4
    <3>5. CASE q \in 1..last
      <4>1. Since(q, n, "request")' \in Nat /\ Since(q, n, "request")' < MaxRecent
        BY <1>4, <1>s, <3>5
      <4>2. q \in InWindow(requests) => q \in T
        BY <3>2, <4>1
      <4> QED BY <1>1, <2>2, <3>3, <3>5, <4>2, LinksGrow
    <3> QED BY <1>1, <1>n, <2>1, <3>4, <3>5
  <2> QED BY <2>3, <2>4, <1>n, HappensStep
<1> QED BY <1>6, <1>7 DEF Kept

(* Whom a new observation meets.                                             *)
LEMMA MetIsRemembered ==
  ASSUME CorrelatorInv, NEW event \in Actions \cup Requests, Happens(event),
         NEW n, n = last + 1, NEW p \in 1..last,
         observed'[p].time >= newest' - Window
  PROVE  /\ observed'[p].kind = "action" /\ Since(p, n, "action")' < MaxRecent
              => p \in InWindow(actions)
         /\ observed'[p].kind = "request" /\ Since(p, n, "request")' < MaxRecent
              => p \in InWindow(requests) \cup LinkedRequests
<1>m. PICK m : m = last
  OBVIOUS
<1>1. /\ last \in Nat /\ newest \in Nat /\ newest' \in Nat /\ newest <= newest'
      /\ observed'[p] = observed[p] /\ observed[p].time \in Nat /\ last = Len(observed)
  <2>1. /\ last \in Nat /\ newest \in Nat /\ newest' \in Nat /\ newest <= newest'
        /\ observed'[p] = observed[p] /\ last = Len(observed)
        /\ observed \in Seq(Action \cup Request)
    BY HappensStep
  <2>2. observed[p] \in Action \cup Request
    BY <2>1
  <2> QED BY <2>1, <2>2 DEF Action, Request
<1>2. observed[p].time >= newest - Window
  BY <1>1
<1>3. ASSUME NEW kind, observed'[p].kind = kind, Since(p, n, kind)' < MaxRecent
      PROVE  p \in Places(kind) /\ Since(p, last, kind) < MaxRecent
  <2>1. /\ Since(p, m, kind) <= Since(p, n, kind)'
        /\ Since(p, m, kind) \in Nat /\ Since(p, n, kind)' \in Nat
    BY <1>m, SinceGrows
  <2>2. p \in Places(kind)
    BY <1>1, <1>3 DEF Places
  <2> QED BY <1>m, <1>3, <2>1, <2>2
<1>4. CASE observed'[p].kind = "action" /\ Since(p, n, "action")' < MaxRecent
  <2>1. p \in actions
    BY <1>2, <1>3, <1>4 DEF CorrelatorInv, Kept, ActionsKept
  <2> QED BY <1>4, <2>1 DEF InWindow
<1>5. CASE observed'[p].kind = "request" /\ Since(p, n, "request")' < MaxRecent
  <2>1. p \in requests \cup LinkedRequests
    BY <1>2, <1>3, <1>5 DEF CorrelatorInv, Kept, RequestsKept
  <2> QED BY <1>5, <2>1 DEF InWindow
<1> QED BY <1>4, <1>5

(* Whether two earlier observations met is settled.                          *)
LEMMA MetIsSettled ==
  ASSUME CorrelatorInv, NEW event \in Actions \cup Requests, Happens(event),
         NEW a \in 1..last, NEW r \in 1..last
  PROVE  Met(a, r)' = Met(a, r)
<1>m. PICK m, n : m = last /\ n = last + 1
  OBVIOUS
<1>1. /\ Since(a, r, "action")' = Since(a, r, "action")
      /\ Since(r, a, "request")' = Since(r, a, "request")
  BY <1>m, SinceGrows
<1> QED BY <1>1 DEF Met

LEMMA HappensNothingMissed ==
  ASSUME CorrelatorInv, NEW event \in Actions \cup Requests, Happens(event)
  PROVE  NothingMissed'
<1>n. PICK n : n = last + 1
  OBVIOUS
<1>1. /\ last \in Nat /\ n = Len(observed') /\ observed' \in Seq(Action \cup Request)
      /\ last = Len(observed) /\ newest' = observed'[n].time /\ newest' \in Nat
      /\ \A p \in 1..last : observed'[p] = observed[p]
      /\ observed'[n].kind = event.kind
  BY <1>n, HappensStep
<1> SUFFICES ASSUME NEW a \in Places("action")', NEW r \in Places("request")',
                    Status(observed'[a], observed'[r]) # "none", Met(a, r)'
             PROVE  r \in LinkedRequests'
  BY DEF NothingMissed, LinkedRequests
<1>2. /\ a \in 1..n /\ observed'[a].kind = "action" /\ observed'[a] \in Action
      /\ r \in 1..n /\ observed'[r].kind = "request" /\ observed'[r] \in Request
  BY <1>1 DEF Places, Action, Request
<1>3. /\ observed'[a].time >= observed'[r].time - Window
      /\ observed'[r].time >= observed'[a].time - Window
  BY <1>2, ExplainedIsClose
<1>4. CASE a \in 1..last /\ r \in 1..last
  <2>1. /\ a \in Places("action") /\ r \in Places("request")
        /\ Status(observed[a], observed[r]) # "none" /\ Met(a, r)
    BY <1>1, <1>2, <1>4, MetIsSettled DEF Places
  <2>2. r \in LinkedRequests
    BY <2>1 DEF CorrelatorInv, NothingMissed, LinkedRequests
  <2> QED BY <2>2, LinksGrow
<1>5. CASE a = n /\ r \in 1..last
  <2>1. event \in Actions /\ ObserveAction(n, newest')
    BY <1>1, <1>2, <1>5, <1>n, HappensStep DEF Request
  <2>2. Since(r, n, "request")' < MaxRecent
    BY <1>n, <1>1, <1>5 DEF Met
  <2>3. r \in InWindow(requests) \cup LinkedRequests
    BY <1>1, <1>2, <1>3, <1>5, <1>n, <2>2, MetIsRemembered
  <2>4. r \in InWindow(requests) => r \in LinkedRequests'
    <3>1. r \in InWindow(requests) => Link(n, r) \in links'
      BY <1>5, <1>n, <2>1, ActionStep, ZenonT(60)
    <3> QED BY <3>1 DEF Link, LinkedRequests
  <2> QED BY <2>3, <2>4, LinksGrow
<1>6. CASE r = n /\ a \in 1..last
  <2>1. event \in Requests /\ ObserveRequest(n, newest')
    BY <1>1, <1>2, <1>6, <1>n, HappensStep DEF Action
  <2>2. Since(a, n, "action")' < MaxRecent
    BY <1>n, <1>1, <1>6 DEF Met
  <2>3. a \in InWindow(actions)
    BY <1>1, <1>2, <1>3, <1>6, <1>n, <2>2, MetIsRemembered
  <2>4. Candidates(observed', InWindow(actions), n) # {}
    BY <1>6, <2>3 DEF Candidates
  <2>5. PICK b : Link(b, n) \in links'
    BY <1>n, <2>1, <2>4, RequestStep
  <2> QED BY <1>6, <2>5 DEF Link, LinkedRequests
<1> QED BY <1>1, <1>2, <1>4, <1>5, <1>6, <1>n

LEMMA LinksOfAction ==
  ASSUME CorrelatorInv, NEW event \in Actions, Happens(event),
         ObserveAction(last + 1, newest'), NEW l \in links', l \notin links
  PROVE  \E r \in InWindow(requests) : l = Link(last + 1, r)
<1> DEFINE n == last + 1
           E == {r \in InWindow(requests) : Status(observed'[n], observed'[r]) # "none"}
<1>1. links' = links \cup {Link(n, r) : r \in E}
  BY ActionStep
<1>2. E \subseteq InWindow(requests)
  OBVIOUS
<1> HIDE DEF E
<1> QED BY <1>1, <1>2

LEMMA HappensLinkIsBest ==
  ASSUME CorrelatorInv, NEW event \in Actions \cup Requests, Happens(event)
  PROVE  LinkIsBest'
<1>n. PICK n : n = last + 1
  OBVIOUS
<1>1. /\ last \in Nat /\ n = Len(observed') /\ observed' \in Seq(Action \cup Request)
      /\ last = Len(observed) /\ newest' = observed'[n].time /\ newest' \in Nat
      /\ \A p \in 1..last : observed'[p] = observed[p]
      /\ observed'[n].kind = event.kind
  BY <1>n, HappensStep
<1> SUFFICES ASSUME NEW l \in links', NEW b \in Places("action")',
                    Status(observed'[b], observed'[l.request]) # "none",
                    Met(b, l.request)', b <= Later(l.action, l.request)
             PROVE  ~ Better(observed'[b], observed'[l.action], observed'[l.request])
  BY DEF LinkIsBest
<1>2. b \in 1..n /\ observed'[b].kind = "action" /\ observed'[b] \in Action
  BY <1>1 DEF Places, Action, Request
<1>3. CASE l \in links
  <2>1. l.action \in 1..last /\ l.request \in 1..last
    BY <1>3 DEF CorrelatorInv, TypeOK
  <2>2. b \in 1..last
    BY <1>1, <1>2, <1>n, <2>1 DEF Later
  <2>3. /\ b \in Places("action") /\ Met(b, l.request)
        /\ observed'[b] = observed[b] /\ observed'[l.action] = observed[l.action]
        /\ observed'[l.request] = observed[l.request]
    <3>1. \A q \in 1..last : Met(b, q)' = Met(b, q)
      BY <2>2, MetIsSettled
    <3>2. PICK q : q = l.request
      OBVIOUS
    <3>3. Met(b, q)
      BY <2>1, <3>1, <3>2
    <3> QED BY <1>1, <1>2, <2>1, <2>2, <3>2, <3>3 DEF Places
  <2> QED BY <1>3, <2>3 DEF CorrelatorInv, LinkIsBest
<1>4. CASE event \in Actions /\ ObserveAction(n, newest') /\ l \notin links
  <2>1. PICK r \in InWindow(requests) : l = Link(n, r)
    BY <1>4, <1>n, LinksOfAction
  <2>2. r \in requests /\ r \in 1..last /\ observed'[r].kind = "request" /\ observed'[r] \in Request
    <3>1. r \in requests /\ r \in 1..last /\ observed[r].kind = "request"
      BY <2>1 DEF InWindow, CorrelatorInv, TypeOK
    <3>2. r \in 1..Len(observed') /\ observed'[r].kind = "request"
      BY <1>1, <1>n, <3>1
    <3> QED BY <1>1, <3>1, <3>2 DEF Action, Request
  <2>3. l.action = n /\ l.request = r
    BY <2>1 DEF Link
  <2>4. CASE b = n
    BY <1>2, <2>2, <2>3, <2>4, NothingBeatsItself
  <2>5. CASE b \in 1..last
    <3>1. Met(b, r)
      BY <2>2, <2>3, <2>5, MetIsSettled
    <3>2. /\ b \in Places("action") /\ r \in Places("request")
          /\ Status(observed[b], observed[r]) # "none"
      BY <1>1, <1>2, <2>2, <2>3, <2>5 DEF Places
    <3>3. r \in LinkedRequests
      BY <3>1, <3>2 DEF CorrelatorInv, NothingMissed, LinkedRequests
    <3> QED BY <2>2, <3>3 DEF CorrelatorInv, LinkedOnce, LinkedRequests
  <2> QED BY <1>1, <1>2, <1>n, <2>4, <2>5
<1>5. CASE event \in Requests /\ ObserveRequest(n, newest') /\ l \notin links
  <2>1. PICK a \in Best(observed', InWindow(actions), n) : l = Link(a, n)
    BY <1>5, <1>n, RequestStep
  <2>2. l.action = a /\ l.request = n
    BY <2>1 DEF Link
  <2>3. b \in 1..last /\ observed'[n] \in Request
    <3>1. event.kind = "request" /\ observed'[n].kind = "request"
      BY <1>1, <1>5 DEF Request
    <3>2. n \in 1..Len(observed')
      BY <1>1, <1>n
    <3>3. observed'[n] \in Action \cup Request
      BY <1>1, <3>2
    <3>4. b # n
      BY <1>2, <3>1
    <3> QED BY <1>1, <1>2, <1>n, <3>1, <3>3, <3>4 DEF Action, Request
  <2>4. Since(b, n, "action")' < MaxRecent
    BY <1>1, <1>n, <2>2, <2>3 DEF Met
  <2>5. observed'[b].time >= newest' - Window
    BY <1>1, <1>2, <2>2, <2>3, ExplainedIsClose
  <2>6. b \in InWindow(actions)
    BY <1>2, <1>n, <2>3, <2>4, <2>5, MetIsRemembered
  <2> QED BY <2>1, <2>2, <2>6 DEF Best, Candidates
<1> QED BY <1>3, <1>4, <1>5, <1>n, HappensStep

-----------------------------------------------------------------------------
(* Theorems.                                                                 *)

\* The invariant holds for any number of observations: replays are rejected,
\* and every accepted observation keeps it.
THEOREM CorrelatorInvariance == Spec => []CorrelatorInv
<1>1. Init => CorrelatorInv
  BY InitInv
<1>2. CorrelatorInv /\ [Next]_vars => CorrelatorInv'
  <2> SUFFICES ASSUME CorrelatorInv, [Next]_vars PROVE CorrelatorInv'
    OBVIOUS
  <2>1. ASSUME NEW event \in Actions \cup Requests, Happens(event)
        PROVE  CorrelatorInv'
    BY <2>1, HappensTypeOK, HappensOrdered, HappensLinkedOnce, HappensWaiting, HappensKept,
       HappensNothingMissed, HappensLinkIsBest DEF CorrelatorInv
  <2>2. CASE UNCHANGED vars
    <3>1. /\ observed' = observed /\ last' = last /\ newest' = newest /\ actions' = actions
          /\ requests' = requests /\ links' = links /\ emitted' = emitted
      BY <2>2 DEF vars
    <3>2. TypeOK' /\ Ordered' /\ LinkedOnce' /\ WaitingIsUnexplained'
      BY <3>1 DEF CorrelatorInv, TypeOK, Ordered, LinkedOnce, WaitingIsUnexplained
    <3>3. ActionsKept' /\ RequestsKept'
      BY <3>1 DEF CorrelatorInv, Kept, ActionsKept, RequestsKept, Places, Since, LinkedRequests
    <3>4. NothingMissed'
      <4>1. Places("action")' = Places("action") /\ Places("request")' = Places("request")
        BY <3>1 DEF Places
      <4>2. \A a, r : Met(a, r)' = Met(a, r)
        BY <3>1 DEF Met, Since
      <4> QED BY <3>1, <4>1, <4>2 DEF CorrelatorInv, NothingMissed
    <3>5. LinkIsBest'
      BY <3>1 DEF CorrelatorInv, LinkIsBest, Places, Since, Met
    <3> QED BY <3>2, <3>3, <3>4, <3>5 DEF CorrelatorInv, Kept
  <2>3. ASSUME NEW n \in 1..Len(observed), Replay(n)
        PROVE  CorrelatorInv'
    <3>1. n <= last /\ n \in Nat /\ last \in Nat
      BY DEF CorrelatorInv, TypeOK
    <3>2. ~ Fresh(n)
      BY <3>1 DEF Fresh
    <3>3. UNCHANGED vars
      BY <2>3, <3>2 DEF Replay, Observe, vars
    <3> QED BY <2>2, <3>3
  <2> QED BY <2>1, <2>2, <2>3 DEF Next
<1> QED BY <1>1, <1>2, PTL DEF Spec

\* What the correlator remembers never outgrows max_recent of each kind, nor
\* the window (correlation.py:93-127).
THEOREM CorrelatorMemoryIsBounded == Spec => []TypeOK
<1>1. CorrelatorInv => TypeOK
  BY DEF CorrelatorInv
<1> QED BY <1>1, CorrelatorInvariance, PTL

\* A request is linked at most once, whatever is handed over again.
THEOREM RequestsAreLinkedOnce == Spec => []LinkedOnce
<1>1. CorrelatorInv => LinkedOnce
  BY DEF CorrelatorInv
<1> QED BY <1>1, CorrelatorInvariance, PTL

\* Nothing that is remembered explains a request that waits.
THEOREM WaitingRequestsAreUnexplained == Spec => []WaitingIsUnexplained
<1>1. CorrelatorInv => WaitingIsUnexplained
  BY DEF CorrelatorInv
<1> QED BY <1>1, CorrelatorInvariance, PTL

\* Every request that met an action which explains it is linked, for any
\* window and any max_recent.
THEOREM NoExplanationIsMissed == Spec => []NothingMissed
<1>1. CorrelatorInv => NothingMissed
  BY DEF CorrelatorInv
<1> QED BY <1>1, CorrelatorInvariance, PTL

\* The action a request is linked to is the best it met until then.
THEOREM LinksAreBest == Spec => []LinkIsBest
<1>1. CorrelatorInv => LinkIsBest
  BY DEF CorrelatorInv
<1> QED BY <1>1, CorrelatorInvariance, PTL

=============================================================================
