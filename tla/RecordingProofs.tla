---------------------------- MODULE RecordingProofs ----------------------------
(* Proofs about Recording for any tabs, frames and requests, any events in   *)
(* any order, and any length of the queue.                                   *)
EXTENDS Recording, FiniteSetTheorems, WellFoundedInduction, TLAPS

(* A state of the registry has its six fields.                               *)
Fields == {"t2s", "s2t", "info", "configured", "bound", "observing"}

Shaped(r) == DOMAIN r = Fields

Sound(r) == Shaped(r) /\ Paired(r)

RegistryInv == Sound(reg)

-----------------------------------------------------------------------------
(* Operations that leave the dictionaries alone.                             *)
LEMMA SameDictionaries ==
  ASSUME NEW r, NEW q, Sound(r), Shaped(q), q.t2s = r.t2s, q.s2t = r.s2t
  PROVE  Sound(q)
BY DEF Sound, Paired

LEMMA RegisteredKeeps ==
  ASSUME NEW r, NEW t, NEW s, NEW info, Sound(r)
  PROVE  Sound(Registered(r, t, s, info))
<1> DEFINE q == Registered(r, t, s, info)
           T == Without(r.t2s, Stale(r.s2t, s, t))
           S == Without(r.s2t, Stale(r.t2s, t, s))
<1>1. Shaped(q) /\ q.t2s = Put(T, t, s) /\ q.s2t = Put(S, s, t)
  BY DEF Sound, Shaped, Fields, Registered
<1>2. ASSUME NEW u \in DOMAIN q.t2s
      PROVE  q.t2s[u] \in DOMAIN q.s2t /\ q.s2t[q.t2s[u]] = u
  <2>1. CASE u = t
    BY <1>1, <2>1 DEF Put
  <2>2. CASE u # t
    <3>1. u \in DOMAIN r.t2s /\ q.t2s[u] = r.t2s[u] /\ u \notin Stale(r.s2t, s, t)
      BY <1>1, <2>2 DEF Put, Without
    <3>2. r.t2s[u] \in DOMAIN r.s2t /\ r.s2t[r.t2s[u]] = u
      BY <3>1 DEF Sound, Paired
    <3>3. r.t2s[u] # s
      BY <3>1, <3>2, <2>2 DEF Stale
    <3>4. r.t2s[u] \notin Stale(r.t2s, t, s)
      BY <3>2, <2>2 DEF Stale, Sound, Paired
    <3> QED
      BY <1>1, <3>1, <3>2, <3>3, <3>4 DEF Put, Without
  <2> QED
    BY <2>1, <2>2
<1>3. ASSUME NEW x \in DOMAIN q.s2t
      PROVE  q.s2t[x] \in DOMAIN q.t2s /\ q.t2s[q.s2t[x]] = x
  <2>1. CASE x = s
    BY <1>1, <2>1 DEF Put
  <2>2. CASE x # s
    <3>1. x \in DOMAIN r.s2t /\ q.s2t[x] = r.s2t[x] /\ x \notin Stale(r.t2s, t, s)
      BY <1>1, <2>2 DEF Put, Without
    <3>2. r.s2t[x] \in DOMAIN r.t2s /\ r.t2s[r.s2t[x]] = x
      BY <3>1 DEF Sound, Paired
    <3>3. r.s2t[x] # t
      BY <3>1, <3>2, <2>2 DEF Stale
    <3>4. r.s2t[x] \notin Stale(r.s2t, s, t)
      BY <3>2, <2>2 DEF Stale, Sound, Paired
    <3> QED
      BY <1>1, <3>1, <3>2, <3>3, <3>4 DEF Put, Without
  <2> QED
    BY <2>1, <2>2
<1> QED
  BY <1>1, <1>2, <1>3 DEF Sound, Paired

LEMMA TargetRemovedKeeps ==
  ASSUME NEW r, NEW t, Sound(r)
  PROVE  Sound(TargetRemoved(r, t))
<1> DEFINE q == TargetRemoved(r, t)
           gone == {r.t2s[x] : x \in {t} \cap DOMAIN r.t2s}
<1>1. Shaped(q) /\ q.t2s = Without(r.t2s, {t}) /\ q.s2t = Without(r.s2t, gone)
  BY DEF Sound, Shaped, Fields, TargetRemoved
<1>2. ASSUME NEW u \in DOMAIN q.t2s
      PROVE  q.t2s[u] \in DOMAIN q.s2t /\ q.s2t[q.t2s[u]] = u
  BY <1>1 DEF Sound, Paired, Without
<1>3. ASSUME NEW x \in DOMAIN q.s2t
      PROVE  q.s2t[x] \in DOMAIN q.t2s /\ q.t2s[q.s2t[x]] = x
  BY <1>1 DEF Sound, Paired, Without
<1> QED
  BY <1>1, <1>2, <1>3 DEF Sound, Paired

LEMMA SessionRemovedKeeps ==
  ASSUME NEW r, NEW s, Sound(r)
  PROVE  Sound(SessionRemoved(r, s))
<1> DEFINE q == SessionRemoved(r, s)
           gone == {r.s2t[x] : x \in {s} \cap DOMAIN r.s2t}
<1>1. Shaped(q) /\ q.s2t = Without(r.s2t, {s}) /\ q.t2s = Without(r.t2s, gone)
  BY DEF Sound, Shaped, Fields, SessionRemoved
<1>2. ASSUME NEW u \in DOMAIN q.t2s
      PROVE  q.t2s[u] \in DOMAIN q.s2t /\ q.s2t[q.t2s[u]] = u
  BY <1>1 DEF Sound, Paired, Without
<1>3. ASSUME NEW x \in DOMAIN q.s2t
      PROVE  q.s2t[x] \in DOMAIN q.t2s /\ q.t2s[q.s2t[x]] = x
  BY <1>1 DEF Sound, Paired, Without
<1> QED
  BY <1>1, <1>2, <1>3 DEF Sound, Paired

LEMMA DiscardedKeeps ==
  ASSUME NEW r, NEW ss, Sound(r)
  PROVE  Sound(Discarded(r, ss))
<1>1. Shaped(Discarded(r, ss)) /\ Discarded(r, ss).t2s = r.t2s /\ Discarded(r, ss).s2t = r.s2t
  BY DEF Sound, Shaped, Fields, Discarded
<1> QED
  BY <1>1, SameDictionaries

LEMMA ConfiguredKeeps ==
  ASSUME NEW r, NEW s, NEW observable, NEW granted, Sound(r)
  PROVE  Sound(Configured(r, s, observable, granted))
<1> DEFINE q == Configured(r, s, observable, granted)
<1>1. Shaped(q) /\ q.t2s = r.t2s /\ q.s2t = r.s2t
  BY DEF Sound, Shaped, Fields, Configured
<1> QED
  BY <1>1, SameDictionaries

LEMMA DetachedKeeps ==
  ASSUME NEW r, NEW s, Sound(r)
  PROVE  Sound(Detached(r, s))
BY SessionRemovedKeeps, DiscardedKeeps DEF Detached

LEMMA TerminatedKeeps ==
  ASSUME NEW r, NEW t, Sound(r)
  PROVE  Sound(Terminated(r, t))
BY TargetRemovedKeeps, DiscardedKeeps DEF Terminated

-----------------------------------------------------------------------------
LEMMA InitSound == Init => RegistryInv
<1> SUFFICES ASSUME Init PROVE RegistryInv
  OBVIOUS
<1>1. reg = NoTargets
  BY DEF Init
<1>2. Shaped(NoTargets)
  BY DEF Shaped, Fields, NoTargets
<1>3. DOMAIN NoTargets.t2s = {} /\ DOMAIN NoTargets.s2t = {}
  BY DEF NoTargets
<1> QED
  BY <1>1, <1>2, <1>3 DEF RegistryInv, Sound, Paired

(* The steps that change the registry.                                       *)
LEMMA ConsumerKeeps ==
  ASSUME RegistryInv, Consume
  PROVE  RegistryInv'
<1>1. ASSUME NEW granted \in Grants, Configure(granted) PROVE RegistryInv'
  BY <1>1, ConfiguredKeeps DEF Configure, RegistryInv
<1>2. CASE AttachAnswers
  BY <1>2, RegisteredKeeps DEF AttachAnswers, RegistryInv
<1>3. CASE TargetTold
  <2> DEFINE t == Head(wire).target
             shows == Head(wire).shows
  <2>1. CASE t \in DOMAIN reg.t2s
    <3>1. reg' = [reg EXCEPT !.info = Put(@, t, shows)]
      BY <1>3, <2>1 DEF TargetTold
    <3>2. Shaped(reg') /\ reg'.t2s = reg.t2s /\ reg'.s2t = reg.s2t
      BY <3>1 DEF RegistryInv, Sound, Shaped, Fields
    <3> QED
      BY <3>2, SameDictionaries DEF RegistryInv
  <2>2. CASE t \notin DOMAIN reg.t2s
    BY <1>3, <2>2 DEF TargetTold, RegistryInv
  <2> QED
    BY <2>1, <2>2
<1>4. CASE SessionTold
  <2> DEFINE e == Head(wire)
  <2>1. reg' = reg \/ reg' = Registered(reg, e.target, e.session, e.shows)
    BY <1>4 DEF SessionTold
  <2> QED
    BY <2>1, RegisteredKeeps DEF RegistryInv
<1>5. CASE SessionGone
  BY <1>5, DetachedKeeps DEF SessionGone, RegistryInv
<1>6. CASE TargetGone
  BY <1>6, TerminatedKeeps DEF TargetGone, RegistryInv
<1>7. ASSUME reg' = reg PROVE RegistryInv'
  BY <1>7 DEF RegistryInv
<1>8. CASE (\E t \in Pages : Bootstrap(t)) \/ AttachFails \/ ActionTold \/ SocketTold
  BY <1>7, <1>8 DEF Bootstrap, AttachFails, ActionTold, SocketTold
<1>9. CASE ContextCreated \/ ContextsCleared \/ ContextDestroyed
  BY <1>7, <1>9 DEF ContextCreated, ContextsCleared, ContextDestroyed, Mirrors
<1>10. CASE RequestTold \/ ResponseTold \/ EndTold
  BY <1>7, <1>10 DEF RequestTold, ResponseTold, EndTold, Network
<1> QED
  BY <1>1, <1>2, <1>3, <1>4, <1>5, <1>6, <1>8, <1>9, <1>10 DEF Consume

LEMMA BrowserStepsKeep ==
  ASSUME BrowserStep
  PROVE  BrowserKeeps
<1>1. ASSUME NEW t, NEW r, NEW own, NEW clear, Fetches(t, r, own, clear) PROVE BrowserKeeps
  BY <1>1 DEF Fetches
<1>2. ASSUME NEW r, NEW own, NEW clear, Redirects(r, own, clear) PROVE BrowserKeeps
  BY <1>2 DEF Redirects
<1>3. CASE \E r \in Ids, own \in BOOLEAN : \E clear \in {TRUE, ~own} :
             (\E t \in Targets : Fetches(t, r, own, clear)) \/ Redirects(r, own, clear)
  BY <1>1, <1>2, <1>3
<1> QED
  BY <1>3 DEF BrowserStep, Opens, Moves, Closes, Crashes, Clicks, Responds, Ends, Socket

LEMMA BrowserKeepsRegistry ==
  ASSUME RegistryInv, BrowserStep
  PROVE  RegistryInv'
BY BrowserStepsKeep DEF BrowserKeeps, collector, RegistryInv

(* The dictionaries of the registry are inverse to each other in every       *)
(* reachable state.                                                          *)
THEOREM RegistryStaysPaired == Spec => []RegistryInverse
<1>1. RegistryInv /\ [Next]_vars => RegistryInv'
  <2> SUFFICES ASSUME RegistryInv, [Next]_vars PROVE RegistryInv'
    OBVIOUS
  <2>1. CASE UNCHANGED vars
    BY <2>1 DEF vars, collector, RegistryInv
  <2> QED
    BY <2>1, ConsumerKeeps, BrowserKeepsRegistry DEF Next
<1>2. RegistryInv => RegistryInverse
  BY DEF RegistryInv, Sound, RegistryInverse
<1> QED
  BY <1>1, <1>2, InitSound, PTL DEF Spec

-----------------------------------------------------------------------------
(* Sequences whose elements are of no particular set.                        *)
IsSequence(q) == q \in Seq(Range(q))

LEMMA SequenceOf ==
  ASSUME NEW n \in Nat, NEW f, f = [k \in 1 .. n |-> f[k]]
  PROVE  IsSequence(f) /\ Len(f) = n /\ DOMAIN f = 1 .. n
<1>1. \A k \in 1 .. n : f[k] \in Range(f)
  BY DEF Range
<1>2. f \in Seq(Range(f))
  BY <1>1
<1> QED
  BY <1>2 DEF IsSequence

LEMMA OfMore ==
  ASSUME NEW S, NEW T, NEW q \in Seq(S), S \subseteq T
  PROVE  q \in Seq(T)
OBVIOUS

LEMMA Appended ==
  ASSUME NEW q, NEW p, IsSequence(q), IsSequence(p)
  PROVE  /\ IsSequence(q \o p) /\ Len(q \o p) = Len(q) + Len(p)
         /\ Len(q) \in Nat /\ Len(p) \in Nat
         /\ DOMAIN q = 1 .. Len(q) /\ DOMAIN p = 1 .. Len(p)
         /\ DOMAIN (q \o p) = 1 .. Len(q) + Len(p)
         /\ \A k \in DOMAIN q : (q \o p)[k] = q[k]
         /\ \A k \in DOMAIN p : (q \o p)[Len(q) + k] = p[k]
         /\ \A k \in DOMAIN (q \o p) :
              \/ k \in DOMAIN q
              \/ k > Len(q) /\ k - Len(q) \in DOMAIN p /\ (q \o p)[k] = p[k - Len(q)]
<1> DEFINE S == Range(q) \cup Range(p)
           u == q \o p
<1>1. q \in Seq(S) /\ p \in Seq(S)
  BY OfMore DEF IsSequence
<1> HIDE DEF S
<1>2. /\ Len(q) \in Nat /\ Len(p) \in Nat /\ DOMAIN q = 1 .. Len(q) /\ DOMAIN p = 1 .. Len(p)
      /\ u \in Seq(S) /\ Len(u) = Len(q) + Len(p) /\ DOMAIN u = 1 .. Len(q) + Len(p)
      /\ \A k \in 1 .. Len(q) + Len(p) : u[k] = IF k <= Len(q) THEN q[k] ELSE p[k - Len(q)]
  BY <1>1
<1> HIDE DEF u
<1>3. \A k \in DOMAIN q : u[k] = q[k]
  BY <1>2
<1>4. \A k \in DOMAIN p : u[Len(q) + k] = p[k]
  <2> TAKE k \in DOMAIN p
  <2>1. /\ Len(q) + k \in 1 .. Len(q) + Len(p) /\ ~(Len(q) + k <= Len(q))
        /\ (Len(q) + k) - Len(q) = k
    BY <1>2
  <2> QED
    BY <1>2, <2>1
<1>5. \A k \in DOMAIN u :
        \/ k \in DOMAIN q
        \/ k > Len(q) /\ k - Len(q) \in DOMAIN p /\ u[k] = p[k - Len(q)]
  BY <1>2
<1>6. u = [k \in 1 .. Len(q) + Len(p) |-> u[k]] /\ Len(q) + Len(p) \in Nat
  BY <1>2
<1>7. IsSequence(u)
  BY ONLY <1>6, SequenceOf
<1> QED
  BY <1>2, <1>3, <1>4, <1>5, <1>7 DEF u

(* A sequence made of two others.                                            *)
Joins(u, q, p) ==
  /\ \A k \in DOMAIN q : k \in DOMAIN u /\ u[k] = q[k]
  /\ \A k \in DOMAIN p : \E l \in DOMAIN u : u[l] = p[k]
  /\ \A k \in DOMAIN u :
       (k \in DOMAIN q /\ u[k] = q[k]) \/ \E l \in DOMAIN p : u[k] = p[l]

LEMMA Parts ==
  ASSUME NEW q, NEW p, IsSequence(q), IsSequence(p)
  PROVE  IsSequence(q \o p) /\ Joins(q \o p, q, p)
<1> DEFINE u == q \o p
<1>1. /\ IsSequence(u) /\ Len(q) \in Nat /\ Len(p) \in Nat
      /\ DOMAIN q = 1 .. Len(q) /\ DOMAIN p = 1 .. Len(p) /\ DOMAIN u = 1 .. Len(q) + Len(p)
      /\ \A k \in DOMAIN q : u[k] = q[k]
      /\ \A k \in DOMAIN p : u[Len(q) + k] = p[k]
      /\ \A k \in DOMAIN u :
           \/ k \in DOMAIN q
           \/ k > Len(q) /\ k - Len(q) \in DOMAIN p /\ u[k] = p[k - Len(q)]
  BY Appended
<1>2. \A k \in DOMAIN q : k \in DOMAIN u
  BY <1>1
<1> HIDE DEF u
<1>3. \A k \in DOMAIN p : Len(q) + k \in DOMAIN u
  BY <1>1
<1> QED
  BY <1>1, <1>2, <1>3 DEF Joins, u

LEMMA Rest ==
  ASSUME NEW q, IsSequence(q), q # <<>>
  PROVE  /\ IsSequence(Tail(q)) /\ Len(q) \in Nat /\ Len(q) > 0 /\ Len(Tail(q)) = Len(q) - 1
         /\ DOMAIN q = 1 .. Len(q) /\ DOMAIN Tail(q) = 1 .. Len(q) - 1
         /\ Head(q) = q[1]
         /\ \A k \in DOMAIN Tail(q) : k + 1 \in DOMAIN q /\ Tail(q)[k] = q[k + 1]
<1> DEFINE S == Range(q)
<1>1. q \in Seq(S)
  BY DEF IsSequence
<1> HIDE DEF S
<1> DEFINE u == Tail(q)
<1>2. /\ Len(q) \in Nat /\ Len(q) > 0 /\ DOMAIN q = 1 .. Len(q) /\ Head(q) = q[1]
      /\ u \in Seq(S) /\ Len(u) = Len(q) - 1 /\ DOMAIN u = 1 .. Len(q) - 1
      /\ \A k \in 1 .. Len(q) - 1 : u[k] = q[k + 1]
  BY <1>1
<1> HIDE DEF u
<1>3. u = [k \in 1 .. Len(q) - 1 |-> u[k]] /\ Len(q) - 1 \in Nat
  BY <1>2
<1>4. IsSequence(u)
  BY ONLY <1>3, SequenceOf
<1>5. \A k \in DOMAIN u : k + 1 \in DOMAIN q
  BY <1>2
<1> QED
  BY <1>2, <1>4, <1>5 DEF u

(* The order of a finite set.                                                *)
LEMMA SetOrder ==
  ASSUME NEW S, IsFiniteSet(S)
  PROVE  /\ Cardinality(S) \in Nat /\ DOMAIN SetToSeq(S) = 1 .. Cardinality(S)
         /\ \A k \in DOMAIN SetToSeq(S) : SetToSeq(S)[k] \in S
         /\ \A x \in S : \E k \in DOMAIN SetToSeq(S) : SetToSeq(S)[k] = x
         /\ \A j, k \in DOMAIN SetToSeq(S) : SetToSeq(S)[j] = SetToSeq(S)[k] => j = k
<1> DEFINE n == Cardinality(S)
           q == SetToSeq(S)
<1>1. n \in Nat /\ ExistsBijection(1 .. n, S)
  BY FS_CardinalityType
<1>2. \E f \in [1 .. n -> S] : IsInjective(f)
  BY <1>1 DEF ExistsBijection, Bijection, Injection
<1>3. q \in [1 .. n -> S] /\ IsInjective(q)
  BY <1>2 DEF SetToSeq
<1>4. q \in Injection(1 .. n, S)
  BY <1>3 DEF Injection
<1>5. Cardinality(1 .. n) = n
  BY <1>1, FS_Interval
<1>6. q \in Surjection(1 .. n, S)
  BY <1>4, <1>5, FS_Injection
<1> HIDE DEF q
<1>7. \A x \in S : \E k \in 1 .. n : q[k] = x
  BY <1>6 DEF Surjection
<1> QED
  BY <1>1, <1>3, <1>7 DEF q, IsInjective

-----------------------------------------------------------------------------
(* What the browser and the collector know of sessions.                      *)

(* The sessions whose end the consumer has not handled.                      *)
Present == (1 .. opened) \ departed

SessionsInv ==
  /\ opened \in Nat /\ DOMAIN doc = Targets
  /\ DOMAIN attached \subseteq 1 .. opened
  /\ \A s \in DOMAIN attached : attached[s] \in Targets /\ doc[attached[s]] # "closed"
  /\ departed \subseteq (1 .. opened) \ DOMAIN attached
  /\ DOMAIN enabled = Commands /\ enabled["script"] \subseteq enabled["binding"]
  /\ enabled["binding"] \subseteq 1 .. opened

AtInv ==
  /\ at.do = "attach" => at.target \in Targets
  /\ at.do = "configure" => at.session \in Present

(* What a session has been granted makes it hear of a context.               *)
Granted(given, s, w) ==
  /\ s \in given["binding"] /\ w \in Worlds
  /\ w = "observer" => s \in given["script"]

(* Whatever the collector keeps is of sessions that are present, and of the  *)
(* targets they are attached to.                                             *)
KeptInv ==
  /\ DOMAIN reg.s2t \cup reg.configured \cup reg.bound \cup reg.observing \subseteq Present
  /\ reg.bound \subseteq enabled["binding"]
  /\ \A s \in DOMAIN reg.s2t \cap DOMAIN attached : reg.s2t[s] = attached[s]
  /\ \A k \in DOMAIN contexts :
       /\ k = <<k[1], k[2]>> /\ k[1] \in Present /\ Granted(enabled, k[1], k[2])
       /\ contexts[k].world = k[2]

(* Events that make something of a session known; none follows the end of    *)
(* the session.                                                              *)
Names(e) == e.m \in {"attached", "contextCreated", "bindingCalled"}

EventInv(e) ==
  /\ Names(e) => e.session \in Present
  /\ e.m = "attached" /\ e.session \in DOMAIN attached => e.target = attached[e.session]
  /\ e.m = "contextCreated" => e.id = e.world /\ Granted(enabled, e.session, e.id)
  /\ e.m = "detached" => e.session \in (1 .. opened) \ DOMAIN attached
  /\ e.m = "socket" => e.what \in {"created", "frame", "closed"}

WireInv ==
  /\ IsSequence(wire)
  /\ \A k \in DOMAIN wire : EventInv(wire[k])
  /\ \A j, k \in DOMAIN wire :
       j > k /\ wire[k].m = "detached" /\ Names(wire[j]) => wire[j].session # wire[k].session

(* Events upon which a context of a session is forgotten.                    *)
Discards(e, s, w) ==
  \/ e.m = "contextsCleared" /\ e.session = s
  \/ e.m = "contextDestroyed" /\ e.session = s /\ e.id = w

(* It is forgotten between two places of the queue.                          *)
Clears(s, w, i, j) ==
  \E k \in DOMAIN wire :
    i < k /\ k < j /\ Discards(wire[k], s, w)

(* A context of another document than the one the session's target shows.    *)
Outdated(s, origin) ==
  s \in DOMAIN attached /\ Shows(attached[s]) /\ origin # doc[attached[s]]

(* What is outdated is going to be forgotten.                                *)
DocumentsInv ==
  /\ \A i \in DOMAIN wire :
       wire[i].m = "contextCreated" /\ Outdated(wire[i].session, wire[i].origin)
         => Clears(wire[i].session, wire[i].id, i, Len(wire) + 1)
  /\ \A k \in DOMAIN contexts :
       Outdated(k[1], contexts[k].origin) => Clears(k[1], k[2], 0, Len(wire) + 1)

(* By the time an action is handled, its session is known by the target it   *)
(* was made in or not at all, and so is its context.                         *)
TruthInv ==
  \A j \in DOMAIN wire : wire[j].m = "bindingCalled" =>
    LET s == wire[j].session
        truth == wire[j].truth
    IN /\ truth.world = wire[j].id
       /\ s \in DOMAIN reg.s2t => reg.s2t[s] = truth.target
       /\ \A i \in DOMAIN wire :
            wire[i].m = "attached" /\ wire[i].session = s => wire[i].target = truth.target
       /\ \A i \in DOMAIN wire :
            i < j /\ wire[i].m = "contextCreated" /\ wire[i].session = s
              /\ wire[i].origin # truth.shows => Clears(s, wire[i].id, i, j)
       /\ \A k \in DOMAIN contexts :
            k[1] = s /\ contexts[k].origin # truth.shows => Clears(s, k[2], 0, j)

-----------------------------------------------------------------------------
(* The contexts of a session and those the consumer knows, or is going to.   *)

(* A context is announced at a place of the queue, or known already (0).     *)
Has(k, s, w) ==
  IF k = 0 THEN <<s, w>> \in DOMAIN contexts
  ELSE wire[k].m = "contextCreated" /\ wire[k].session = s /\ wire[k].id = w

Origin(k, s, w) == IF k = 0 THEN contexts[<<s, w>>].origin ELSE wire[k].origin

(* So it is if its target is gone.                                           *)
Wipes(e, s, w) ==
  \/ Discards(e, s, w)
  \/ e.m \in {"destroyed", "crashed"} /\ e.target = attached[s]

Wiped(s, w, k) == \E j \in DOMAIN wire : j > k /\ Wipes(wire[j], s, w)

(* What is known or announced, and not going to be forgotten, is what there  *)
(* is.                                                                       *)
NoneMore ==
  \A k \in 0 .. Len(wire), s \in Present, w \in Worlds : Has(k, s, w) =>
    /\ w = "observer" => s \in enabled["script"]
    /\ \A j \in DOMAIN wire : j > k /\ wire[j].m = "attached" => wire[j].session # s
    /\ s \in DOMAIN attached /\ ~Shows(attached[s]) /\ (k = 0 => s \in DOMAIN reg.s2t)
         => Wiped(s, w, k)

NoneLess ==
  \A s \in DOMAIN attached : \A w \in Live(s) :
    \E k \in 0 .. Len(wire) : Has(k, s, w) /\ Origin(k, s, w) = doc[attached[s]] /\ ~Wiped(s, w, k)

MirrorInv == NoneMore /\ NoneLess

-----------------------------------------------------------------------------
(* Steps that the browser tells of.                                          *)

(* Sessions are opened or end, and targets show something else.              *)
Grows ==
  /\ opened' \in Nat /\ opened <= opened' /\ DOMAIN attached' \subseteq 1 .. opened'
  /\ \A s \in DOMAIN attached' :
       /\ s <= opened => s \in DOMAIN attached /\ attached'[s] = attached[s]
       /\ attached'[s] \in Targets /\ doc'[attached'[s]] # "closed"
  /\ DOMAIN doc' = Targets /\ DOMAIN enabled' = Commands
  /\ \A c \in Commands : enabled[c] \subseteq enabled'[c]
  /\ enabled'["script"] \subseteq enabled'["binding"] /\ enabled'["binding"] \subseteq 1 .. opened
  /\ departed' = departed

(* What is told is so after the step.                                        *)
IsSo(e) ==
  /\ Names(e) => e.session \in DOMAIN attached'
  /\ e.m = "attached" => e.session > opened /\ e.target = attached'[e.session]
  /\ e.m = "contextCreated" =>
       /\ e.id = e.world /\ Granted(enabled', e.session, e.id)
       /\ e.origin = doc'[attached'[e.session]]
  /\ e.m = "detached" => e.session \in (1 .. opened) \ DOMAIN attached'
  /\ e.m = "socket" => e.what \in {"created", "frame", "closed"}
  /\ e.m = "bindingCalled" =>
       /\ e.truth.world = e.id /\ e.truth.target = attached'[e.session]
       /\ e.truth.shows = doc'[attached'[e.session]] /\ e.truth.shows \in {"own", "other"}

Tells(p) ==
  /\ IsSequence(p) /\ wire' = wire \o p
  /\ \A k \in DOMAIN p : IsSo(p[k])

(* Sessions learn of a new document of their target.                         *)
Announces(p) ==
  \A s \in DOMAIN attached \cap DOMAIN attached', w \in Worlds :
    Granted(enabled, s, w) /\ doc'[attached[s]] \in {"own", "other"}
      => \/ doc'[attached[s]] = doc[attached[s]]
         \/ \E k \in DOMAIN p : Discards(p[k], s, w)

(* Sessions learn of the contexts they have gained, and of the end of those  *)
(* they had.                                                                 *)
Reveals(p) ==
  /\ \A k \in DOMAIN p : p[k].m = "contextCreated" =>
       /\ p[k].session \in DOMAIN attached /\ doc'[attached[p[k].session]] \in {"own", "other"}
       /\ p[k].id = "observer" => p[k].session \in enabled'["script"]
  /\ \A s \in DOMAIN attached \cap DOMAIN attached', w \in Worlds :
       \/ doc'[attached[s]] \in {"own", "other"} \/ ~Shows(attached[s])
       \/ \E k \in DOMAIN p : Wipes(p[k], s, w)
  /\ \A s \in DOMAIN attached', w \in Worlds : w \in Live(s)' =>
       \/ /\ s \in DOMAIN attached /\ w \in Live(s) /\ doc'[attached[s]] = doc[attached[s]]
          /\ \A k \in DOMAIN p : ~Wipes(p[k], s, w)
       \/ \E k \in DOMAIN p :
            /\ p[k].m = "contextCreated" /\ p[k].session = s /\ p[k].id = w
            /\ \A j \in DOMAIN p : j > k => ~Wipes(p[j], s, w)

(* No session ends without its target, and targets are gone that are told to *)
(* be.                                                                       *)
Ceases(p) ==
  /\ \A s \in DOMAIN attached : s \in DOMAIN attached' \/ doc'[attached[s]] = "closed"
  /\ \A k \in DOMAIN p :
       p[k].m \in {"destroyed", "crashed"} => doc'[p[k].target] \notin {"own", "other"}

(* Steps that tell of sessions and targets, or of one action, and of no      *)
(* request.                                                                  *)
Traffic == {"request", "response", "finished", "failed"}

Others(p) ==
  \A k \in DOMAIN p :
    /\ p[k].m \notin Traffic
    /\ p[k].m = "bindingCalled" => Len(p) = 1 /\ steps' = steps + 1

ToldOfSessions ==
  \E p : Tells(p) /\ Grows /\ Ceases(p) /\ Others(p)

LEMMA GrowsKeeps ==
  ASSUME SessionsInv, Grows
  PROVE  /\ SessionsInv' /\ Present \subseteq Present' /\ DOMAIN attached' \subseteq Present'
         /\ enabled["binding"] \subseteq enabled'["binding"]
         /\ (1 .. opened) \subseteq 1 .. opened'
<1>1. "binding" \in Commands
  BY DEF Commands
<1>2. departed' \subseteq (1 .. opened') \ DOMAIN attached'
  BY DEF SessionsInv, Grows
<1>3. SessionsInv'
  BY <1>2 DEF SessionsInv, Grows
<1> QED
  BY <1>1, <1>2, <1>3 DEF SessionsInv, Grows, Present

LEMMA GrantedGrows ==
  ASSUME Grows, NEW s, NEW w, Granted(enabled, s, w)
  PROVE  Granted(enabled', s, w)
<1>1. "binding" \in Commands /\ "script" \in Commands
  BY DEF Commands
<1> QED
  BY <1>1 DEF Grows, Granted

LEMMA GrowsKept ==
  ASSUME SessionsInv, KeptInv, Grows, UNCHANGED <<reg, contexts>>
  PROVE  KeptInv'
<1>1. \A s \in DOMAIN reg'.s2t \cap DOMAIN attached' : reg'.s2t[s] = attached'[s]
  BY DEF KeptInv, Grows, Present
<1>2. \A k \in DOMAIN contexts' :
        /\ k = <<k[1], k[2]>> /\ k[1] \in Present' /\ Granted(enabled', k[1], k[2])
        /\ contexts'[k].world = k[2]
  BY GrowsKeeps, GrantedGrows DEF KeptInv
<1>3. /\ DOMAIN reg'.s2t \cup reg'.configured \cup reg'.bound \cup reg'.observing \subseteq Present'
      /\ reg'.bound \subseteq enabled'["binding"]
  BY GrowsKeeps DEF KeptInv
<1> QED
  BY <1>1, <1>2, <1>3 DEF KeptInv

LEMMA ToldWire ==
  ASSUME SessionsInv, WireInv, Grows, NEW p, Tells(p)
  PROVE  WireInv'
<1>1. IsSequence(wire) /\ IsSequence(p) /\ wire' = wire \o p
  BY DEF WireInv, Tells
<1>2. /\ IsSequence(wire')
      /\ \A k \in DOMAIN wire' :
           \/ k \in DOMAIN wire /\ wire'[k] = wire[k] /\ k <= Len(wire)
           \/ k > Len(wire) /\ k - Len(wire) \in DOMAIN p /\ wire'[k] = p[k - Len(wire)]
      /\ Len(wire) \in Nat /\ DOMAIN wire' \subseteq Nat
  BY <1>1, Appended
<1>3. ASSUME NEW e, EventInv(e) PROVE EventInv(e)'
  BY <1>3, GrowsKeeps, GrantedGrows DEF EventInv, Grows, Names, Present
<1>4. ASSUME NEW e, IsSo(e) PROVE EventInv(e)'
  BY <1>4, GrowsKeeps DEF EventInv, IsSo, Names
<1>5. ASSUME NEW k \in DOMAIN wire' PROVE EventInv(wire[k])'
  <2>1. PICK e : e = wire'[k]
    OBVIOUS
  <2>2. EventInv(e)'
    BY <1>2, <1>3, <1>4, <2>1 DEF WireInv, Tells
  <2> QED
    BY <2>1, <2>2 DEF EventInv, Names
<1>6. ASSUME NEW j \in DOMAIN wire', NEW k \in DOMAIN wire', j > k, wire'[k].m = "detached",
             Names(wire'[j])
      PROVE  wire'[j].session # wire'[k].session
  <2>1. CASE j \in DOMAIN wire /\ j <= Len(wire) /\ wire'[j] = wire[j]
    <3>1. k \in DOMAIN wire /\ wire'[k] = wire[k]
      BY <1>2, <1>6, <2>1
    <3> QED
      BY <1>6, <2>1, <3>1 DEF WireInv
  <2>2. CASE j > Len(wire) /\ j - Len(wire) \in DOMAIN p /\ wire'[j] = p[j - Len(wire)]
    <3>1. wire'[j].session \in DOMAIN attached'
      BY <1>6, <2>2 DEF Tells, IsSo
    <3>2. EventInv(wire[k])'
      BY <1>5
    <3>3. wire'[k].session \notin DOMAIN attached'
      BY <1>6, <3>2 DEF EventInv
    <3> QED
      BY <3>1, <3>3
  <2> QED
    BY <1>2, <2>1, <2>2
<1>7. (\A k \in DOMAIN wire : EventInv(wire[k]))'
  BY <1>5
<1> QED
  BY <1>2, <1>6, <1>7 DEF WireInv

LEMMA ToldDocuments ==
  ASSUME SessionsInv, KeptInv, WireInv, DocumentsInv, Grows, NEW p, Tells(p), Announces(p),
         contexts' = contexts
  PROVE  DocumentsInv'
<1>1. IsSequence(wire) /\ IsSequence(p) /\ wire' = wire \o p
  BY DEF WireInv, Tells
<1>2. /\ Len(wire') = Len(wire) + Len(p) /\ Len(wire) \in Nat /\ Len(p) \in Nat
      /\ DOMAIN wire = 1 .. Len(wire) /\ DOMAIN p = 1 .. Len(p)
      /\ DOMAIN wire' = 1 .. Len(wire) + Len(p)
      /\ \A k \in DOMAIN wire : wire'[k] = wire[k]
      /\ \A k \in DOMAIN p : wire'[Len(wire) + k] = p[k]
      /\ \A k \in DOMAIN wire' :
           \/ k \in DOMAIN wire
           \/ k > Len(wire) /\ k - Len(wire) \in DOMAIN p /\ wire'[k] = p[k - Len(wire)]
  BY <1>1, Appended
<1>3. ASSUME NEW s \in Present, NEW w, Granted(enabled, s, w), NEW origin, Outdated(s, origin)',
             NEW i \in Nat, i <= Len(wire), Outdated(s, origin) => Clears(s, w, i, Len(wire) + 1)
      PROVE  Clears(s, w, i, Len(wire) + 1)'
  <2>1. /\ s \in DOMAIN attached' /\ doc'[attached'[s]] \in {"own", "other"}
        /\ origin # doc'[attached'[s]]
    BY <1>3 DEF Outdated, Shows
  <2>2. s <= opened
    BY DEF Present
  <2>3. s \in DOMAIN attached /\ attached'[s] = attached[s]
    BY <2>1, <2>2 DEF Grows
  <2>4. CASE doc'[attached[s]] = doc[attached[s]]
    <3>1. Outdated(s, origin)
      BY <2>1, <2>3, <2>4 DEF Outdated, Shows
    <3>2. PICK k \in DOMAIN wire : i < k /\ Discards(wire[k], s, w)
      BY <1>3, <3>1 DEF Clears
    <3>3. k \in DOMAIN wire' /\ k < Len(wire') + 1 /\ wire'[k] = wire[k]
      BY <1>2
    <3> QED
      BY <3>2, <3>3 DEF Clears
  <2>5. CASE \E k \in DOMAIN p : Discards(p[k], s, w)
    <3>1. PICK k \in DOMAIN p : Discards(p[k], s, w)
      BY <2>5
    <3>2. /\ Len(wire) + k \in DOMAIN wire' /\ i < Len(wire) + k /\ Len(wire) + k < Len(wire') + 1
          /\ wire'[Len(wire) + k] = p[k]
      BY <1>2, <1>3
    <3> QED
      BY <3>1, <3>2 DEF Clears
  <2> QED
    BY <2>1, <2>3, <2>4, <2>5, <1>3 DEF Announces, Granted
<1>4. ASSUME NEW i \in DOMAIN wire', NEW s, NEW w, NEW origin, s = wire'[i].session,
             w = wire'[i].id, origin = wire'[i].origin, wire'[i].m = "contextCreated", Outdated(s, origin)'
      PROVE  Clears(s, w, i, Len(wire) + 1)'
  <2>1. CASE i \in DOMAIN wire
    <3>1. wire'[i] = wire[i] /\ i \in Nat /\ i <= Len(wire)
      BY <1>2, <2>1
    <3>2. s \in Present /\ Granted(enabled, s, w)
      BY <1>4, <2>1, <3>1 DEF WireInv, EventInv, Names
    <3>3. Outdated(s, origin) => Clears(s, w, i, Len(wire) + 1)
      BY <1>4, <2>1, <3>1 DEF DocumentsInv
    <3> QED
      BY <1>3, <1>4, <3>1, <3>2, <3>3
  <2>2. CASE i > Len(wire) /\ i - Len(wire) \in DOMAIN p /\ wire'[i] = p[i - Len(wire)]
    <3>1. origin = doc'[attached'[s]]
      BY <1>4, <2>2 DEF Tells, IsSo
    <3> QED
      BY <1>4, <3>1 DEF Outdated
  <2> QED
    BY <1>2, <2>1, <2>2
<1>5. ASSUME NEW k \in DOMAIN contexts', NEW s, NEW w, NEW origin, s = k[1], w = k[2],
             origin = contexts'[k].origin,
             Outdated(s, origin)'
      PROVE  Clears(s, w, 0, Len(wire) + 1)'
  <2>1. k \in DOMAIN contexts /\ contexts'[k] = contexts[k] /\ s \in Present /\ Granted(enabled, s, w)
    BY <1>5 DEF KeptInv
  <2>2. Outdated(s, origin) => Clears(s, w, 0, Len(wire) + 1)
    BY <1>5, <2>1 DEF DocumentsInv
  <2>3. 0 \in Nat /\ 0 <= Len(wire)
    BY <1>2
  <2> QED
    BY <1>3, <1>5, <2>1, <2>2, <2>3
<1>6. ASSUME NEW i \in DOMAIN wire',
             (wire[i].m = "contextCreated" /\ Outdated(wire[i].session, wire[i].origin))'
      PROVE  Clears(wire[i].session, wire[i].id, i, Len(wire) + 1)'
  <2>1. PICK s, w, origin : s = wire'[i].session /\ w = wire'[i].id /\ origin = wire'[i].origin
    OBVIOUS
  <2>2. Outdated(s, origin)'
    BY <1>6, <2>1 DEF Outdated, Shows
  <2>3. Clears(s, w, i, Len(wire) + 1)'
    BY <1>4, <1>6, <2>1, <2>2
  <2> QED
    BY <2>1, <2>3 DEF Clears, Discards
<1>7. ASSUME NEW k \in DOMAIN contexts', Outdated(k[1], contexts[k].origin)'
      PROVE  Clears(k[1], k[2], 0, Len(wire) + 1)'
  <2>1. PICK s, w, origin : s = k[1] /\ w = k[2] /\ origin = contexts'[k].origin
    OBVIOUS
  <2>2. Outdated(s, origin)'
    BY <1>7, <2>1 DEF Outdated, Shows
  <2> QED
    BY <1>5, <2>1, <2>2 DEF Clears, Discards
<1>8. (\A i \in DOMAIN wire :
         wire[i].m = "contextCreated" /\ Outdated(wire[i].session, wire[i].origin)
           => Clears(wire[i].session, wire[i].id, i, Len(wire) + 1))'
  BY <1>6
<1>9. (\A k \in DOMAIN contexts :
         Outdated(k[1], contexts[k].origin) => Clears(k[1], k[2], 0, Len(wire) + 1))'
  BY <1>7
<1> QED
  BY <1>8, <1>9 DEF DocumentsInv

LEMMA ClearsStay ==
  ASSUME WireInv, NEW p, Tells(p), NEW s, NEW w, NEW i, NEW j, Clears(s, w, i, j)
  PROVE  Clears(s, w, i, j)'
<1>1. IsSequence(wire) /\ IsSequence(p) /\ wire' = wire \o p
  BY DEF WireInv, Tells
<1>2. /\ Len(wire) \in Nat /\ Len(p) \in Nat /\ DOMAIN wire = 1 .. Len(wire)
      /\ DOMAIN wire' = 1 .. Len(wire) + Len(p)
      /\ \A k \in DOMAIN wire : wire'[k] = wire[k]
  BY <1>1, Appended
<1>3. \A k \in DOMAIN wire : k \in DOMAIN wire' /\ wire'[k] = wire[k]
  BY <1>2
<1> QED
  BY <1>3 DEF Clears, Discards

(* An action is told of alone.                                               *)
LEMMA ToldTruth ==
  ASSUME SessionsInv, KeptInv', WireInv, DocumentsInv, TruthInv, Grows, contexts' = contexts,
         NEW p, Tells(p),
         \A k \in DOMAIN p :
           p[k].m = "bindingCalled" => Len(p) = 1 /\ UNCHANGED <<doc, attached>>,
         \A s \in DOMAIN reg'.s2t :
           s <= opened => s \in DOMAIN reg.s2t /\ reg'.s2t[s] = reg.s2t[s]
  PROVE  TruthInv'
<1>1. IsSequence(wire) /\ IsSequence(p) /\ wire' = wire \o p
  BY DEF WireInv, Tells
<1>2. /\ Len(wire') = Len(wire) + Len(p) /\ Len(wire) \in Nat /\ Len(p) \in Nat
      /\ DOMAIN wire = 1 .. Len(wire) /\ DOMAIN p = 1 .. Len(p)
      /\ DOMAIN wire' = 1 .. Len(wire) + Len(p)
      /\ \A k \in DOMAIN wire : wire'[k] = wire[k]
      /\ \A k \in DOMAIN wire' :
           \/ k \in DOMAIN wire
           \/ k > Len(wire) /\ k - Len(wire) \in DOMAIN p /\ wire'[k] = p[k - Len(wire)]
  BY <1>1, Appended
<1>3. ASSUME NEW j \in DOMAIN wire', NEW s, NEW truth, wire'[j].m = "bindingCalled",
             s = wire'[j].session, truth = wire'[j].truth
      PROVE  /\ truth.world = wire'[j].id
             /\ s \in DOMAIN reg'.s2t => reg'.s2t[s] = truth.target
             /\ \A i \in DOMAIN wire' :
                  wire'[i].m = "attached" /\ wire'[i].session = s => wire'[i].target = truth.target
             /\ \A i \in DOMAIN wire' :
                  i < j /\ wire'[i].m = "contextCreated" /\ wire'[i].session = s
                    /\ wire'[i].origin # truth.shows => Clears(s, wire[i].id, i, j)'
             /\ \A k \in DOMAIN contexts' :
                  k[1] = s /\ contexts'[k].origin # truth.shows => Clears(s, k[2], 0, j)'
  <2>1. CASE j \in DOMAIN wire
    <3>1. wire'[j] = wire[j] /\ j <= Len(wire)
      BY <1>2, <2>1
    <3>2. /\ truth.world = wire[j].id
          /\ s \in DOMAIN reg.s2t => reg.s2t[s] = truth.target
          /\ \A i \in DOMAIN wire :
               wire[i].m = "attached" /\ wire[i].session = s => wire[i].target = truth.target
          /\ \A i \in DOMAIN wire :
               i < j /\ wire[i].m = "contextCreated" /\ wire[i].session = s
                 /\ wire[i].origin # truth.shows => Clears(s, wire[i].id, i, j)
          /\ \A k \in DOMAIN contexts :
               k[1] = s /\ contexts[k].origin # truth.shows => Clears(s, k[2], 0, j)
      BY <1>3, <2>1, <3>1 DEF TruthInv
    <3>3. s <= opened
      BY <1>3, <2>1, <3>1 DEF WireInv, EventInv, Names, Present
    <3>4. ASSUME NEW i \in DOMAIN wire', wire'[i].m = "attached", wire'[i].session = s
          PROVE  wire'[i].target = truth.target
      <4>1. i \in DOMAIN wire \/ wire'[i].session > opened
        BY <1>2, <3>4 DEF Tells, IsSo
      <4>2. s \in Nat /\ opened \in Nat
        BY <1>3, <2>1, <3>1 DEF WireInv, EventInv, Names, Present, SessionsInv
      <4>3. i \in DOMAIN wire /\ wire'[i] = wire[i]
        BY <1>2, <3>3, <3>4, <4>1, <4>2
      <4> QED
        BY <3>2, <3>4, <4>3
    <3>5. ASSUME NEW i \in DOMAIN wire', i < j, wire'[i].m = "contextCreated",
                 wire'[i].session = s, wire'[i].origin # truth.shows
          PROVE  Clears(s, wire[i].id, i, j)'
      <4>1. i \in DOMAIN wire /\ wire'[i] = wire[i]
        BY <1>2, <3>1, <3>5
      <4>2. PICK w : w = wire[i].id
        OBVIOUS
      <4>3. Clears(s, w, i, j)
        BY <3>2, <3>5, <4>1, <4>2
      <4>4. Clears(s, w, i, j)'
        BY <4>3, ClearsStay
      <4> QED
        BY <4>1, <4>2, <4>4 DEF Clears, Discards
    <3>6. \A k \in DOMAIN contexts' :
            k[1] = s /\ contexts'[k].origin # truth.shows => Clears(s, k[2], 0, j)'
      BY <3>2, ClearsStay
    <3> QED
      BY <3>1, <3>2, <3>3, <3>4, <3>5, <3>6
  <2>2. CASE j > Len(wire) /\ j - Len(wire) \in DOMAIN p /\ wire'[j] = p[j - Len(wire)]
    <3>1. IsSo(wire'[j])
      BY <2>2 DEF Tells
    <3>2. /\ s \in DOMAIN attached' /\ truth.world = wire'[j].id /\ truth.target = attached'[s]
          /\ truth.shows = doc'[attached'[s]] /\ truth.shows \in {"own", "other"}
      BY <1>3, <3>1 DEF IsSo, Names
    <3>3. Len(p) = 1 /\ doc' = doc /\ attached' = attached /\ j = Len(wire) + 1
      BY <1>2, <1>3, <2>2
    <3>4. s \in DOMAIN reg'.s2t => reg'.s2t[s] = truth.target
      BY <3>2 DEF KeptInv
    <3>5. ASSUME NEW i \in DOMAIN wire', i < j \/ wire'[i].m # "bindingCalled"
          PROVE  i \in DOMAIN wire /\ wire'[i] = wire[i]
      <4>1. i \in DOMAIN wire \/ i = j
        BY <1>2, <3>3
      <4> QED
        BY <1>2, <1>3, <3>3, <3>5, <4>1
    <3>6. ASSUME NEW i \in DOMAIN wire', wire'[i].m = "attached", wire'[i].session = s
          PROVE  wire'[i].target = truth.target
      BY <3>2, <3>3, <3>5, <3>6 DEF WireInv, EventInv
    <3>7. ASSUME NEW origin, origin # truth.shows PROVE Outdated(s, origin)
      BY <3>2, <3>3, <3>7 DEF Outdated, Shows
    <3>8. ASSUME NEW i \in DOMAIN wire', i < j, wire'[i].m = "contextCreated",
                 wire'[i].session = s, wire'[i].origin # truth.shows
          PROVE  Clears(s, wire[i].id, i, j)'
      <4>1. i \in DOMAIN wire /\ wire'[i] = wire[i]
        BY <3>5, <3>8
      <4>2. PICK w : w = wire[i].id
        OBVIOUS
      <4>3. Clears(s, w, i, Len(wire) + 1)
        BY <3>3, <3>7, <3>8, <4>1, <4>2 DEF DocumentsInv
      <4>4. Clears(s, w, i, j)'
        BY <3>3, <4>3, ClearsStay
      <4> QED
        BY <4>1, <4>2, <4>4 DEF Clears, Discards
    <3>9. ASSUME NEW k \in DOMAIN contexts', k[1] = s, contexts'[k].origin # truth.shows
          PROVE  Clears(s, k[2], 0, j)'
      BY <3>3, <3>7, <3>9, ClearsStay DEF DocumentsInv
    <3> QED
      BY <3>2, <3>4, <3>6, <3>8, <3>9
  <2> QED
    BY <1>2, <2>1, <2>2
<1> QED
  BY <1>3 DEF TruthInv, Clears, Discards

(* What was known or announced stays so when more is told.                   *)
LEMMA ToldPlaces ==
  ASSUME WireInv, NEW p, Tells(p)
  PROVE  /\ Len(wire) \in Nat /\ Len(p) \in Nat /\ Len(wire') = Len(wire) + Len(p)
         /\ DOMAIN wire = 1 .. Len(wire) /\ DOMAIN p = 1 .. Len(p)
         /\ DOMAIN wire' = 1 .. Len(wire) + Len(p)
         /\ \A k \in DOMAIN wire : k \in DOMAIN wire' /\ wire'[k] = wire[k]
         /\ \A k \in DOMAIN p : Len(wire) + k \in DOMAIN wire' /\ wire'[Len(wire) + k] = p[k]
         /\ \A k \in DOMAIN wire' :
              \/ k \in DOMAIN wire /\ k <= Len(wire)
              \/ k > Len(wire) /\ k - Len(wire) \in DOMAIN p /\ wire'[k] = p[k - Len(wire)]
<1>1. IsSequence(wire) /\ IsSequence(p) /\ wire' = wire \o p
  BY DEF WireInv, Tells
<1> DEFINE u == wire \o p
<1>2. /\ Len(u) = Len(wire) + Len(p) /\ Len(wire) \in Nat /\ Len(p) \in Nat
      /\ DOMAIN wire = 1 .. Len(wire) /\ DOMAIN p = 1 .. Len(p) /\ DOMAIN u = 1 .. Len(wire) + Len(p)
      /\ \A k \in DOMAIN wire : u[k] = wire[k]
      /\ \A k \in DOMAIN p : u[Len(wire) + k] = p[k]
      /\ \A k \in DOMAIN u :
           \/ k \in DOMAIN wire
           \/ k > Len(wire) /\ k - Len(wire) \in DOMAIN p /\ u[k] = p[k - Len(wire)]
  BY <1>1, Appended
<1>3. u = wire'
  BY <1>1
<1> HIDE DEF u
<1> QED
  BY <1>2, <1>3

LEMMA ToldNoneMore ==
  ASSUME SessionsInv, KeptInv, WireInv, NoneMore, Grows, contexts' = contexts, NEW p, Tells(p),
         Reveals(p),
         \A s \in DOMAIN reg'.s2t :
           s <= opened => s \in DOMAIN reg.s2t /\ reg'.s2t[s] = reg.s2t[s]
  PROVE  NoneMore'
<1>1. /\ Len(wire) \in Nat /\ Len(p) \in Nat /\ Len(wire') = Len(wire) + Len(p)
      /\ DOMAIN wire = 1 .. Len(wire) /\ DOMAIN p = 1 .. Len(p)
      /\ \A k \in DOMAIN wire : k \in DOMAIN wire' /\ wire'[k] = wire[k]
      /\ \A k \in DOMAIN p : Len(wire) + k \in DOMAIN wire' /\ wire'[Len(wire) + k] = p[k]
      /\ \A k \in DOMAIN wire' :
           \/ k \in DOMAIN wire /\ k <= Len(wire)
           \/ k > Len(wire) /\ k - Len(wire) \in DOMAIN p /\ wire'[k] = p[k - Len(wire)]
  BY ToldPlaces
<1> SUFFICES ASSUME NEW k \in 0 .. Len(wire'), NEW s \in Present', NEW w \in Worlds, Has(k, s, w)'
             PROVE  /\ w = "observer" => s \in enabled'["script"]
                    /\ \A j \in DOMAIN wire' :
                         j > k /\ wire'[j].m = "attached" => wire'[j].session # s
                    /\ s \in DOMAIN attached' /\ doc'[attached'[s]] \notin {"own", "other"}
                         /\ (k = 0 => s \in DOMAIN reg'.s2t) => Wiped(s, w, k)'
  BY DEF NoneMore, Shows
<1>2. opened \in Nat /\ departed' = departed /\ "script" \in Commands /\ DOMAIN attached \subseteq 1 .. opened
  BY DEF SessionsInv, Grows, Commands
<1>3. CASE k <= Len(wire)
  <2>1. k \in 0 .. Len(wire) /\ (k # 0 => k \in DOMAIN wire /\ wire'[k] = wire[k])
    BY <1>1, <1>3
  <2>2. Has(k, s, w)
    BY <2>1 DEF Has
  <2>3. s \in Present /\ s <= opened
    <3>1. CASE k = 0
      <4>1. PICK c : c = <<s, w>>
        OBVIOUS
      <4>2. c \in DOMAIN contexts /\ c[1] = s
        BY <2>2, <3>1, <4>1 DEF Has
      <4> QED
        BY <1>2, <4>2 DEF KeptInv, Present
    <3>2. CASE k # 0
      BY <1>2, <2>1, <2>2, <3>2 DEF Has, WireInv, EventInv, Names, Present
    <3> QED
      BY <3>1, <3>2
  <2>4. /\ w = "observer" => s \in enabled["script"]
        /\ \A j \in DOMAIN wire : j > k /\ wire[j].m = "attached" => wire[j].session # s
        /\ s \in DOMAIN attached /\ ~Shows(attached[s]) /\ (k = 0 => s \in DOMAIN reg.s2t)
             => Wiped(s, w, k)
    BY <2>1, <2>2, <2>3 DEF NoneMore
  <2>5. ASSUME NEW j \in DOMAIN wire', j > k, wire'[j].m = "attached" PROVE wire'[j].session # s
    <3>1. CASE j \in DOMAIN wire
      BY <1>1, <2>4, <2>5, <3>1
    <3>2. CASE j > Len(wire) /\ j - Len(wire) \in DOMAIN p /\ wire'[j] = p[j - Len(wire)]
      <4>1. wire'[j].session > opened /\ wire'[j].session \in DOMAIN attached'
        BY <2>5, <3>2 DEF Tells, IsSo, Names
      <4>2. wire'[j].session \in Nat /\ s \in Nat
        BY <2>3, <4>1 DEF Grows, Present
      <4> QED
        BY <1>2, <2>3, <4>1, <4>2
    <3> QED
      BY <1>1, <3>1, <3>2
  <2>6. ASSUME s \in DOMAIN attached', doc'[attached'[s]] \notin {"own", "other"}, k = 0 => s \in DOMAIN reg'.s2t
        PROVE  Wiped(s, w, k)'
    <3>1. s \in DOMAIN attached /\ attached'[s] = attached[s] /\ (k = 0 => s \in DOMAIN reg.s2t)
      BY <2>3, <2>6 DEF Grows
    <3>2. doc'[attached[s]] \notin {"own", "other"}
      BY <2>6, <3>1 DEF Shows
    <3>3. CASE ~Shows(attached[s])
      <4>1. PICK j \in DOMAIN wire : j > k /\ Wipes(wire[j], s, w)
        BY <2>4, <3>1, <3>3 DEF Wiped
      <4> QED
        BY <1>1, <3>1, <4>1 DEF Wiped, Wipes, Discards
    <3>4. CASE \E j \in DOMAIN p : Wipes(p[j], s, w)
      <4>1. PICK j \in DOMAIN p : Wipes(p[j], s, w)
        BY <3>4
      <4>2. PICK l : l = Len(wire) + j
        OBVIOUS
      <4>3. l \in DOMAIN wire' /\ wire'[l] = p[j] /\ l > k
        BY <1>1, <2>1, <4>2
      <4> QED
        BY <3>1, <4>1, <4>3 DEF Wiped, Wipes, Discards
    <3> QED
      BY <2>6, <3>1, <3>2, <3>3, <3>4 DEF Reveals
  <2> QED
    BY <1>2, <2>4, <2>5, <2>6 DEF Grows
<1>4. CASE k > Len(wire)
  <2>1. k \in DOMAIN wire' /\ k # 0
    <3>1. DOMAIN wire' = 1 .. Len(wire')
      BY ToldPlaces
    <3> QED
      BY <1>1, <1>4, <3>1
  <2>2. PICK i : i = k - Len(wire)
    OBVIOUS
  <2>3. i \in DOMAIN p /\ wire'[k] = p[i]
    BY <1>1, <1>4, <2>1, <2>2
  <2>4. p[i].m = "contextCreated" /\ p[i].session = s /\ p[i].id = w
    BY <2>1, <2>3 DEF Has
  <2>5. /\ s \in DOMAIN attached /\ doc'[attached[s]] \in {"own", "other"}
        /\ w = "observer" => s \in enabled'["script"]
    BY <2>3, <2>4 DEF Reveals
  <2>6. s <= opened /\ s \in Nat
    BY <1>2, <2>5
  <2>7. ASSUME NEW j \in DOMAIN wire', j > k, wire'[j].m = "attached" PROVE wire'[j].session # s
    <3>1. j > Len(wire) /\ j - Len(wire) \in DOMAIN p /\ wire'[j] = p[j - Len(wire)]
      BY <1>1, <1>4, <2>7
    <3>2. wire'[j].session > opened /\ wire'[j].session \in DOMAIN attached'
      BY <2>7, <3>1 DEF Tells, IsSo, Names
    <3>3. wire'[j].session \in Nat
      BY <3>2 DEF Grows
    <3> QED
      BY <1>2, <2>6, <3>2, <3>3
  <2>8. s \in DOMAIN attached' => doc'[attached'[s]] \in {"own", "other"}
    BY <2>5, <2>6 DEF Grows
  <2> QED
    BY <2>5, <2>7, <2>8
<1> QED
  BY <1>1, <1>3, <1>4

LEMMA ToldNoneLess ==
  ASSUME SessionsInv, WireInv, NoneLess, Grows, contexts' = contexts, NEW p, Tells(p), Reveals(p)
  PROVE  NoneLess'
<1>1. /\ Len(wire) \in Nat /\ Len(p) \in Nat /\ Len(wire') = Len(wire) + Len(p)
      /\ DOMAIN wire = 1 .. Len(wire) /\ DOMAIN p = 1 .. Len(p)
      /\ \A k \in DOMAIN wire : k \in DOMAIN wire' /\ wire'[k] = wire[k]
      /\ \A k \in DOMAIN p : Len(wire) + k \in DOMAIN wire' /\ wire'[Len(wire) + k] = p[k]
      /\ \A k \in DOMAIN wire' :
           \/ k \in DOMAIN wire /\ k <= Len(wire)
           \/ k > Len(wire) /\ k - Len(wire) \in DOMAIN p /\ wire'[k] = p[k - Len(wire)]
  BY ToldPlaces
<1> SUFFICES ASSUME NEW s \in DOMAIN attached', NEW w \in Live(s)'
             PROVE  \E k \in 0 .. Len(wire') :
                      Has(k, s, w)' /\ Origin(k, s, w)' = doc'[attached'[s]] /\ ~Wiped(s, w, k)'
  BY DEF NoneLess
<1>2. w \in Worlds
  BY DEF Live
<1>3. CASE /\ s \in DOMAIN attached /\ w \in Live(s) /\ doc'[attached[s]] = doc[attached[s]]
           /\ \A k \in DOMAIN p : ~Wipes(p[k], s, w)
  <2>1. PICK k \in 0 .. Len(wire) :
          Has(k, s, w) /\ Origin(k, s, w) = doc[attached[s]] /\ ~Wiped(s, w, k)
    BY <1>3 DEF NoneLess
  <2>2. attached'[s] = attached[s]
    BY <1>3 DEF Grows, SessionsInv
  <2>3. k \in 0 .. Len(wire') /\ (k # 0 => k \in DOMAIN wire /\ wire'[k] = wire[k])
    BY <1>1, <2>1
  <2>4. Has(k, s, w)' /\ Origin(k, s, w)' = doc'[attached'[s]]
    BY <1>3, <2>1, <2>2, <2>3 DEF Has, Origin
  <2>5. ASSUME NEW j \in DOMAIN wire', j > k PROVE ~Wipes(wire'[j], s, w)
    BY <1>1, <1>3, <2>1, <2>5 DEF Wiped
  <2>6. ~Wiped(s, w, k)'
    BY <2>2, <2>5 DEF Wiped, Wipes, Discards
  <2> QED
    BY <2>3, <2>4, <2>6
<1>4. CASE \E k \in DOMAIN p :
             /\ p[k].m = "contextCreated" /\ p[k].session = s /\ p[k].id = w
             /\ \A j \in DOMAIN p : j > k => ~Wipes(p[j], s, w)
  <2>1. PICK k \in DOMAIN p :
          /\ p[k].m = "contextCreated" /\ p[k].session = s /\ p[k].id = w
          /\ \A j \in DOMAIN p : j > k => ~Wipes(p[j], s, w)
    BY <1>4
  <2>2. PICK l : l = Len(wire) + k
    OBVIOUS
  <2>3. l \in 0 .. Len(wire') /\ l # 0 /\ wire'[l] = p[k] /\ l > Len(wire)
    BY <1>1, <2>2
  <2>4. s \in DOMAIN attached /\ p[k].origin = doc'[attached'[s]]
    BY <2>1 DEF Reveals, Tells, IsSo
  <2>5. attached'[s] = attached[s]
    BY <2>4 DEF Grows, SessionsInv
  <2>6. Has(l, s, w)' /\ Origin(l, s, w)' = doc'[attached'[s]]
    BY <2>1, <2>3, <2>4 DEF Has, Origin
  <2>7. ASSUME NEW j \in DOMAIN wire', j > l PROVE ~Wipes(wire'[j], s, w)
    <3>1. j - Len(wire) \in DOMAIN p /\ j - Len(wire) > k /\ wire'[j] = p[j - Len(wire)]
      BY <1>1, <2>2, <2>3, <2>7
    <3> QED
      BY <2>1, <3>1
  <2>8. ~Wiped(s, w, l)'
    BY <2>5, <2>7 DEF Wiped, Wipes, Discards
  <2> QED
    BY <2>3, <2>6, <2>8
<1> QED
  BY <1>2, <1>3, <1>4 DEF Reveals

-----------------------------------------------------------------------------
(* Steps of the consumer that take an event.                                 *)

(* The consumer keeps no more than before, except for what the event tells.  *)
Learns(h) ==
  /\ \A k \in DOMAIN contexts' :
       \/ /\ k \in DOMAIN contexts /\ contexts'[k] = contexts[k]
          /\ ~Discards(h, k[1], k[2])
       \/ /\ h.m = "contextCreated" /\ k = <<h.session, h.id>>
          /\ contexts'[k].origin = h.origin /\ contexts'[k].world = h.world
  /\ \A s \in DOMAIN reg'.s2t :
       \/ s \in DOMAIN reg.s2t /\ reg'.s2t[s] = reg.s2t[s]
       \/ h.m = "attached" /\ s = h.session /\ reg'.s2t[s] = h.target
  /\ reg'.configured \subseteq reg.configured /\ reg'.bound \subseteq reg.bound
  /\ reg'.observing \subseteq reg.observing
  /\ \/ departed' = departed
     \/ /\ h.m = "detached" /\ departed' = departed \cup {h.session}
        /\ h.session \notin DOMAIN reg'.s2t \cup reg'.configured \cup reg'.bound \cup reg'.observing
        /\ \A k \in DOMAIN contexts' : k[1] # h.session

(* Nor does it keep less, unless the event ends something.                   *)
Forgets(h) ==
  /\ \A c \in DOMAIN contexts :
       \/ c[1] \notin DOMAIN attached \/ Wipes(h, c[1], c[2])
       \/ /\ c \in DOMAIN contexts'
          /\ \/ contexts'[c] = contexts[c]
             \/ h.m = "contextCreated" /\ c = <<h.session, h.id>> /\ contexts'[c].origin = h.origin
  /\ h.m = "contextCreated" =>
       /\ <<h.session, h.id>> \in DOMAIN contexts'
       /\ contexts'[<<h.session, h.id>>].origin = h.origin
  /\ \A s \in DOMAIN attached \cap DOMAIN reg'.s2t, w \in Worlds :
       Wipes(h, s, w) => <<s, w>> \notin DOMAIN contexts'

Handles(h) ==
  /\ wire # <<>> /\ h = wire[1] /\ wire' = Tail(wire) /\ Learns(h) /\ Forgets(h)
  /\ UNCHANGED <<doc, attached, opened, enabled>>

LEMMA HandledWire ==
  ASSUME SessionsInv, WireInv, NEW h, Handles(h)
  PROVE  SessionsInv' /\ WireInv'
<1>1. IsSequence(wire) /\ wire # <<>> /\ wire' = Tail(wire)
  BY DEF WireInv, Handles
<1>2. /\ IsSequence(wire') /\ Len(wire) \in Nat /\ Len(wire) > 0 /\ DOMAIN wire = 1 .. Len(wire)
      /\ DOMAIN wire' = 1 .. Len(wire) - 1
      /\ \A k \in DOMAIN wire' : k + 1 \in DOMAIN wire /\ wire'[k] = wire[k + 1]
  BY <1>1, Rest
<1>3. EventInv(h)
  BY <1>2 DEF WireInv, Handles
<1>4. departed' \subseteq (1 .. opened') \ DOMAIN attached'
  BY <1>3 DEF SessionsInv, Handles, Learns, EventInv
<1>5. SessionsInv'
  BY <1>4 DEF SessionsInv, Handles
<1>6. ASSUME NEW k \in DOMAIN wire' PROVE EventInv(wire[k])'
  <2>1. PICK e, l : l = k + 1 /\ e = wire'[k]
    OBVIOUS
  <2>2. l \in DOMAIN wire /\ e = wire[l] /\ l > 1 /\ 1 \in DOMAIN wire
    BY <1>2, <2>1
  <2>3. EventInv(e)
    BY <2>2 DEF WireInv
  <2>4. Names(e) => e.session \in Present'
    <3>1. Names(e) /\ h.m = "detached" => e.session # h.session
      BY <2>2 DEF WireInv, Handles
    <3> QED
      BY <2>3, <3>1 DEF EventInv, Present, Handles, Learns
  <2>5. EventInv(e)'
    BY <2>3, <2>4 DEF EventInv, Handles, Names
  <2> QED
    BY <2>1, <2>5 DEF EventInv, Names
<1>7. (\A k \in DOMAIN wire : EventInv(wire[k]))'
  BY <1>6
<1>8. ASSUME NEW j \in DOMAIN wire', NEW k \in DOMAIN wire', j > k, wire'[k].m = "detached",
             Names(wire'[j])
      PROVE  wire'[j].session # wire'[k].session
  <2>1. j + 1 \in DOMAIN wire /\ k + 1 \in DOMAIN wire /\ j + 1 > k + 1
        /\ wire'[j] = wire[j + 1] /\ wire'[k] = wire[k + 1]
    BY <1>2, <1>8
  <2> QED
    BY <1>8, <2>1 DEF WireInv
<1> QED
  BY <1>2, <1>5, <1>7, <1>8 DEF WireInv

LEMMA HandledKept ==
  ASSUME SessionsInv, KeptInv, WireInv, NEW h, Handles(h)
  PROVE  KeptInv'
<1>1. EventInv(h)
  <2>1. 1 \in DOMAIN wire
    BY Rest DEF WireInv, Handles
  <2> QED
    BY <2>1 DEF WireInv, Handles
<1>2. ASSUME NEW s \in Present, departed' = departed \/ s # h.session PROVE s \in Present'
  BY <1>2 DEF Present, Handles, Learns
<1>3. ASSUME NEW s \in DOMAIN reg'.s2t \cup reg'.configured \cup reg'.bound \cup reg'.observing
      PROVE  s \in Present'
  <2>1. s \in Present
    BY <1>1 DEF KeptInv, Handles, Learns, EventInv, Names
  <2> QED
    BY <1>2, <2>1 DEF Handles, Learns
<1>4. ASSUME NEW s \in DOMAIN reg'.s2t \cap DOMAIN attached' PROVE reg'.s2t[s] = attached'[s]
  BY <1>1 DEF KeptInv, Handles, Learns, EventInv
<1>5. ASSUME NEW k \in DOMAIN contexts'
      PROVE  /\ k = <<k[1], k[2]>> /\ k[1] \in Present' /\ Granted(enabled', k[1], k[2])
             /\ contexts'[k].world = k[2]
  <2>1. /\ k = <<k[1], k[2]>> /\ k[1] \in Present /\ Granted(enabled, k[1], k[2])
        /\ contexts'[k].world = k[2]
    <3>1. CASE k \in DOMAIN contexts /\ contexts'[k] = contexts[k]
      BY <3>1 DEF KeptInv
    <3>2. CASE h.m = "contextCreated" /\ k = <<h.session, h.id>> /\ contexts'[k].world = h.world
      <4>1. k[1] = h.session /\ k[2] = h.id /\ k = <<k[1], k[2]>>
        BY <3>2
      <4> QED
        BY <1>1, <3>2, <4>1 DEF EventInv, Names
    <3> QED
      BY <3>1, <3>2 DEF Handles, Learns
  <2>2. departed' = departed \/ k[1] # h.session
    BY DEF Handles, Learns
  <2> QED
    BY <1>2, <2>1, <2>2 DEF Handles
<1> QED
  BY <1>3, <1>4, <1>5 DEF KeptInv, Handles, Learns

LEMMA HandledRest ==
  ASSUME WireInv, NEW h, Handles(h)
  PROVE  /\ Len(wire) \in Nat /\ Len(wire) > 0 /\ DOMAIN wire = 1 .. Len(wire)
         /\ Len(wire') = Len(wire) - 1 /\ DOMAIN wire' = 1 .. Len(wire) - 1
         /\ 1 \in DOMAIN wire /\ h = wire[1]
         /\ \A k \in DOMAIN wire' : k + 1 \in DOMAIN wire /\ wire'[k] = wire[k + 1]
<1>1. IsSequence(wire) /\ wire # <<>> /\ wire' = Tail(wire)
  BY DEF WireInv, Handles
<1> QED
  BY <1>1, Rest DEF Handles

(* The queue moves up; only its head is gone.                                *)
LEMMA ClearsMove ==
  ASSUME WireInv, NEW h, Handles(h), NEW s, NEW w, NEW i \in Nat, NEW j \in Nat,
         Clears(s, w, i, j),
         NEW l \in Nat,
         l < i \/ (l = 0 /\ i = 0 /\ ~Discards(h, s, w))
  PROVE  Clears(s, w, l, j - 1)'
<1>1. PICK k \in DOMAIN wire : i < k /\ k < j /\ Discards(wire[k], s, w)
  BY DEF Clears
<1>2. k \in Nat /\ k > 1
  BY <1>1, HandledRest
<1>3. k - 1 \in DOMAIN wire' /\ wire'[k - 1] = wire[k] /\ l < k - 1 /\ k - 1 < j - 1
  BY <1>1, <1>2, HandledRest
<1> QED
  BY <1>1, <1>3 DEF Clears, Discards

LEMMA HandledDocuments ==
  ASSUME WireInv, DocumentsInv, NEW h, Handles(h)
  PROVE  DocumentsInv'
<1>1. /\ Len(wire) \in Nat /\ Len(wire') = Len(wire) - 1 /\ DOMAIN wire' \subseteq Nat
      /\ \A k \in DOMAIN wire' : k + 1 \in DOMAIN wire /\ wire'[k] = wire[k + 1]
      /\ 1 \in DOMAIN wire /\ h = wire[1]
  BY HandledRest
<1>2. ASSUME NEW s, NEW origin, Outdated(s, origin)' PROVE Outdated(s, origin)
  BY <1>2 DEF Outdated, Shows, Handles
<1>3. ASSUME NEW i \in DOMAIN wire', NEW s, NEW w, NEW origin, s = wire'[i].session,
             w = wire'[i].id, origin = wire'[i].origin, wire'[i].m = "contextCreated", Outdated(s, origin)'
      PROVE  Clears(s, w, i, Len(wire) + 1)'
  <2>1. PICK l, n : l = i + 1 /\ n = Len(wire) + 1
    OBVIOUS
  <2>2. l \in DOMAIN wire /\ wire[l] = wire'[i] /\ l \in Nat /\ n \in Nat /\ i \in Nat /\ i < l
        /\ n - 1 = Len(wire') + 1
    BY <1>1, <2>1
  <2>3. Clears(s, w, l, n)
    BY <1>2, <1>3, <2>1, <2>2 DEF DocumentsInv
  <2>4. Clears(s, w, i, n - 1)'
    BY <2>2, <2>3, ClearsMove
  <2> QED
    BY <2>2, <2>4 DEF Clears, Discards
<1>4. ASSUME NEW k \in DOMAIN contexts', NEW s, NEW w, NEW origin, s = k[1], w = k[2],
             origin = contexts'[k].origin,
             Outdated(s, origin)'
      PROVE  Clears(s, w, 0, Len(wire) + 1)'
  <2>1. PICK n : n = Len(wire) + 1
    OBVIOUS
  <2>2. n \in Nat /\ n - 1 = Len(wire') + 1
    BY <1>1, <2>1
  <2>3. Clears(s, w, 0, n - 1)'
    <3>1. CASE /\ k \in DOMAIN contexts /\ contexts'[k] = contexts[k]
               /\ ~Discards(h, k[1], k[2])
      <4>1. Clears(s, w, 0, n)
        BY <1>2, <1>4, <2>1, <3>1 DEF DocumentsInv
      <4> QED
        BY <1>4, <2>2, <3>1, <4>1, ClearsMove
    <3>2. CASE /\ h.m = "contextCreated" /\ k = <<h.session, h.id>> /\ contexts'[k].origin = h.origin
      <4>1. s = h.session /\ w = h.id /\ origin = h.origin
        BY <1>4, <3>2
      <4>2. Clears(s, w, 1, n)
        BY <1>1, <1>2, <1>4, <2>1, <3>2, <4>1 DEF DocumentsInv
      <4>3. n \in Nat /\ 1 \in Nat /\ 0 \in Nat /\ 0 < 1
        BY <2>2
      <4> QED
        BY ONLY WireInv, Handles(h), <4>2, <4>3, ClearsMove
    <3> QED
      BY <3>1, <3>2 DEF Handles, Learns
  <2> QED
    BY <2>2, <2>3 DEF Clears, Discards
<1>5. ASSUME NEW i \in DOMAIN wire',
             (wire[i].m = "contextCreated" /\ Outdated(wire[i].session, wire[i].origin))'
      PROVE  Clears(wire[i].session, wire[i].id, i, Len(wire) + 1)'
  <2>1. PICK s, w, origin : s = wire'[i].session /\ w = wire'[i].id /\ origin = wire'[i].origin
    OBVIOUS
  <2>2. Outdated(s, origin)'
    BY <1>5, <2>1 DEF Outdated, Shows
  <2>3. Clears(s, w, i, Len(wire) + 1)'
    BY <1>3, <1>5, <2>1, <2>2
  <2> QED
    BY <2>1, <2>3 DEF Clears, Discards
<1>6. ASSUME NEW k \in DOMAIN contexts', Outdated(k[1], contexts[k].origin)'
      PROVE  Clears(k[1], k[2], 0, Len(wire) + 1)'
  <2>1. PICK s, w, origin : s = k[1] /\ w = k[2] /\ origin = contexts'[k].origin
    OBVIOUS
  <2>2. Outdated(s, origin)'
    BY <1>6, <2>1 DEF Outdated, Shows
  <2> QED
    BY <1>4, <2>1, <2>2 DEF Clears, Discards
<1>7. (\A i \in DOMAIN wire :
         wire[i].m = "contextCreated" /\ Outdated(wire[i].session, wire[i].origin)
           => Clears(wire[i].session, wire[i].id, i, Len(wire) + 1))'
  BY <1>5
<1>8. (\A k \in DOMAIN contexts :
         Outdated(k[1], contexts[k].origin) => Clears(k[1], k[2], 0, Len(wire) + 1))'
  BY <1>6
<1> QED
  BY <1>7, <1>8 DEF DocumentsInv

LEMMA HandledTruth ==
  ASSUME WireInv, TruthInv, NEW h, Handles(h)
  PROVE  TruthInv'
<1>1. /\ DOMAIN wire' \subseteq Nat \ {0} /\ 1 \in DOMAIN wire /\ h = wire[1]
      /\ \A k \in DOMAIN wire' : k + 1 \in DOMAIN wire /\ wire'[k] = wire[k + 1]
  BY HandledRest
<1>2. ASSUME NEW j \in DOMAIN wire', NEW s, NEW truth, wire'[j].m = "bindingCalled",
             s = wire'[j].session, truth = wire'[j].truth
      PROVE  /\ truth.world = wire'[j].id
             /\ s \in DOMAIN reg'.s2t => reg'.s2t[s] = truth.target
             /\ \A i \in DOMAIN wire' :
                  wire'[i].m = "attached" /\ wire'[i].session = s => wire'[i].target = truth.target
             /\ \A i \in DOMAIN wire' :
                  i < j /\ wire'[i].m = "contextCreated" /\ wire'[i].session = s
                    /\ wire'[i].origin # truth.shows => Clears(s, wire[i].id, i, j)'
             /\ \A k \in DOMAIN contexts' :
                  k[1] = s /\ contexts'[k].origin # truth.shows => Clears(s, k[2], 0, j)'
  <2>1. PICK n : n = j + 1
    OBVIOUS
  <2>2. n \in DOMAIN wire /\ n \in Nat /\ n > 1 /\ n - 1 = j /\ wire[n] = wire'[j]
    BY <1>1, <2>1
  <2>3. /\ truth.world = wire[n].id
        /\ s \in DOMAIN reg.s2t => reg.s2t[s] = truth.target
        /\ \A i \in DOMAIN wire :
             wire[i].m = "attached" /\ wire[i].session = s => wire[i].target = truth.target
        /\ \A i \in DOMAIN wire :
             i < n /\ wire[i].m = "contextCreated" /\ wire[i].session = s
               /\ wire[i].origin # truth.shows => Clears(s, wire[i].id, i, n)
        /\ \A k \in DOMAIN contexts :
             k[1] = s /\ contexts[k].origin # truth.shows => Clears(s, k[2], 0, n)
    BY <1>2, <2>2 DEF TruthInv
  <2>4. s \in DOMAIN reg'.s2t => reg'.s2t[s] = truth.target
    BY <1>1, <2>3 DEF Handles, Learns
  <2>5. \A i \in DOMAIN wire' :
          wire'[i].m = "attached" /\ wire'[i].session = s => wire'[i].target = truth.target
    BY <1>1, <2>3
  <2>6. ASSUME NEW i \in DOMAIN wire', i < j, wire'[i].m = "contextCreated",
               wire'[i].session = s, wire'[i].origin # truth.shows
        PROVE  Clears(s, wire[i].id, i, j)'
    <3>1. PICK l, w : l = i + 1 /\ w = wire'[i].id
      OBVIOUS
    <3>2. l \in DOMAIN wire /\ l \in Nat /\ i \in Nat /\ i < l /\ l < n /\ wire[l] = wire'[i]
      BY <1>1, <2>1, <2>2, <2>6, <3>1
    <3>3. Clears(s, w, l, n)
      BY <2>3, <2>6, <3>1, <3>2
    <3>4. Clears(s, w, i, n - 1)'
      BY <2>2, <3>2, <3>3, ClearsMove
    <3> QED
      BY <2>2, <3>1, <3>4 DEF Clears, Discards
  <2>7. ASSUME NEW k \in DOMAIN contexts', k[1] = s, contexts'[k].origin # truth.shows
        PROVE  Clears(s, k[2], 0, j)'
    <3>1. Clears(s, k[2], 0, n - 1)'
      <4>1. CASE /\ k \in DOMAIN contexts /\ contexts'[k] = contexts[k]
                 /\ ~Discards(h, k[1], k[2])
        <5>1. Clears(s, k[2], 0, n)
          BY <2>3, <2>7, <4>1
        <5> QED
          BY <2>2, <2>7, <4>1, <5>1, ClearsMove
      <4>2. CASE /\ h.m = "contextCreated" /\ k = <<h.session, h.id>>
                 /\ contexts'[k].origin = h.origin
        <5>1. h.session = s /\ h.id = k[2] /\ h.origin # truth.shows
          BY <2>7, <4>2
        <5>2. Clears(s, k[2], 1, n)
          BY <1>1, <2>2, <2>3, <4>2, <5>1
        <5>3. n \in Nat /\ 1 \in Nat /\ 0 \in Nat /\ 0 < 1
          BY <2>2
        <5> QED
          BY ONLY WireInv, Handles(h), <5>2, <5>3, ClearsMove
      <4> QED
        BY <4>1, <4>2 DEF Handles, Learns
    <3> QED
      BY <2>2, <3>1
  <2> QED
    BY <2>2, <2>3, <2>4, <2>5, <2>6, <2>7
<1> QED
  BY <1>2 DEF TruthInv, Clears, Discards

LEMMA HandledNoneMore ==
  ASSUME WireInv, NoneMore, NEW h, Handles(h)
  PROVE  NoneMore'
<1>1. /\ Len(wire) \in Nat /\ Len(wire) > 0 /\ DOMAIN wire = 1 .. Len(wire)
      /\ Len(wire') = Len(wire) - 1 /\ DOMAIN wire' = 1 .. Len(wire) - 1
      /\ 1 \in DOMAIN wire /\ h = wire[1]
      /\ \A k \in DOMAIN wire' : k + 1 \in DOMAIN wire /\ wire'[k] = wire[k + 1]
  BY HandledRest
<1> SUFFICES ASSUME NEW k \in 0 .. Len(wire'), NEW s \in Present', NEW w \in Worlds, Has(k, s, w)'
             PROVE  /\ w = "observer" => s \in enabled'["script"]
                    /\ \A j \in DOMAIN wire' :
                         j > k /\ wire'[j].m = "attached" => wire'[j].session # s
                    /\ s \in DOMAIN attached' /\ doc'[attached'[s]] \notin {"own", "other"}
                         /\ (k = 0 => s \in DOMAIN reg'.s2t) => Wiped(s, w, k)'
  BY DEF NoneMore, Shows
<1>2. UNCHANGED <<doc, attached, opened, enabled>> /\ s \in Present
  BY DEF Handles, Learns, Present
(* Where it was before.                                                      *)
<1>3. PICK i \in 0 .. Len(wire) :
        /\ Has(i, s, w) /\ i <= k + 1
        /\ i <= k => k = 0 /\ ~Discards(h, s, w)
  <2>1. CASE k # 0
    <3>1. k \in DOMAIN wire' /\ wire'[k].m = "contextCreated" /\ wire'[k].session = s /\ wire'[k].id = w
      BY <1>1, <2>1 DEF Has
    <3>2. PICK i : i = k + 1
      OBVIOUS
    <3>3. i \in 0 .. Len(wire) /\ i # 0 /\ wire[i] = wire'[k] /\ i <= k + 1 /\ ~(i <= k)
      BY <1>1, <3>1, <3>2
    <3> QED
      BY <3>1, <3>3 DEF Has
  <2>2. CASE k = 0
    <3>1. PICK c : c = <<s, w>>
      OBVIOUS
    <3>2. c \in DOMAIN contexts' /\ c[1] = s /\ c[2] = w
      BY <2>2, <3>1 DEF Has
    <3>3. CASE c \in DOMAIN contexts /\ ~Discards(h, c[1], c[2])
      <4>1. 0 \in 0 .. Len(wire) /\ 0 <= k + 1
        BY <1>1, <2>2
      <4> QED
        BY <2>2, <3>1, <3>2, <3>3, <4>1 DEF Has
    <3>4. CASE h.m = "contextCreated" /\ c = <<h.session, h.id>>
      <4>1. h.session = s /\ h.id = w
        BY <3>2, <3>4
      <4>2. 1 \in 0 .. Len(wire) /\ 1 <= k + 1 /\ ~(1 <= k) /\ 1 # 0
        BY <1>1, <2>2
      <4> QED
        BY <1>1, <3>4, <4>1, <4>2 DEF Has
    <3> QED
      BY <3>2, <3>3, <3>4 DEF Handles, Learns
  <2> QED
    BY <2>1, <2>2
<1>4. /\ w = "observer" => s \in enabled["script"]
      /\ \A j \in DOMAIN wire : j > i /\ wire[j].m = "attached" => wire[j].session # s
      /\ s \in DOMAIN attached /\ ~Shows(attached[s]) /\ (i = 0 => s \in DOMAIN reg.s2t)
           => Wiped(s, w, i)
  BY <1>2, <1>3 DEF NoneMore
<1>5. \A j \in DOMAIN wire' : j > k /\ wire'[j].m = "attached" => wire'[j].session # s
  <2> SUFFICES ASSUME NEW j \in DOMAIN wire', j > k, wire'[j].m = "attached"
               PROVE  wire'[j].session # s
    OBVIOUS
  <2>1. PICK l : l = j + 1
    OBVIOUS
  <2>2. l \in DOMAIN wire /\ wire[l] = wire'[j] /\ l > i
    BY <1>1, <1>3, <2>1
  <2> QED
    BY <1>4, <2>2
<1>6. ASSUME s \in DOMAIN attached', doc'[attached'[s]] \notin {"own", "other"},
             k = 0 => s \in DOMAIN reg'.s2t
      PROVE  Wiped(s, w, k)'
  <2>1. i = 0 => s \in DOMAIN reg.s2t
    <3>1. ASSUME i = 0, s \notin DOMAIN reg.s2t PROVE FALSE
      <4>1. k = 0
        BY <1>1, <1>3, <3>1
      <4>2. h.m = "attached" /\ h.session = s
        BY <1>6, <3>1, <4>1 DEF Handles, Learns
      <4>3. 1 > i
        BY <3>1
      <4> QED
        BY <1>1, <1>4, <4>2, <4>3
    <3> QED
      BY <3>1
  <2>2. PICK j \in DOMAIN wire : j > i /\ Wipes(wire[j], s, w)
    BY <1>2, <1>4, <1>6, <2>1 DEF Shows, Wiped
  <2>3. j # 1
    <3> SUFFICES ASSUME j = 1 PROVE FALSE
      OBVIOUS
    <3>1. i = 0 /\ k = 0
      BY <1>1, <1>3, <2>2
    <3>2. Wipes(h, s, w) /\ s \in DOMAIN attached \cap DOMAIN reg'.s2t
      BY <1>1, <1>2, <1>6, <2>2, <3>1
    <3>3. <<s, w>> \in DOMAIN contexts'
      BY <3>1 DEF Has
    <3> QED
      BY <3>2, <3>3 DEF Handles, Forgets
  <2>4. PICK l : l = j - 1
    OBVIOUS
  <2>5. l \in DOMAIN wire' /\ wire'[l] = wire[j] /\ l > k
    <3>1. l \in DOMAIN wire' /\ l + 1 = j
      BY <1>1, <2>3, <2>4
    <3>2. l > k
      BY <1>1, <1>3, <2>2, <2>3, <2>4
    <3> QED
      BY <1>1, <3>1, <3>2
  <2> QED
    BY <1>2, <2>2, <2>5 DEF Wiped, Wipes, Discards
<1> QED
  BY <1>2, <1>4, <1>5, <1>6

LEMMA HandledNoneLess ==
  ASSUME SessionsInv, WireInv, DocumentsInv, NoneLess, NEW h, Handles(h)
  PROVE  NoneLess'
<1>1. /\ Len(wire) \in Nat /\ Len(wire) > 0 /\ DOMAIN wire = 1 .. Len(wire)
      /\ Len(wire') = Len(wire) - 1 /\ DOMAIN wire' = 1 .. Len(wire) - 1
      /\ 1 \in DOMAIN wire /\ h = wire[1]
      /\ \A k \in DOMAIN wire' : k + 1 \in DOMAIN wire /\ wire'[k] = wire[k + 1]
  BY HandledRest
<1> SUFFICES ASSUME NEW s \in DOMAIN attached', NEW w \in Live(s)'
             PROVE  \E k \in 0 .. Len(wire') :
                      Has(k, s, w)' /\ Origin(k, s, w)' = doc'[attached'[s]] /\ ~Wiped(s, w, k)'
  BY DEF NoneLess
<1>2. UNCHANGED <<doc, attached, enabled>>
  BY DEF Handles
<1>3. s \in DOMAIN attached /\ w \in Live(s) /\ Shows(attached[s])
  BY <1>2 DEF Live, Shows
<1>4. PICK i \in 0 .. Len(wire) : Has(i, s, w) /\ Origin(i, s, w) = doc[attached[s]] /\ ~Wiped(s, w, i)
  BY <1>3 DEF NoneLess
<1>5. ASSUME NEW k \in Nat, k + 1 >= i PROVE ~Wiped(s, w, k)'
  <2> SUFFICES ASSUME NEW j \in DOMAIN wire', j > k PROVE ~Wipes(wire'[j], s, w)
    BY <1>2 DEF Wiped, Wipes, Discards
  <2>1. PICK l : l = j + 1
    OBVIOUS
  <2>2. l \in DOMAIN wire /\ wire[l] = wire'[j] /\ l > i
    BY <1>1, <1>5, <2>1
  <2> QED
    BY <1>4, <2>2 DEF Wiped
<1>6. CASE i > 1
  <2>1. PICK k : k = i - 1
    OBVIOUS
  <2>2. k \in 0 .. Len(wire') /\ k # 0 /\ k \in DOMAIN wire' /\ k + 1 = i /\ k \in Nat
    BY <1>1, <1>6, <2>1
  <2>3. wire'[k] = wire[i] /\ i # 0
    BY <1>1, <1>6, <2>2
  <2>4. Has(k, s, w)' /\ Origin(k, s, w)' = doc'[attached'[s]]
    BY <1>2, <1>4, <2>2, <2>3 DEF Has, Origin
  <2> QED
    BY <1>5, <2>2, <2>4
<1>7. ASSUME <<s, w>> \in DOMAIN contexts', contexts'[<<s, w>>].origin = doc[attached[s]], i <= 1
      PROVE  \E k \in 0 .. Len(wire') :
               Has(k, s, w)' /\ Origin(k, s, w)' = doc'[attached'[s]] /\ ~Wiped(s, w, k)'
  <2>1. 0 \in 0 .. Len(wire') /\ 0 \in Nat /\ 0 + 1 >= i
    BY <1>1, <1>7
  <2>2. Has(0, s, w)' /\ Origin(0, s, w)' = doc'[attached'[s]]
    BY <1>2, <1>7 DEF Has, Origin
  <2> QED
    BY <1>5, <2>1, <2>2
<1>8. CASE i = 1
  <2>1. h.m = "contextCreated" /\ h.session = s /\ h.id = w /\ h.origin = doc[attached[s]]
    BY <1>1, <1>4, <1>8 DEF Has, Origin
  <2> QED
    BY <1>7, <1>8, <2>1 DEF Handles, Forgets
<1>9. CASE i = 0
  <2>1. PICK c : c = <<s, w>>
    OBVIOUS
  <2>2. c \in DOMAIN contexts /\ c[1] = s /\ c[2] = w /\ contexts[c].origin = doc[attached[s]]
    BY <1>4, <1>9, <2>1 DEF Has, Origin
  <2>3. \A j \in DOMAIN wire : ~Wipes(wire[j], s, w)
    BY <1>1, <1>4, <1>9 DEF Wiped
  <2>4. h.m = "contextCreated" /\ c = <<h.session, h.id>> => h.origin = doc[attached[s]]
    <3>1. ~Clears(s, w, 1, Len(wire) + 1)
      BY <2>3 DEF Clears, Wipes
    <3>2. c = <<h.session, h.id>> => h.session = s /\ h.id = w
      BY <2>1
    <3> QED
      BY <1>1, <1>3, <3>1, <3>2 DEF DocumentsInv, Outdated
  <2>5. c \in DOMAIN contexts' /\ contexts'[c].origin = doc[attached[s]]
    BY <1>1, <1>3, <2>2, <2>3, <2>4 DEF Handles, Forgets
  <2> QED
    BY <1>7, <1>9, <2>1, <2>5
<1>10. i = 0 \/ i = 1 \/ i > 1
  BY <1>1, <1>4
<1> QED
  BY <1>6, <1>8, <1>9, <1>10

-----------------------------------------------------------------------------
(* The steps of the browser.                                                 *)
LogInv == IsSequence(log) /\ ActionsAreTrue

RecordingInv ==
  /\ RegistryInv /\ SessionsInv /\ AtInv /\ KeptInv
  /\ WireInv /\ DocumentsInv /\ TruthInv /\ MirrorInv /\ LogInv

LEMMA BrowserTells ==
  ASSUME RecordingInv, NEW p, Tells(p), Grows, Announces(p), Reveals(p), BrowserKeeps,
         \A k \in DOMAIN p :
           p[k].m = "bindingCalled" => Len(p) = 1 /\ UNCHANGED <<doc, attached>>
  PROVE  RecordingInv'
<1>1. UNCHANGED <<reg, contexts, at, log>>
  BY DEF BrowserKeeps, collector
<1>2. RegistryInv' /\ LogInv'
  BY <1>1 DEF RecordingInv, RegistryInv, LogInv, ActionsAreTrue
<1>3. SessionsInv' /\ KeptInv' /\ WireInv' /\ DocumentsInv'
  BY <1>1, GrowsKeeps, GrowsKept, ToldWire, ToldDocuments DEF RecordingInv
<1>4. AtInv'
  BY <1>1, GrowsKeeps DEF RecordingInv, AtInv
<1>5. \A s \in DOMAIN reg'.s2t :
        s <= opened => s \in DOMAIN reg.s2t /\ reg'.s2t[s] = reg.s2t[s]
  BY <1>1
<1>6. TruthInv'
  BY <1>1, <1>3, <1>5, ToldTruth DEF RecordingInv
<1>7. MirrorInv'
  BY <1>1, <1>5, ToldNoneMore, ToldNoneLess DEF RecordingInv, MirrorInv
<1> QED
  BY <1>2, <1>3, <1>4, <1>6, <1>7 DEF RecordingInv

LEMMA One ==
  ASSUME NEW e
  PROVE  IsSequence(<<e>>) /\ Len(<<e>>) = 1 /\ DOMAIN <<e>> = {1} /\ <<e>>[1] = e
<1>1. <<e>> \in Seq({e}) /\ Range(<<e>>) = {e}
  BY DEF Range
<1> QED
  BY <1>1 DEF IsSequence

LEMMA Two ==
  ASSUME NEW e, NEW f
  PROVE  IsSequence(<<e, f>>) /\ DOMAIN <<e, f>> = {1, 2} /\ <<e, f>>[1] = e /\ <<e, f>>[2] = f
<1>1. <<e, f>> \in Seq({e, f}) /\ Range(<<e, f>>) = {e, f}
  BY DEF Range
<1> QED
  BY <1>1 DEF IsSequence

(* Events that say nothing of sessions.                                      *)
Quiet(e) ==
  /\ e.m \notin {"attached", "contextCreated", "bindingCalled", "detached"}
  /\ e.m = "socket" => e.what \in {"created", "frame", "closed"}

LEMMA QuietIsSo ==
  ASSUME NEW e, Quiet(e)
  PROVE  IsSo(e)
BY DEF Quiet, IsSo, Names

LEMMA SessionsFinite ==
  ASSUME SessionsInv
  PROVE  \A S : S \subseteq DOMAIN attached => IsFiniteSet(S)
<1>1. IsFiniteSet(1 .. opened)
  BY FS_Interval DEF SessionsInv
<1> QED
  BY <1>1, FS_Subset DEF SessionsInv

LEMMA ToHearersQuiet ==
  ASSUME SessionsInv, NEW t, NEW event, "m" \in DOMAIN event, Quiet(event),
         event.m = "socket" => "what" \in DOMAIN event
  PROVE  LET p == ToHearers(t, event)
         IN IsSequence(p) /\ \A k \in DOMAIN p : Quiet(p[k]) /\ p[k].m = event.m
<1> DEFINE order == SetToSeq(Hearing(t))
           p == ToHearers(t, event)
<1>1. IsFiniteSet(Hearing(t))
  BY SessionsFinite DEF Hearing, SessionsOf
<1>2. DOMAIN order = 1 .. Cardinality(Hearing(t)) /\ Cardinality(Hearing(t)) \in Nat
  BY <1>1, SetOrder
<1>3. p = [k \in DOMAIN order |-> [event EXCEPT !.session = order[k]]]
  BY DEF ToHearers, Each
<1> HIDE DEF p, order
<1>4. p = [k \in 1 .. Cardinality(Hearing(t)) |-> p[k]]
  BY <1>2, <1>3
<1>5. IsSequence(p)
  BY <1>2, <1>4, SequenceOf
<1>6. ASSUME NEW k \in DOMAIN p PROVE Quiet(p[k]) /\ p[k].m = event.m
  <2>1. p[k] = [event EXCEPT !.session = order[k]]
    BY <1>3
  <2>2. p[k].m = event.m /\ (event.m = "socket" => p[k].what = event.what)
    BY <2>1
  <2> QED
    BY <2>2 DEF Quiet
<1> QED
  BY <1>5, <1>6 DEF p

LEMMA Still ==
  ASSUME SessionsInv, UNCHANGED <<doc, attached, opened, enabled, departed>>
  PROVE  Grows /\ \A p : Announces(p)
BY DEF SessionsInv, Grows, Announces

(* Contexts come and go with documents only.                                 *)
Mute(e) == e.m \notin {"contextCreated", "contextsCleared", "contextDestroyed", "destroyed", "crashed"}

LEMMA MuteReveals ==
  ASSUME SessionsInv, Grows, NEW p, \A k \in DOMAIN p : Mute(p[k]),
         enabled'["binding"] = enabled["binding"], enabled'["script"] = enabled["script"],
         \A s \in DOMAIN attached \cap DOMAIN attached' : doc'[attached[s]] = doc[attached[s]]
  PROVE  Reveals(p)
<1>1. \A k \in DOMAIN p : p[k].m # "contextCreated" /\ \A s, w : ~Wipes(p[k], s, w)
  BY DEF Mute, Wipes, Discards
<1>2. ASSUME NEW s \in DOMAIN attached', NEW w \in Worlds, w \in Live(s)'
      PROVE  s \in DOMAIN attached /\ w \in Live(s) /\ doc'[attached[s]] = doc[attached[s]]
  <2>1. /\ s \in enabled["binding"] /\ doc'[attached'[s]] \in {"own", "other"}
        /\ w = "observer" => s \in enabled["script"]
    BY <1>2 DEF Live, Shows
  <2>2. s \in DOMAIN attached /\ attached'[s] = attached[s]
    BY <2>1 DEF SessionsInv, Grows
  <2> QED
    BY <2>1, <2>2 DEF Live, Shows
<1>3. \A s \in DOMAIN attached \cap DOMAIN attached' :
        doc'[attached[s]] \in {"own", "other"} \/ ~Shows(attached[s])
  BY DEF Shows
<1> QED
  BY <1>1, <1>2, <1>3 DEF Reveals

LEMMA QuietlyTells ==
  ASSUME RecordingInv, NEW p, IsSequence(p), wire' = wire \o p, \A k \in DOMAIN p : Quiet(p[k]),
         Grows, Announces(p), Reveals(p), BrowserKeeps
  PROVE  RecordingInv'
<1>1. Tells(p)
  BY QuietIsSo DEF Tells
<1>2. \A k \in DOMAIN p :
        p[k].m = "bindingCalled" => Len(p) = 1 /\ UNCHANGED <<doc, attached>>
  BY DEF Quiet
<1> QED
  BY <1>1, <1>2, BrowserTells

LEMMA OpensKeeps ==
  ASSUME RecordingInv, NEW t \in Targets, NEW d, Opens(t, d)
  PROVE  RecordingInv' /\ ToldOfSessions
<1>1. /\ doc[t] = "closed" /\ d # "closed" /\ doc' = [doc EXCEPT ![t] = d] /\ BrowserKeeps
      /\ departed' = departed /\ enabled' = enabled
  BY DEF Opens, BrowserKeeps
<1>2. SessionsInv /\ opened \in Nat /\ DOMAIN doc = Targets /\ doc'[t] = d /\ DOMAIN doc' = Targets
      /\ \A s \in DOMAIN attached : attached[s] # t /\ doc'[attached[s]] = doc[attached[s]]
  BY <1>1 DEF RecordingInv, SessionsInv
<1>3. CASE /\ wire' = wire \o <<Info("targetCreated", t)>>
           /\ UNCHANGED <<attached, opened>>
  <2>1. Grows /\ \A p : Announces(p)
    BY <1>1, <1>2, <1>3 DEF SessionsInv, Grows, Announces
  <2>2. Quiet(Info("targetCreated", t))
    BY DEF Info, Quiet
  <2>3. PICK e : e = Info("targetCreated", t)
    OBVIOUS
  <2>4. IsSequence(<<e>>) /\ wire' = wire \o <<e>> /\ \A k \in DOMAIN <<e>> : Quiet(<<e>>[k])
    BY <1>3, <2>2, <2>3, One
  <2>5. Reveals(<<e>>)
    <3>1. \A k \in DOMAIN <<e>> : Mute(<<e>>[k])
      BY <2>3, One DEF Info, Mute
    <3> QED
      BY <1>1, <1>2, <2>1, <3>1, MuteReveals
  <2>6. Tells(<<e>>) /\ Ceases(<<e>>) /\ Others(<<e>>)
    <3>1. DOMAIN <<e>> = {1} /\ <<e>>[1].m = "targetCreated"
      BY <2>3, One DEF Info
    <3> QED
      BY <1>3, <2>4, <3>1, QuietIsSo DEF Tells, Ceases, Others, Traffic
  <2> QED
    BY <1>1, <2>1, <2>4, <2>5, <2>6, QuietlyTells DEF ToldOfSessions
<1>4. CASE /\ opened' = opened + 1 /\ attached' = Put(attached, opened + 1, t)
           /\ wire' = wire \o <<Info("targetCreated", t),
                                [m |-> "attached", session |-> opened + 1, target |-> t, shows |-> d]>>
  <2>1. /\ DOMAIN attached' = DOMAIN attached \cup {opened'} /\ attached'[opened'] = t
        /\ \A s \in DOMAIN attached : s <= opened /\ attached'[s] = attached[s]
    BY <1>2, <1>4 DEF Put, SessionsInv
  <2>2. Grows
    BY <1>1, <1>2, <1>4, <2>1 DEF SessionsInv, Grows
  <2>3. PICK e, f : /\ e = Info("targetCreated", t)
                    /\ f = [m |-> "attached", session |-> opened + 1, target |-> t, shows |-> d]
    OBVIOUS
  <2>4. IsSo(e) /\ e.m = "targetCreated"
    <3>1. e.m = "targetCreated"
      BY <2>3 DEF Info
    <3> QED
      BY <3>1, QuietIsSo DEF Quiet
  <2>5. IsSo(f) /\ f.m = "attached"
    BY <1>2, <1>4, <2>1, <2>3 DEF IsSo, Names
  <2>6. PICK p : p = <<e, f>>
    OBVIOUS
  <2>7. IsSequence(p) /\ DOMAIN p = {1, 2} /\ p[1] = e /\ p[2] = f
    BY <2>6, Two
  <2>8. Tells(p)
    BY <1>4, <2>3, <2>4, <2>5, <2>6, <2>7 DEF Tells
  <2>9. Announces(p)
    BY <1>2 DEF Announces
  <2>10. \A k \in DOMAIN p : p[k].m # "bindingCalled" /\ Mute(p[k])
    BY <2>4, <2>5, <2>7 DEF Mute
  <2>11. Reveals(p)
    BY <1>1, <1>2, <2>2, <2>10, MuteReveals
  <2>12. Ceases(p) /\ Others(p)
    BY <2>1, <2>4, <2>5, <2>7 DEF Ceases, Others, Traffic
  <2> QED
    BY <1>1, <2>2, <2>8, <2>9, <2>10, <2>11, <2>12, BrowserTells DEF ToldOfSessions
<1> QED
  BY <1>3, <1>4 DEF Opens, Tell

LEMMA MovesKeeps ==
  ASSUME RecordingInv, NEW t \in Targets, NEW d \in {"own", "other"}, NEW together \in BOOLEAN,
         Moves(t, d, together)
  PROVE  RecordingInv' /\ ToldOfSessions
<1> DEFINE told == SessionsOf(t) \cap enabled["binding"]
           shown == {c \in told \X Worlds : c[2] = "observer" => c[1] \in enabled["script"]}
           a == SetToSeq(told)
           b == SetToSeq(shown)
           cleared == [k \in DOMAIN a |-> [m |-> "contextsCleared", session |-> a[k]]]
           destroyed == [k \in DOMAIN b |-> [m |-> "contextDestroyed", session |-> b[k][1], id |-> b[k][2]]]
<1>1. PICK clear, create, info :
        /\ clear = IF together THEN cleared ELSE destroyed
        /\ create = [k \in DOMAIN b |-> ContextOf(b[k][1], b[k][2], d)]
        /\ info = <<Info("infoChanged", t)>>
  OBVIOUS
<1>2. /\ wire' = wire \o ((clear \o create) \o info)
      /\ doc[t] # "closed" /\ d \in {"own", "other"} /\ doc' = [doc EXCEPT ![t] = d]
      /\ UNCHANGED <<attached, opened, enabled, departed>> /\ BrowserKeeps
  BY <1>1 DEF Moves, Tell, NewDocument, Each, BrowserKeeps
<1>3. SessionsInv /\ opened \in Nat /\ DOMAIN doc = Targets /\ doc'[t] = d /\ DOMAIN doc' = Targets
      /\ \A s \in DOMAIN attached : attached[s] # t => doc'[attached[s]] = doc[attached[s]]
  BY <1>2 DEF RecordingInv, SessionsInv
<1>4. IsFiniteSet(told) /\ IsFiniteSet(shown)
  <2>1. IsFiniteSet(told)
    BY <1>3, SessionsFinite DEF SessionsOf
  <2>2. Worlds = {"observer"} \cup {"page"} /\ IsFiniteSet(Worlds)
    <3>1. IsFiniteSet({"observer"}) /\ IsFiniteSet({"page"})
      BY FS_Singleton
    <3>2. Worlds = {"observer"} \cup {"page"}
      BY DEF Worlds
    <3> QED
      BY <3>1, <3>2, FS_Union
  <2>3. IsFiniteSet(told \X Worlds)
    BY <2>1, <2>2, FS_Product
  <2> QED
    BY <2>1, <2>3, FS_Subset
<1>5. /\ Cardinality(told) \in Nat /\ DOMAIN a = 1 .. Cardinality(told)
      /\ \A k \in DOMAIN a : a[k] \in told
      /\ \A x \in told : \E k \in DOMAIN a : a[k] = x
      /\ Cardinality(shown) \in Nat /\ DOMAIN b = 1 .. Cardinality(shown)
      /\ \A k \in DOMAIN b : b[k] \in shown
      /\ \A x \in shown : \E k \in DOMAIN b : b[k] = x
  <2> HIDE DEF told, shown
  <2>1. /\ Cardinality(told) \in Nat /\ DOMAIN a = 1 .. Cardinality(told)
        /\ \A k \in DOMAIN a : a[k] \in told
        /\ \A x \in told : \E k \in DOMAIN a : a[k] = x
    BY <1>4, SetOrder
  <2>2. /\ Cardinality(shown) \in Nat /\ DOMAIN b = 1 .. Cardinality(shown)
        /\ \A k \in DOMAIN b : b[k] \in shown
        /\ \A x \in shown : \E k \in DOMAIN b : b[k] = x
    BY <1>4, SetOrder
  <2> HIDE DEF a, b
  <2> QED
    BY <2>1, <2>2
<1> HIDE DEF a, b
<1>6. \A k \in DOMAIN b :
        /\ b[k][1] \in DOMAIN attached /\ attached[b[k][1]] = t /\ b[k][1] \in enabled["binding"]
        /\ b[k][2] \in Worlds /\ (b[k][2] = "observer" => b[k][1] \in enabled["script"])
  BY <1>5 DEF SessionsOf
<1>7. /\ IsSequence(clear) /\ IsSequence(create) /\ DOMAIN create = DOMAIN b
      /\ DOMAIN clear = (IF together THEN DOMAIN a ELSE DOMAIN b)
      /\ \E n \in Nat : DOMAIN clear = 1 .. n
  <2>1. /\ together => clear = [k \in 1 .. Cardinality(told) |-> clear[k]]
        /\ ~together => clear = [k \in 1 .. Cardinality(shown) |-> clear[k]]
        /\ create = [k \in 1 .. Cardinality(shown) |-> create[k]]
    BY <1>1, <1>5
  <2>2. IsSequence(create) /\ DOMAIN create = DOMAIN b
    BY <1>1, <1>5, <2>1, SequenceOf
  <2>3. ASSUME together PROVE IsSequence(clear) /\ DOMAIN clear = DOMAIN a
    BY <1>1, <1>5, <2>1, <2>3, SequenceOf
  <2>4. ASSUME ~together PROVE IsSequence(clear) /\ DOMAIN clear = DOMAIN b
    BY <1>1, <1>5, <2>1, <2>4, SequenceOf
  <2> QED
    BY <1>5, <2>2, <2>3, <2>4
<1>8. \A k \in DOMAIN clear :
        \/ /\ together /\ clear[k].m = "contextsCleared" /\ clear[k].session = a[k] /\ k \in DOMAIN a
        \/ /\ ~together /\ clear[k].m = "contextDestroyed" /\ k \in DOMAIN b
           /\ clear[k].session = b[k][1] /\ clear[k].id = b[k][2]
  BY <1>1
<1>9. ASSUME NEW k \in DOMAIN create
      PROVE  /\ IsSo(create[k]) /\ create[k].m = "contextCreated"
             /\ create[k].session = b[k][1] /\ create[k].id = b[k][2]
  <2>1. create[k] = ContextOf(b[k][1], b[k][2], d) /\ k \in DOMAIN b
    BY <1>1
  <2>2. create[k].m = "contextCreated" /\ create[k].session = b[k][1] /\ create[k].origin = d
        /\ create[k].id = create[k].world /\ create[k].id = b[k][2]
    BY <2>1 DEF ContextOf
  <2> QED
    BY <1>2, <1>3, <1>6, <2>1, <2>2 DEF IsSo, Names, Granted
<1>10. IsSequence(info) /\ DOMAIN info = {1} /\ info[1].m = "infoChanged"
  <2>1. Info("infoChanged", t).m = "infoChanged"
    BY DEF Info
  <2> QED
    BY <1>1, <2>1, One
<1>11. PICK mid, p : mid = clear \o create /\ p = mid \o info
  OBVIOUS
<1>12. /\ IsSequence(mid)
       /\ \A k \in DOMAIN clear : k \in DOMAIN mid /\ mid[k] = clear[k]
       /\ \A k \in DOMAIN mid :
            \/ k \in DOMAIN clear /\ mid[k] = clear[k]
            \/ \E l \in DOMAIN create : mid[k] = create[l]
       /\ \A l \in DOMAIN create : \E k \in DOMAIN mid : mid[k] = create[l]
  <2>1. IsSequence(clear) /\ IsSequence(create)
    BY <1>7, <1>11
  <2>2. IsSequence(mid) /\ Joins(mid, clear, create)
    BY <1>11, <2>1, Parts
  <2> QED
    BY <2>2 DEF Joins
<1>13. /\ IsSequence(p)
       /\ \A k \in DOMAIN mid : k \in DOMAIN p /\ p[k] = mid[k]
       /\ \A k \in DOMAIN p :
            \/ k \in DOMAIN mid /\ p[k] = mid[k]
            \/ \E l \in DOMAIN info : p[k] = info[l]
  <2>1. IsSequence(mid) /\ IsSequence(info)
    BY <1>10, <1>11, <1>12
  <2>2. IsSequence(p) /\ Joins(p, mid, info)
    BY <1>11, <2>1, Parts
  <2> QED
    BY <2>2 DEF Joins
<1>14. ASSUME NEW k \in DOMAIN p PROVE IsSo(p[k]) /\ p[k].m # "bindingCalled"
  <2>1. CASE p[k].m \in {"contextsCleared", "contextDestroyed", "infoChanged"}
    BY <2>1, QuietIsSo DEF Quiet
  <2>2. CASE \E l \in DOMAIN create : p[k] = create[l]
    BY <1>9, <2>2
  <2> QED
    BY <1>8, <1>10, <1>12, <1>13, <2>1, <2>2
<1>15. Tells(p)
  BY <1>2, <1>11, <1>13, <1>14 DEF Tells
<1>16. Announces(p)
  <2> SUFFICES ASSUME NEW s \in DOMAIN attached, NEW w \in Worlds, Granted(enabled, s, w), attached[s] = t
               PROVE  \E k \in DOMAIN p : Discards(p[k], s, w)
    BY <1>3 DEF Announces
  <2>1. PICK c : c = <<s, w>>
    OBVIOUS
  <2>2. s \in told /\ c \in shown /\ c[1] = s /\ c[2] = w
    BY <2>1 DEF SessionsOf, Granted
  <2>3. PICK k \in DOMAIN clear : Discards(clear[k], s, w)
    <3>1. CASE together
      <4>1. PICK k \in DOMAIN a : a[k] = s
        BY <1>5, <2>2
      <4> QED
        BY <1>7, <1>8, <3>1, <4>1 DEF Discards
    <3>2. CASE ~together
      <4>1. PICK k \in DOMAIN b : b[k] = c
        BY <1>5, <2>2
      <4> QED
        BY <1>7, <1>8, <2>2, <3>2, <4>1 DEF Discards
    <3> QED
      BY <3>1, <3>2
  <2> QED
    BY <1>12, <1>13, <2>3
<1>17. Grows
  BY <1>2, <1>3 DEF SessionsInv, Grows
<1>18. Reveals(p)
  <2>1. \A k \in DOMAIN p :
          \/ k \in DOMAIN clear /\ p[k] = clear[k]
          \/ p[k].m = "infoChanged"
          \/ \E l \in DOMAIN create : p[k] = create[l]
    BY <1>10, <1>12, <1>13
  <2>2. ASSUME NEW k \in DOMAIN p, p[k].m = "contextCreated"
        PROVE  /\ p[k].session \in DOMAIN attached /\ doc'[attached[p[k].session]] \in {"own", "other"}
               /\ p[k].id = "observer" => p[k].session \in enabled'["script"]
    <3>1. PICK l \in DOMAIN create : p[k] = create[l]
      BY <1>8, <2>1, <2>2
    <3> QED
      BY <1>2, <1>3, <1>6, <1>7, <1>9, <3>1
  <2>3. \A s \in DOMAIN attached : doc'[attached[s]] \in {"own", "other"} \/ ~Shows(attached[s])
    BY <1>2, <1>3 DEF Shows
  <2>4. ASSUME NEW s \in DOMAIN attached, NEW w \in Worlds, w \in Live(s)', attached[s] = t
        PROVE  \E k \in DOMAIN p :
                 /\ p[k].m = "contextCreated" /\ p[k].session = s /\ p[k].id = w
                 /\ \A j \in DOMAIN p : j > k => ~Wipes(p[j], s, w)
    <3>1. PICK c : c = <<s, w>>
      OBVIOUS
    <3>2. c \in shown /\ c[1] = s /\ c[2] = w
      BY <1>2, <2>4, <3>1 DEF Live, SessionsOf
    <3>3. PICK l \in DOMAIN b : b[l] = c
      BY <1>5, <3>2
    <3>4. PICK k \in DOMAIN p : p[k] = create[l]
      BY <1>7, <1>12, <1>13, <3>3
    <3>5. p[k].m = "contextCreated" /\ p[k].session = s /\ p[k].id = w
      BY <1>7, <1>9, <3>2, <3>3, <3>4
    <3>6. ASSUME NEW j \in DOMAIN p, j > k PROVE ~Wipes(p[j], s, w)
      <4>1. j \notin DOMAIN clear
        <5>1. k \in Nat /\ j \in Nat /\ \E n \in Nat : DOMAIN clear = 1 .. n
          <6>1. DOMAIN p = 1 .. Len(p)
            BY <1>13 DEF IsSequence
          <6> QED
            BY <1>5, <1>7, <6>1
        <5>2. k \notin DOMAIN clear
          <6>1. k \in DOMAIN clear => p[k] = clear[k]
            BY <1>12, <1>13
          <6> QED
            BY <1>8, <3>5, <6>1
        <5>3. k >= 1
          <6>1. DOMAIN p = 1 .. Len(p)
            BY <1>13 DEF IsSequence
          <6> QED
            BY <6>1
        <5> QED
          BY <3>6, <5>1, <5>2, <5>3
      <4>2. p[j].m = "infoChanged" \/ p[j].m = "contextCreated"
        BY <1>9, <2>1, <4>1
      <4> QED
        BY <4>2 DEF Wipes, Discards
    <3> QED
      BY <3>5, <3>6
  <2>5. ASSUME NEW s \in DOMAIN attached, NEW w \in Worlds, w \in Live(s)', attached[s] # t
        PROVE  /\ w \in Live(s) /\ doc'[attached[s]] = doc[attached[s]]
               /\ \A k \in DOMAIN p : ~Wipes(p[k], s, w)
    <3>1. w \in Live(s) /\ doc'[attached[s]] = doc[attached[s]]
      BY <1>2, <1>3, <2>5 DEF Live, Shows
    <3>2. ASSUME NEW k \in DOMAIN p PROVE ~Wipes(p[k], s, w)
      <4>1. CASE k \in DOMAIN clear /\ p[k] = clear[k]
        <5>1. p[k].m \in {"contextsCleared", "contextDestroyed"} /\ attached[p[k].session] = t
          <6>1. \A l \in DOMAIN a : attached[a[l]] = t
            BY <1>5 DEF SessionsOf
          <6> QED
            BY <1>6, <1>8, <4>1, <6>1
        <5> QED
          BY <2>5, <5>1 DEF Wipes, Discards, SessionsOf
      <4>2. CASE p[k].m = "infoChanged" \/ p[k].m = "contextCreated"
        BY <4>2 DEF Wipes, Discards
      <4> QED
        BY <1>9, <2>1, <4>1, <4>2
    <3> QED
      BY <3>1, <3>2
  <2> QED
    BY <1>2, <2>2, <2>3, <2>4, <2>5 DEF Reveals
<1>19. Ceases(p) /\ Others(p)
  <2>1. \A k \in DOMAIN p : p[k].m \in {"contextsCleared", "contextDestroyed", "contextCreated", "infoChanged"}
    BY <1>8, <1>9, <1>10, <1>12, <1>13
  <2> QED
    BY <1>2, <2>1 DEF Ceases, Others, Traffic
<1> QED
  BY <1>2, <1>14, <1>15, <1>16, <1>17, <1>18, <1>19, BrowserTells DEF ToldOfSessions

LEMMA ClosesKeeps ==
  ASSUME RecordingInv, NEW t \in Targets, Closes(t)
  PROVE  RecordingInv' /\ ToldOfSessions
<1> DEFINE a == SetToSeq(SessionsOf(t))
<1>1. PICK ends, gone :
        /\ ends = [k \in DOMAIN a |-> [m |-> "detached", session |-> a[k]]]
        /\ gone = <<[m |-> "destroyed", target |-> t]>>
  OBVIOUS
<1>2. /\ wire' = wire \o (ends \o gone)
      /\ doc' = [doc EXCEPT ![t] = "closed"] /\ attached' = Without(attached, SessionsOf(t))
      /\ UNCHANGED <<opened, enabled, departed>> /\ BrowserKeeps
  BY <1>1 DEF Closes, Tell, Each, BrowserKeeps
<1>3. SessionsInv /\ opened \in Nat /\ DOMAIN doc = Targets /\ DOMAIN doc' = Targets
      /\ DOMAIN attached \subseteq 1 .. opened
      /\ DOMAIN attached' = DOMAIN attached \ SessionsOf(t)
      /\ \A s \in DOMAIN attached' :
           attached'[s] = attached[s] /\ attached[s] # t /\ doc'[attached[s]] = doc[attached[s]]
  BY <1>2 DEF RecordingInv, SessionsInv, Without, SessionsOf
<1>4. Cardinality(SessionsOf(t)) \in Nat /\ DOMAIN a = 1 .. Cardinality(SessionsOf(t))
      /\ \A k \in DOMAIN a : a[k] \in SessionsOf(t)
  <2>1. IsFiniteSet(SessionsOf(t))
    BY <1>3, SessionsFinite DEF SessionsOf
  <2> QED
    BY <2>1, SetOrder
<1> HIDE DEF a
<1>5. IsSequence(ends) /\ DOMAIN ends = DOMAIN a
  <2>1. ends = [k \in 1 .. Cardinality(SessionsOf(t)) |-> ends[k]]
    BY <1>1, <1>4
  <2> QED
    BY <1>1, <1>4, <2>1, SequenceOf
<1>6. ASSUME NEW k \in DOMAIN ends PROVE IsSo(ends[k]) /\ ends[k].m = "detached"
  <2>1. ends[k].m = "detached" /\ ends[k].session = a[k] /\ a[k] \in SessionsOf(t)
    BY <1>1, <1>4
  <2>2. a[k] \in (1 .. opened) \ DOMAIN attached'
    BY <1>3, <2>1 DEF SessionsOf
  <2> QED
    BY <2>1, <2>2 DEF IsSo, Names
<1>7. IsSequence(gone) /\ DOMAIN gone = {1} /\ gone[1].m = "destroyed" /\ gone[1].target = t
  BY <1>1, One
<1>8. PICK p : p = ends \o gone
  OBVIOUS
<1>9. /\ IsSequence(p)
      /\ \A k \in DOMAIN p :
           \/ k \in DOMAIN ends /\ p[k] = ends[k]
           \/ \E l \in DOMAIN gone : p[k] = gone[l]
  <2>1. IsSequence(ends) /\ IsSequence(gone)
    BY <1>5, <1>7, <1>8
  <2>2. IsSequence(p) /\ Joins(p, ends, gone)
    BY <1>8, <2>1, Parts
  <2> QED
    BY <2>2 DEF Joins
<1>10. ASSUME NEW k \in DOMAIN p
       PROVE  /\ IsSo(p[k]) /\ p[k].m \notin {"bindingCalled", "contextCreated"}
              /\ \A s \in DOMAIN attached' : \A w : ~Wipes(p[k], s, w)
  <2>1. CASE p[k].m = "destroyed" /\ p[k].target = t
    BY <1>3, <2>1, QuietIsSo DEF Quiet, Wipes, Discards
  <2>2. CASE k \in DOMAIN ends /\ p[k] = ends[k]
    BY <1>6, <2>2 DEF Wipes, Discards
  <2> QED
    BY <1>7, <1>9, <2>1, <2>2
<1>11. Tells(p)
  BY <1>2, <1>8, <1>9, <1>10 DEF Tells
<1>12. Announces(p)
  BY <1>3 DEF Announces
<1>13. Grows
  BY <1>2, <1>3 DEF SessionsInv, Grows
<1>14. Reveals(p)
  <2>1. \A s \in DOMAIN attached' : doc'[attached[s]] \in {"own", "other"} \/ ~Shows(attached[s])
    BY <1>3 DEF Shows
  <2>2. \A s \in DOMAIN attached' : s \in DOMAIN attached /\ doc'[attached[s]] = doc[attached[s]]
                                   /\ Live(s)' = Live(s)
    BY <1>2, <1>3 DEF Live, Shows
  <2> QED
    BY <1>10, <2>1, <2>2 DEF Reveals
<1>15. Ceases(p) /\ Others(p)
  <2>1. \A k \in DOMAIN p : p[k].m = "detached" \/ (p[k].m = "destroyed" /\ p[k].target = t)
    BY <1>6, <1>7, <1>9
  <2>2. doc'[t] = "closed" /\ \A s \in DOMAIN attached : s \in DOMAIN attached' \/ attached[s] = t
    BY <1>2, <1>3 DEF SessionsOf
  <2> QED
    BY <2>1, <2>2 DEF Ceases, Others, Traffic
<1> QED
  BY <1>2, <1>10, <1>11, <1>12, <1>13, <1>14, <1>15, BrowserTells DEF ToldOfSessions

LEMMA CrashesKeeps ==
  ASSUME RecordingInv, NEW t \in Targets, Crashes(t)
  PROVE  RecordingInv' /\ ToldOfSessions
<1>1. PICK e : e = [m |-> "crashed", target |-> t]
  OBVIOUS
<1>2. /\ wire' = wire \o <<e>> /\ doc' = [doc EXCEPT ![t] = "crashed"]
      /\ UNCHANGED <<attached, opened, enabled, departed>> /\ BrowserKeeps
  BY <1>1 DEF Crashes, Tell, BrowserKeeps
<1>3. SessionsInv /\ opened \in Nat /\ DOMAIN doc = Targets /\ DOMAIN doc' = Targets
      /\ \A s \in DOMAIN attached :
           \/ attached[s] = t /\ doc'[attached[s]] = "crashed"
           \/ attached[s] # t /\ doc'[attached[s]] = doc[attached[s]]
  BY <1>2 DEF RecordingInv, SessionsInv
<1>4. Grows /\ Announces(<<e>>)
  BY <1>2, <1>3 DEF SessionsInv, Grows, Announces
<1>5. IsSequence(<<e>>) /\ \A k \in DOMAIN <<e>> : Quiet(<<e>>[k])
  <2>1. Quiet(e)
    BY <1>1 DEF Quiet
  <2> QED
    BY <2>1, One
<1>6. Reveals(<<e>>)
  <2>1. DOMAIN <<e>> = {1} /\ <<e>>[1] = e
    BY One
  <2>2. e.m = "crashed" /\ e.target = t
    BY <1>1
  <2>3. ASSUME NEW s \in DOMAIN attached, NEW w \in Worlds, w \in Live(s)'
        PROVE  /\ w \in Live(s) /\ doc'[attached[s]] = doc[attached[s]]
               /\ \A k \in DOMAIN <<e>> : ~Wipes(<<e>>[k], s, w)
    <3>1. attached[s] # t /\ doc'[attached[s]] = doc[attached[s]]
      BY <1>2, <1>3, <2>3 DEF Live, Shows
    <3>2. w \in Live(s)
      BY <1>2, <2>3, <3>1 DEF Live, Shows
    <3> QED
      BY <2>1, <2>2, <3>1, <3>2 DEF Wipes, Discards
  <2>4. ASSUME NEW s \in DOMAIN attached, NEW w \in Worlds
        PROVE  \/ doc'[attached[s]] \in {"own", "other"} \/ ~Shows(attached[s])
               \/ \E k \in DOMAIN <<e>> : Wipes(<<e>>[k], s, w)
    BY <1>3, <2>1, <2>2 DEF Wipes, Shows
  <2>5. \A k \in DOMAIN <<e>> : <<e>>[k].m # "contextCreated"
    BY <2>1, <2>2
  <2> QED
    BY <1>2, <2>3, <2>4, <2>5 DEF Reveals
<1>7. Tells(<<e>>) /\ Ceases(<<e>>) /\ Others(<<e>>)
  <2>1. DOMAIN <<e>> = {1} /\ <<e>>[1].m = "crashed" /\ <<e>>[1].target = t /\ doc'[t] = "crashed"
    BY <1>1, <1>2, <1>3, One
  <2> QED
    BY <1>2, <1>5, <2>1, QuietIsSo DEF Tells, Ceases, Others, Traffic
<1> QED
  BY <1>2, <1>4, <1>5, <1>6, <1>7, QuietlyTells DEF ToldOfSessions

LEMMA ClicksKeeps ==
  ASSUME RecordingInv, NEW s, NEW w, NEW clear, Clicks(s, w, clear)
  PROVE  RecordingInv' /\ ToldOfSessions
<1>1. PICK e :
        e = [m |-> "bindingCalled", session |-> s, id |-> w, clear |-> clear,
             truth |-> [target |-> attached[s], world |-> w, shows |-> doc[attached[s]]]]
  OBVIOUS
<1>2. /\ wire' = wire \o <<e>> /\ s \in DOMAIN attached /\ doc[attached[s]] \in {"own", "other"}
      /\ UNCHANGED <<doc, attached, opened, enabled, departed>> /\ BrowserKeeps
  BY <1>1 DEF Clicks, Tell, BrowserKeeps, Live, Shows
<1>3. Grows /\ \A p : Announces(p)
  BY <1>2, Still DEF RecordingInv
<1>4. IsSo(e)
  BY <1>1, <1>2 DEF IsSo, Names
<1>5. IsSequence(<<e>>) /\ Len(<<e>>) = 1 /\ DOMAIN <<e>> = {1} /\ <<e>>[1] = e
  BY One
<1>6. Tells(<<e>>)
  BY <1>2, <1>4, <1>5 DEF Tells
<1>7. Reveals(<<e>>)
  <2>1. \A k \in DOMAIN <<e>> : Mute(<<e>>[k])
    BY <1>1, <1>5 DEF Mute
  <2> QED
    BY <1>2, <1>3, <2>1, MuteReveals DEF RecordingInv
<1>8. Ceases(<<e>>) /\ Others(<<e>>)
  <2>1. steps' = steps + 1
    BY DEF Clicks, Happens
  <2> QED
    BY <1>1, <1>2, <1>5, <2>1 DEF Ceases, Others, Traffic
<1> QED
  BY <1>2, <1>3, <1>5, <1>6, <1>7, <1>8, BrowserTells DEF ToldOfSessions

(* Requests and web sockets change neither targets nor sessions.             *)
LEMMA HeardKeeps ==
  ASSUME RecordingInv, NEW t, NEW event, "m" \in DOMAIN event, Quiet(event), Mute(event),
         event.m = "socket" => "what" \in DOMAIN event,
         wire' = wire \o ToHearers(t, event),
         UNCHANGED <<doc, attached, opened, enabled>>, BrowserKeeps
  PROVE  RecordingInv'
<1>1. PICK p : p = ToHearers(t, event)
  OBVIOUS
<1>2. IsSequence(p) /\ \A k \in DOMAIN p : Quiet(p[k]) /\ p[k].m = event.m
  BY <1>1, ToHearersQuiet DEF RecordingInv
<1>3. departed' = departed
  BY DEF BrowserKeeps
<1>4. Grows /\ \A q : Announces(q)
  BY <1>3, Still DEF RecordingInv
<1>5. \A k \in DOMAIN p : Mute(p[k])
  BY <1>2 DEF Mute
<1>6. Reveals(p)
  BY <1>4, <1>5, MuteReveals DEF RecordingInv
<1> QED
  BY <1>1, <1>2, <1>4, <1>6, QuietlyTells

LEMMA RequestsKeep ==
  ASSUME RecordingInv, NEW r,
         \/ \E t, own, clear : Fetches(t, r, own, clear)
         \/ \E own, clear : Redirects(r, own, clear)
         \/ \E page : Responds(r, page)
         \/ \E how \in {"finished", "failed"} : Ends(r, how)
         \/ \E what \in {"created", "frame", "closed"} : Socket(r, what)
  PROVE  RecordingInv'
<1>1. UNCHANGED <<doc, attached, opened, enabled>> /\ BrowserKeeps
  BY DEF Fetches, Redirects, Responds, Ends, Socket
<1>2. ASSUME NEW t, NEW place, NEW from,
             wire' = wire \o ToHearers(t, Requesting("request", r, place, from))
      PROVE  RecordingInv'
  <2>1. PICK event : event = Requesting("request", r, place, from)
    OBVIOUS
  <2>2. "m" \in DOMAIN event /\ Quiet(event) /\ Mute(event) /\ event.m # "socket"
    BY <2>1 DEF Requesting, Quiet, Mute
  <2> QED
    BY <1>1, <1>2, <2>1, <2>2, HeardKeeps
<1>3. ASSUME NEW t, NEW own, NEW clear, Fetches(t, r, own, clear) PROVE RecordingInv'
  <2>1. wire' = wire \o ToHearers(t, Requesting("request", r, Place(own, 0, clear), {}))
    BY <1>3 DEF Fetches, Tell
  <2> QED
    BY <1>2, <2>1
<1>4. ASSUME NEW own, NEW clear, Redirects(r, own, clear) PROVE RecordingInv'
  BY <1>2, <1>4 DEF Redirects, Tell
<1>5. ASSUME NEW page, Responds(r, page) PROVE RecordingInv'
  <2>1. PICK event :
          event = [m |-> "response", session |-> 0, id |-> r, place |-> flight[r].place, page |-> page]
    OBVIOUS
  <2>2. "m" \in DOMAIN event /\ Quiet(event) /\ Mute(event) /\ event.m # "socket"
        /\ wire' = wire \o ToHearers(flight[r].target, event)
    BY <1>5, <2>1 DEF Responds, Tell, Quiet, Mute
  <2> QED
    BY <1>1, <2>2, HeardKeeps
<1>6. ASSUME NEW how \in {"finished", "failed"}, Ends(r, how) PROVE RecordingInv'
  <2>1. PICK event : event = [m |-> how, session |-> 0, id |-> r]
    OBVIOUS
  <2>2. "m" \in DOMAIN event /\ Quiet(event) /\ Mute(event) /\ event.m # "socket"
        /\ wire' = wire \o ToHearers(flight[r].target, event)
    BY <1>6, <2>1 DEF Ends, Tell, Quiet, Mute
  <2> QED
    BY <1>1, <2>2, HeardKeeps
<1>7. ASSUME NEW what \in {"created", "frame", "closed"}, Socket(r, what) PROVE RecordingInv'
  <2>1. PICK event, t :
          /\ event = [m |-> "socket", session |-> 0, what |-> what, id |-> r, place |-> flight'[r].place]
          /\ t = flight'[r].target
    OBVIOUS
  <2>2. "m" \in DOMAIN event /\ Quiet(event) /\ Mute(event) /\ "what" \in DOMAIN event
        /\ wire' = wire \o ToHearers(t, event)
    BY <1>7, <2>1 DEF Socket, Speaks, Tell, Quiet, Mute
  <2> QED
    BY <1>1, <2>2, HeardKeeps
<1> QED
  BY <1>3, <1>4, <1>5, <1>6, <1>7

LEMMA BrowserStepKeeps ==
  ASSUME RecordingInv, BrowserStep
  PROVE  RecordingInv'
<1>1. CASE \E r \in Ids, own \in BOOLEAN : \E clear \in {TRUE, ~own} :
             (\E t \in Targets : Fetches(t, r, own, clear)) \/ Redirects(r, own, clear)
  BY <1>1, RequestsKeep
<1>2. CASE \/ \E r \in Ids, page \in BOOLEAN : Responds(r, page)
           \/ \E r \in Ids, how \in {"finished", "failed"} : Ends(r, how)
           \/ \E r \in Ids, what \in {"created", "frame", "closed"} : Socket(r, what)
  BY <1>2, RequestsKeep
<1> QED
  BY <1>1, <1>2, OpensKeeps, MovesKeeps, ClosesKeeps, CrashesKeeps, ClicksKeeps DEF BrowserStep

-----------------------------------------------------------------------------
(* What is recorded.                                                         *)
TrueEntry(e) ==
  e.what = "action" =>
    /\ e.truth.world = "observer" /\ e.truth.shows = "own"
    /\ e.target \in {e.truth.target, None}

LEMMA LinksAreLinks ==
  ASSUME NEW records, NEW links \in Links(records)
  PROVE  links = <<>> \/ \E e : links = <<e>> /\ e.what = "link"
<1> DEFINE n == Len(records)
           link(a, r) == [what |-> "link", action |-> a, request |-> r]
<1>1. \/ links = <<>>
      \/ \E k \in 1 .. n : links = <<link(n, k)>> \/ links = <<link(k, n)>>
  BY DEF Links
<1>2. \A a, r : link(a, r).what = "link"
  OBVIOUS
<1> HIDE DEF link
<1> QED
  BY <1>1, <1>2

LEMMA Empty == IsSequence(<<>>) /\ DOMAIN <<>> = {}
<1>1. <<>> \in Seq(Range(<<>>))
  OBVIOUS
<1> QED
  BY <1>1 DEF IsSequence

LEMMA LogAppended ==
  ASSUME LogInv, NEW entries, IsSequence(entries), \A k \in DOMAIN entries : TrueEntry(entries[k]),
         NEW next, next = log \o entries
  PROVE  IsSequence(next) /\ \A k \in DOMAIN next : TrueEntry(next[k])
<1>1. IsSequence(log) /\ \A k \in DOMAIN log : TrueEntry(log[k])
  BY DEF LogInv, ActionsAreTrue, TrueEntry
<1>2. IsSequence(next) /\ Joins(next, log, entries)
  BY <1>1, Parts
<1> QED
  BY <1>1, <1>2 DEF Joins

LEMMA Recorded ==
  ASSUME LogInv, NEW entries, IsSequence(entries), \A k \in DOMAIN entries : TrueEntry(entries[k]),
         Records(entries)
  PROVE  LogInv'
<1>1. CASE log' = log
  BY <1>1 DEF LogInv, ActionsAreTrue
<1>2. CASE \E links \in Links(log \o entries) : log' = log \o entries \o links
  <2>1. PICK next, links : next = log \o entries /\ links \in Links(next) /\ log' = next \o links
    BY <1>2
  <2>2. IsSequence(next) /\ \A k \in DOMAIN next : TrueEntry(next[k])
    BY <2>1, LogAppended
  <2>3. IsSequence(links) /\ \A k \in DOMAIN links : TrueEntry(links[k])
    <3>1. CASE links = <<>>
      BY <3>1, Empty
    <3>2. CASE \E e : links = <<e>> /\ e.what = "link"
      BY <3>2, One DEF TrueEntry
    <3> QED
      BY <2>1, <3>1, <3>2, LinksAreLinks
  <2>4. IsSequence(log') /\ Joins(log', next, links)
    BY <2>1, <2>2, <2>3, Parts
  <2>5. \A k \in DOMAIN log' : TrueEntry(log'[k])
    BY <2>2, <2>3, <2>4 DEF Joins
  <2> QED
    BY <2>4, <2>5 DEF LogInv, ActionsAreTrue, TrueEntry
<1> QED
  BY <1>1, <1>2 DEF Records

(* Entries of requests are none of actions.                                  *)
LEMMA NoActions ==
  ASSUME NEW e, e.what # "action"
  PROVE  IsSequence(<<e>>) /\ \A k \in DOMAIN <<e>> : TrueEntry(<<e>>[k])
BY One DEF TrueEntry

LEMMA RequestEntries ==
  ASSUME NEW known, NEW key, NEW place, NEW from, NEW how \in {"finished", "failed"}, NEW body
  PROVE  /\ LET q == RequestRecords(known, key, place, from)
            IN IsSequence(q) /\ \A k \in DOMAIN q : TrueEntry(q[k])
         /\ LET q == ResponseRecords(known, key, place)
            IN IsSequence(q) /\ \A k \in DOMAIN q : TrueEntry(q[k])
         /\ LET q == EndRecords(known, key, how, body)
            IN IsSequence(q) /\ \A k \in DOMAIN q : TrueEntry(q[k])
<1>1. ASSUME NEW what, NEW state, what # "action"
      PROVE  Entry(what, key, state).what # "action"
  BY <1>1 DEF Entry
<1>2. ASSUME NEW q, q = RequestRecords(known, key, place, from)
      PROVE  IsSequence(q) /\ \A k \in DOMAIN q : TrueEntry(q[k])
  <2>1. CASE q = <<>>
    BY <2>1, Empty
  <2>2. CASE q # <<>>
    <3>1. PICK e : /\ q = <<e>>
                   /\ e = [Entry("request", key, Sent(known, key, place, from)) EXCEPT
                             !.from = {x.path : x \in {x \in from : x.own}},
                             !.status = from # {}, !.clear = place.clear]
      BY <1>2, <2>2 DEF RequestRecords
    <3>2. e.what = "request"
      BY <3>1 DEF Entry
    <3> QED
      BY <3>1, <3>2, NoActions
  <2> QED
    BY <2>1, <2>2
<1>3. ASSUME NEW q, q = ResponseRecords(known, key, place)
      PROVE  IsSequence(q) /\ \A k \in DOMAIN q : TrueEntry(q[k])
  <2>1. CASE q = <<>>
    BY <2>1, Empty
  <2>2. CASE q # <<>>
    <3>1. PICK e, state : /\ q = <<e>>
                          /\ e = [Entry("response", key, state) EXCEPT !.clear = place.clear]
      BY <1>3, <2>2 DEF ResponseRecords
    <3>2. e.what = "response"
      BY <3>1 DEF Entry
    <3> QED
      BY <3>1, <3>2, NoActions
  <2> QED
    BY <2>1, <2>2
<1>4. ASSUME NEW q, q = EndRecords(known, key, how, body)
      PROVE  IsSequence(q) /\ \A k \in DOMAIN q : TrueEntry(q[k])
  <2>1. CASE q = <<>>
    BY <2>1, Empty
  <2>2. CASE q # <<>>
    <3>1. PICK b, e : /\ b = IF body THEN <<Entry("body", key, known[key])>> ELSE <<>>
                      /\ e = <<Entry(how, key, known[key])>> /\ q = b \o e
      BY <1>4, <2>2 DEF EndRecords
    <3>2. IsSequence(b) /\ \A k \in DOMAIN b : TrueEntry(b[k])
      BY <1>1, <3>1, Empty, NoActions
    <3>3. IsSequence(e) /\ \A k \in DOMAIN e : TrueEntry(e[k])
      BY <1>1, <3>1, NoActions
    <3>4. IsSequence(q) /\ Joins(q, b, e)
      BY <3>1, <3>2, <3>3, Parts
    <3> QED
      BY <3>2, <3>3, <3>4 DEF Joins
  <2> QED
    BY <2>1, <2>2
<1> QED
  BY <1>2, <1>3, <1>4

-----------------------------------------------------------------------------
(* The steps of the consumer.                                                *)
LEMMA HandlesKeep ==
  ASSUME RecordingInv, NEW h, Handles(h), RegistryInv', AtInv', LogInv'
  PROVE  RecordingInv'
BY HandledWire, HandledKept, HandledDocuments, HandledTruth, HandledNoneMore, HandledNoneLess
   DEF RecordingInv, MirrorInv

LEMMA TakenHead ==
  ASSUME RecordingInv, NEW m, Takes(m)
  PROVE  /\ wire # <<>> /\ wire' = Tail(wire) /\ Head(wire) = wire[1] /\ 1 \in DOMAIN wire
         /\ wire[1].m \in m /\ EventInv(wire[1]) /\ at.do = "free"
<1>1. wire # <<>> /\ IsSequence(wire)
  BY DEF Takes, RecordingInv, WireInv
<1>2. Head(wire) = wire[1] /\ 1 \in DOMAIN wire
  <2>1. Len(wire) \in Nat /\ Len(wire) > 0 /\ DOMAIN wire = 1 .. Len(wire) /\ Head(wire) = wire[1]
    BY <1>1, Rest
  <2> QED
    BY <2>1
<1> QED
  BY <1>1, <1>2 DEF Takes, RecordingInv, WireInv

LEMMA FreeKeeps ==
  ASSUME at.do = "free", at' = at
  PROVE  AtInv'
BY DEF AtInv

(* What is recorded of requests and sockets.                                 *)
LEMMA NetworkKeeps ==
  ASSUME RecordingInv, RegistryInv', RequestTold \/ ResponseTold \/ EndTold \/ SocketTold
  PROVE  RecordingInv'
<1>1. LogInv
  BY DEF RecordingInv
<1>2. CASE RequestTold
  <2>1. Takes({"request"}) /\ UNCHANGED <<at, reg, contexts, departed, doc, attached, opened, enabled>>
    BY <1>2 DEF RequestTold, Network, Serves
  <2>2. PICK e, q : e = Head(wire) /\ q = RequestRecords(requests, Key(e), e.place, e.from) /\ Records(q)
    BY <1>2 DEF RequestTold, Network
  <2>3. LogInv'
    BY <1>1, <2>2, RequestEntries, Recorded
  <2>4. Handles(wire[1]) /\ AtInv'
    BY <2>1, TakenHead, FreeKeeps DEF Handles, Learns, Forgets, Wipes, Discards
  <2> QED
    BY <2>3, <2>4, HandlesKeep
<1>3. CASE ResponseTold
  <2>1. Takes({"response"}) /\ UNCHANGED <<at, reg, contexts, departed, doc, attached, opened, enabled>>
    BY <1>3 DEF ResponseTold, Network, Serves
  <2>2. PICK e, q : e = Head(wire) /\ q = ResponseRecords(requests, Key(e), e.place) /\ Records(q)
    BY <1>3 DEF ResponseTold, Network
  <2>3. LogInv'
    BY <1>1, <2>2, RequestEntries, Recorded
  <2>4. Handles(wire[1]) /\ AtInv'
    BY <2>1, TakenHead, FreeKeeps DEF Handles, Learns, Forgets, Wipes, Discards
  <2> QED
    BY <2>3, <2>4, HandlesKeep
<1>4. CASE EndTold
  <2>1. /\ Takes({"finished", "failed"})
        /\ UNCHANGED <<at, reg, contexts, departed, doc, attached, opened, enabled>>
    BY <1>4 DEF EndTold, Network, Serves
  <2>2. PICK e, body, q : e = Head(wire) /\ q = EndRecords(requests, Key(e), e.m, body) /\ Records(q)
    BY <1>4 DEF EndTold, Network
  <2>3. e.m \in {"finished", "failed"}
    BY <2>1, <2>2, TakenHead
  <2>4. LogInv'
    BY <1>1, <2>2, <2>3, RequestEntries, Recorded
  <2>5. Handles(wire[1]) /\ AtInv'
    BY <2>1, TakenHead, FreeKeeps DEF Handles, Learns, Forgets, Wipes, Discards
  <2> QED
    BY <2>4, <2>5, HandlesKeep
<1>5. CASE SocketTold
  <2>1. Takes({"socket"}) /\ UNCHANGED <<at, reg, contexts, departed, doc, attached, opened, enabled>>
    BY <1>5 DEF SocketTold, Serves
  <2>2. PICK e, q : /\ e = Head(wire)
                    /\ q = SocketRecords(sockets, e.what, TargetOf(reg, e.session), e.id, e.place)
                    /\ log' = log \o q
    BY <1>5 DEF SocketTold
  <2>3. e.what # "action"
    BY <2>1, <2>2, TakenHead DEF EventInv
  <2>4. q = <<>> \/ \E r : q = <<r>> /\ r.what # "action"
    <3>1. \A target, id : SocketRecord(e.what, target, id).what # "action"
      BY <2>3 DEF SocketRecord
    <3> QED
      BY <2>2, <3>1 DEF SocketRecords
  <2>5. IsSequence(q) /\ \A k \in DOMAIN q : TrueEntry(q[k])
    BY <2>4, Empty, NoActions
  <2>6. IsSequence(log') /\ \A k \in DOMAIN log' : TrueEntry(log'[k])
    BY <1>1, <2>2, <2>5, LogAppended
  <2>7. LogInv'
    BY <2>6 DEF LogInv, ActionsAreTrue, TrueEntry
  <2>8. Handles(wire[1]) /\ AtInv'
    BY <2>1, TakenHead, FreeKeeps DEF Handles, Learns, Forgets, Wipes, Discards
  <2> QED
    BY <2>7, <2>8, HandlesKeep
<1> QED
  BY <1>2, <1>3, <1>4, <1>5

(* An action that is recorded was made where the consumer takes it for.      *)
LEMMA ActionKeeps ==
  ASSUME RecordingInv, RegistryInv', ActionTold
  PROVE  RecordingInv'
<1>1. /\ Takes({"bindingCalled"})
      /\ UNCHANGED <<at, reg, contexts, departed, doc, attached, opened, enabled>>
  BY DEF ActionTold, Serves
<1>2. PICK h : h = Head(wire)
  OBVIOUS
<1>3. /\ h = wire[1] /\ 1 \in DOMAIN wire /\ h.m = "bindingCalled"
      /\ Records(IF Observed(h) THEN <<ActionEntry(h)>> ELSE <<>>)
  BY <1>1, <1>2, TakenHead DEF ActionTold
<1>4. ASSUME Observed(h) PROVE TrueEntry(ActionEntry(h))
  <2>1. PICK key : key = <<h.session, h.id>>
    OBVIOUS
  <2>2. key \in DOMAIN contexts /\ contexts[key].world = "observer" /\ contexts[key].origin = "own"
    BY <1>4, <2>1 DEF Observed
  <2>3. key[1] = h.session /\ key[2] = h.id
    BY <2>1
  <2>4. /\ h.truth.world = h.id
        /\ h.session \in DOMAIN reg.s2t => reg.s2t[h.session] = h.truth.target
        /\ contexts[key].origin # h.truth.shows => Clears(h.session, h.id, 0, 1)
    BY <1>3, <2>2, <2>3 DEF RecordingInv, TruthInv
  <2>5. ~Clears(h.session, h.id, 0, 1)
    <3>1. DOMAIN wire = 1 .. Len(wire) /\ Len(wire) \in Nat
      BY <1>1, TakenHead, Rest DEF RecordingInv, WireInv
    <3> QED
      BY <3>1 DEF Clears
  <2>6. h.truth.shows = "own" /\ h.truth.world = "observer"
    BY <2>2, <2>3, <2>4, <2>5 DEF RecordingInv, KeptInv
  <2>7. TargetOf(reg, h.session) \in {h.truth.target, None}
    BY <2>4 DEF TargetOf, Get, None
  <2> QED
    BY <2>6, <2>7 DEF TrueEntry, ActionEntry
<1>5. LogInv'
  <2>1. PICK q : q = IF Observed(h) THEN <<ActionEntry(h)>> ELSE <<>>
    OBVIOUS
  <2>2. IsSequence(q) /\ \A k \in DOMAIN q : TrueEntry(q[k])
    BY <1>4, <2>1, One, Empty
  <2> QED
    BY <1>3, <2>1, <2>2, Recorded DEF RecordingInv
<1>6. Handles(wire[1]) /\ AtInv'
  BY <1>1, TakenHead, FreeKeeps DEF Handles, Learns, Forgets, Wipes, Discards
<1> QED
  BY <1>5, <1>6, HandlesKeep

LEMMA ContextsKeep ==
  ASSUME RecordingInv, RegistryInv', ContextCreated \/ ContextsCleared \/ ContextDestroyed
  PROVE  RecordingInv'
<1>1. CASE ContextCreated
  <2>1. PICK h, k, c : h = Head(wire) /\ k = <<h.session, h.id>> /\ c = [world |-> h.world, origin |-> h.origin]
    OBVIOUS
  <2>2. /\ Takes({"contextCreated"}) /\ contexts' = Put(contexts, k, c)
        /\ UNCHANGED <<at, reg, log, departed, doc, attached, opened, enabled>>
    BY <1>1, <2>1 DEF ContextCreated, Mirrors, Serves
  <2>3. h = wire[1] /\ h.m = "contextCreated" /\ c.world = h.world /\ c.origin = h.origin
    BY <2>1, <2>2, TakenHead
  <2>4. \A x \in DOMAIN contexts' :
          \/ x \in DOMAIN contexts /\ contexts'[x] = contexts[x]
          \/ x = k /\ contexts'[x] = c
    BY <2>2 DEF Put
  <2>5. Learns(h)
    BY <2>1, <2>2, <2>3, <2>4 DEF Learns, Discards
  <2>6. Handles(h) /\ AtInv'
    <3>1. k \in DOMAIN contexts' /\ contexts'[k] = c /\ k[1] = h.session
          /\ \A x \in DOMAIN contexts : x \in DOMAIN contexts' /\ (x # k => contexts'[x] = contexts[x])
      BY <2>1, <2>2 DEF Put
    <3>2. \A x, w : ~Wipes(h, x, w)
      BY <2>3 DEF Wipes, Discards
    <3>3. Forgets(h)
      BY <2>1, <2>3, <3>1, <3>2 DEF Forgets
    <3> QED
      BY <2>2, <2>3, <2>5, <3>3, TakenHead, FreeKeeps DEF Handles
  <2>7. LogInv'
    BY <2>2 DEF RecordingInv, LogInv, ActionsAreTrue
  <2> QED
    BY <2>6, <2>7, HandlesKeep
<1>2. CASE ContextsCleared
  <2>1. PICK h : h = Head(wire)
    OBVIOUS
  <2>2. /\ Takes({"contextsCleared"}) /\ contexts' = Cleared({h.session})
        /\ UNCHANGED <<at, reg, log, departed, doc, attached, opened, enabled>>
    BY <1>2, <2>1 DEF ContextsCleared, Mirrors, Serves
  <2>3. h = wire[1]
    BY <2>1, <2>2, TakenHead
  <2>4. \A x \in DOMAIN contexts' :
          x \in DOMAIN contexts /\ contexts'[x] = contexts[x] /\ x[1] # h.session
    BY <2>2 DEF Cleared, Without
  <2>5. Handles(h) /\ AtInv'
    <3>1. Learns(h)
      BY <2>2, <2>4 DEF Learns, Discards
    <3>2. h.m = "contextsCleared"
      BY <2>2, <2>3, TakenHead
    <3>3. \A x \in DOMAIN contexts :
            x[1] # h.session => x \in DOMAIN contexts' /\ contexts'[x] = contexts[x]
      BY <2>2 DEF Cleared, Without
    <3>4. Forgets(h)
      BY <2>4, <3>2, <3>3 DEF Forgets, Wipes, Discards
    <3> QED
      BY <2>2, <2>3, <3>1, <3>4, TakenHead, FreeKeeps DEF Handles
  <2>6. LogInv'
    BY <2>2 DEF RecordingInv, LogInv, ActionsAreTrue
  <2> QED
    BY <2>5, <2>6, HandlesKeep
<1>3. CASE ContextDestroyed
  <2>1. PICK h, c : h = Head(wire) /\ c = <<h.session, h.id>>
    OBVIOUS
  <2>2. /\ Takes({"contextDestroyed"}) /\ contexts' = Without(contexts, {c})
        /\ UNCHANGED <<at, reg, log, departed, doc, attached, opened, enabled>>
    BY <1>3, <2>1 DEF ContextDestroyed, Mirrors, Serves
  <2>3. h = wire[1] /\ h.m = "contextDestroyed"
    BY <2>1, <2>2, TakenHead
  <2>4. \A x \in DOMAIN contexts' : x \in DOMAIN contexts /\ contexts'[x] = contexts[x] /\ x # c
    BY <2>2 DEF Without
  <2>5. \A x \in DOMAIN contexts : x = <<x[1], x[2]>>
    BY DEF RecordingInv, KeptInv
  <2>6. \A s, w : Wipes(h, s, w) <=> s = h.session /\ w = h.id
    BY <2>3 DEF Wipes, Discards
  <2>7. Handles(h) /\ AtInv'
    <3>1. Learns(h)
      BY <2>1, <2>2, <2>3, <2>4, <2>5 DEF Learns, Discards
    <3>2. \A x \in DOMAIN contexts : x # c => x \in DOMAIN contexts' /\ contexts'[x] = contexts[x]
      BY <2>2 DEF Without
    <3>3. c \notin DOMAIN contexts'
      BY <2>4
    <3>4. \A x \in DOMAIN contexts : x = c => Wipes(h, x[1], x[2])
      BY <2>1, <2>6
    <3>5. Forgets(h)
      BY <2>1, <2>3, <2>6, <3>2, <3>3, <3>4 DEF Forgets
    <3> QED
      BY <2>2, <2>3, <3>1, <3>5, TakenHead, FreeKeeps DEF Handles
  <2>8. LogInv'
    BY <2>2 DEF RecordingInv, LogInv, ActionsAreTrue
  <2> QED
    BY <2>7, <2>8, HandlesKeep
<1> QED
  BY <1>1, <1>2, <1>3

LEMMA GoneKeeps ==
  ASSUME RecordingInv, RegistryInv', SessionGone \/ TargetGone
  PROVE  RecordingInv'
<1>1. Sound(reg) /\ Shaped(reg)
  BY DEF RecordingInv, RegistryInv, Sound
<1>2. CASE SessionGone
  <2>1. PICK s : s = Head(wire).session
    OBVIOUS
  <2>2. /\ Takes({"detached"}) /\ reg' = Detached(reg, s) /\ contexts' = Cleared({s})
        /\ departed' = departed \cup {s}
        /\ UNCHANGED <<at, log, doc, attached, opened, enabled>>
    BY <1>2, <2>1 DEF SessionGone, Serves
  <2>3. s = wire[1].session /\ wire[1].m = "detached"
    BY <2>1, <2>2, TakenHead
  <2>4. /\ reg'.s2t = Without(reg.s2t, {s}) /\ reg'.configured = reg.configured \ {s}
        /\ reg'.bound = reg.bound \ {s} /\ reg'.observing = reg.observing \ {s}
    BY <1>1, <2>2 DEF Shaped, Fields, Detached, Discarded, SessionRemoved
  <2>5. \A x \in DOMAIN contexts' :
          x \in DOMAIN contexts /\ contexts'[x] = contexts[x] /\ x[1] # s
    BY <2>2 DEF Cleared, Without
  <2>6. Learns(wire[1])
    BY <2>2, <2>3, <2>4, <2>5 DEF Learns, Discards, Without
  <2>7. Handles(wire[1]) /\ AtInv'
    <3>1. s \notin DOMAIN attached
      BY <2>2, <2>3, TakenHead DEF EventInv
    <3>2. \A x \in DOMAIN contexts : x[1] # s => x \in DOMAIN contexts' /\ contexts'[x] = contexts[x]
      BY <2>2 DEF Cleared, Without
    <3>3. Forgets(wire[1])
      BY <2>3, <3>1, <3>2 DEF Forgets, Wipes, Discards
    <3> QED
      BY <2>2, <2>6, <3>3, TakenHead, FreeKeeps DEF Handles
  <2>8. LogInv'
    BY <2>2 DEF RecordingInv, LogInv, ActionsAreTrue
  <2> QED
    BY <2>7, <2>8, HandlesKeep
<1>3. CASE TargetGone
  <2>1. PICK t, ss : t = Head(wire).target /\ ss = {reg.t2s[x] : x \in {t} \cap DOMAIN reg.t2s}
    OBVIOUS
  <2>2. /\ Takes({"destroyed", "crashed"}) /\ reg' = Terminated(reg, t) /\ contexts' = Cleared(ss)
        /\ UNCHANGED <<at, log, departed, doc, attached, opened, enabled>>
    BY <1>3, <2>1 DEF TargetGone, Serves
  <2>3. /\ reg'.s2t = Without(reg.s2t, ss) /\ reg'.configured = reg.configured \ ss
        /\ reg'.bound = reg.bound \ ss /\ reg'.observing = reg.observing \ ss
    BY <1>1, <2>1, <2>2 DEF Shaped, Fields, Terminated, Discarded, TargetRemoved
  <2>4. \A x \in DOMAIN contexts' : x \in DOMAIN contexts /\ contexts'[x] = contexts[x]
    BY <2>2 DEF Cleared, Without
  <2>5. wire[1].m \notin {"contextsCleared", "contextDestroyed"}
    BY <2>2, TakenHead
  <2>6. Learns(wire[1])
    BY <2>2, <2>3, <2>4, <2>5 DEF Learns, Discards, Without
  <2>7. Handles(wire[1]) /\ AtInv'
    <3>1. \A x \in DOMAIN attached \cap DOMAIN reg.s2t : reg.s2t[x] = attached[x]
      BY DEF RecordingInv, KeptInv
    <3>2. wire[1].m \in {"destroyed", "crashed"} /\ wire[1].target = t
      BY <2>1, <2>2, TakenHead
    <3>3. \A x \in DOMAIN attached : x \in ss => \A w : Wipes(wire[1], x, w)
      BY <1>1, <2>1, <3>1, <3>2 DEF Paired, Sound, Wipes, Discards
    <3>4. \A x \in DOMAIN attached : (\E w : Wipes(wire[1], x, w)) => x \notin DOMAIN reg'.s2t
      <4>1. \A x \in DOMAIN attached \cap DOMAIN reg.s2t : attached[x] = t => x \in ss
        BY <1>1, <2>1, <3>1 DEF Paired, Sound
      <4> QED
        BY <2>3, <3>2, <4>1 DEF Wipes, Discards, Without
    <3>5. \A x \in DOMAIN contexts :
            x[1] \notin ss => x \in DOMAIN contexts' /\ contexts'[x] = contexts[x]
      BY <2>2 DEF Cleared, Without
    <3>6. Forgets(wire[1])
      BY <3>2, <3>3, <3>4, <3>5 DEF Forgets
    <3> QED
      BY <2>2, <2>6, <3>6, TakenHead, FreeKeeps DEF Handles
  <2>8. LogInv'
    BY <2>2 DEF RecordingInv, LogInv, ActionsAreTrue
  <2> QED
    BY <2>7, <2>8, HandlesKeep
<1> QED
  BY <1>2, <1>3

LEMMA ToldOfTargets ==
  ASSUME RecordingInv, RegistryInv', TargetTold \/ SessionTold
  PROVE  RecordingInv'
<1>1. Sound(reg) /\ Shaped(reg) /\ Paired(reg)
  BY DEF RecordingInv, RegistryInv, Sound
<1>2. LogInv'
  BY DEF TargetTold, SessionTold, Serves, RecordingInv, LogInv, ActionsAreTrue
<1>3. CASE TargetTold
  <2>1. PICK t, shows : t = Head(wire).target /\ shows = Head(wire).shows
    OBVIOUS
  <2>2. /\ Takes({"targetCreated", "infoChanged"})
        /\ UNCHANGED <<contexts, departed, doc, attached, opened, enabled>>
        /\ IF t \in DOMAIN reg.t2s
           THEN /\ reg' = [reg EXCEPT !.info = Put(@, t, shows)]
                /\ at' = IF shows = "own" THEN Configuring(reg.t2s[t], TRUE) ELSE Free
           ELSE /\ at' = IF t \in Pages /\ shows = "own" THEN Attaching(t, shows) ELSE Free
                /\ reg' = reg
    BY <1>3, <2>1 DEF TargetTold, Serves
  <2>3. /\ reg'.s2t = reg.s2t /\ reg'.configured = reg.configured /\ reg'.bound = reg.bound
        /\ reg'.observing = reg.observing
    BY <1>1, <2>2 DEF Shaped, Fields
  <2>4. wire[1].m \in {"targetCreated", "infoChanged"}
    BY <2>2, TakenHead
  <2>5. Handles(wire[1])
    BY <2>2, <2>3, <2>4, TakenHead DEF Handles, Learns, Forgets, Wipes, Discards
  <2>6. AtInv'
    <3>1. t \in DOMAIN reg.t2s => reg.t2s[t] \in Present
      BY <1>1 DEF Paired, RecordingInv, KeptInv
    <3>2. Present' = Present
      BY <2>2 DEF Present
    <3>3. \/ at'.do = "free"
          \/ at'.do = "attach" /\ at'.target = t /\ t \in Pages
          \/ at'.do = "configure" /\ at'.session = reg.t2s[t] /\ t \in DOMAIN reg.t2s
      BY <2>2 DEF Configuring, Attaching, Free
    <3> QED
      BY <3>1, <3>2, <3>3 DEF AtInv, Targets
  <2> QED
    BY <1>2, <2>5, <2>6, HandlesKeep
<1>4. CASE SessionTold
  <2>1. PICK e : e = Head(wire)
    OBVIOUS
  <2>2. /\ Takes({"attached"})
        /\ UNCHANGED <<contexts, departed, doc, attached, opened, enabled>>
        /\ IF TargetOf(reg, e.session) # None THEN reg' = reg /\ at' = at
           ELSE /\ reg' = Registered(reg, e.target, e.session, e.shows)
                /\ at' = CASE e.shows = "own"   -> Configuring(e.session, TRUE)
                           [] e.shows = "blank" -> Configuring(e.session, FALSE)
                           [] OTHER -> Free
    BY <1>4, <2>1 DEF SessionTold, Serves
  <2>3. e = wire[1] /\ e.m = "attached" /\ e.session \in Present /\ at.do = "free"
    BY <2>1, <2>2, TakenHead DEF EventInv, Names
  <2>4. Learns(e)
    <3>1. CASE reg' = reg
      BY <2>2, <2>3, <3>1 DEF Learns, Discards
    <3>2. CASE reg' = Registered(reg, e.target, e.session, e.shows)
      <4>1. /\ reg'.s2t = Put(Without(reg.s2t, Stale(reg.t2s, e.target, e.session)), e.session, e.target)
            /\ reg'.configured = reg.configured /\ reg'.bound = reg.bound
            /\ reg'.observing = reg.observing
        BY <1>1, <3>2 DEF Shaped, Fields, Registered
      <4> QED
        BY <2>2, <2>3, <4>1 DEF Learns, Discards, Put, Without
    <3> QED
      BY <2>2, <3>1, <3>2
  <2>5. Handles(e)
    <3>1. Forgets(e)
      BY <2>2, <2>3 DEF Forgets, Wipes, Discards
    <3> QED
      BY <2>2, <2>3, <2>4, <3>1, TakenHead DEF Handles
  <2>6. AtInv'
    <3>1. Present' = Present
      BY <2>2 DEF Present
    <3>2. \/ at' = at \/ at' = Free
          \/ at' = Configuring(e.session, TRUE) \/ at' = Configuring(e.session, FALSE)
      BY <2>2
    <3>3. at'.do = "free" \/ (at'.do = "configure" /\ at'.session = e.session)
      BY <2>3, <3>2 DEF Configuring, Free
    <3> QED
      BY <2>3, <3>1, <3>3 DEF AtInv
  <2> QED
    BY <1>2, <2>5, <2>6, HandlesKeep
<1> QED
  BY <1>3, <1>4

LEMMA WaitingKeeps ==
  ASSUME RecordingInv, AtInv',
         UNCHANGED <<doc, attached, opened, enabled, wire, reg, contexts, log, departed>>
  PROVE  RecordingInv'
<1>1. RegistryInv' /\ SessionsInv' /\ KeptInv' /\ LogInv'
  BY DEF RecordingInv, RegistryInv, SessionsInv, KeptInv, LogInv, ActionsAreTrue, Present
<1>2. WireInv'
  BY DEF RecordingInv, WireInv, EventInv, Present
<1>3. DocumentsInv' /\ TruthInv'
  BY DEF RecordingInv, DocumentsInv, TruthInv, Clears, Discards, Outdated, Shows
<1>4. MirrorInv'
  <2>1. \A k, s, w : /\ Has(k, s, w)' <=> Has(k, s, w)
                     /\ Origin(k, s, w)' = Origin(k, s, w)
    BY DEF Has, Origin
  <2>2. \A s, w, k : Wiped(s, w, k)' <=> Wiped(s, w, k)
    BY DEF Wiped, Wipes, Discards
  <2>3. \A s : Live(s)' = Live(s)
    BY DEF Live, Shows
  <2>4. NoneMore'
    BY <2>1, <2>2 DEF RecordingInv, MirrorInv, NoneMore, Shows, Present
  <2>5. NoneLess'
    BY <2>1, <2>2, <2>3 DEF RecordingInv, MirrorInv, NoneLess
  <2> QED
    BY <2>4, <2>5 DEF MirrorInv
<1> QED
  BY <1>1, <1>2, <1>3, <1>4 DEF RecordingInv

LEMMA AttachKeeps ==
  ASSUME RecordingInv, RegistryInv', AttachAnswers
  PROVE  RecordingInv' /\ ToldOfSessions
<1>1. PICK t, n, e : /\ t = at.target /\ n = opened + 1
                     /\ e = [m |-> "attached", session |-> n, target |-> t, shows |-> doc[t]]
  OBVIOUS
<1>2. /\ doc[t] # "closed" /\ opened' = n /\ attached' = Put(attached, n, t)
      /\ wire' = wire \o <<e>> /\ reg' = Registered(reg, t, n, at.shows)
      /\ at' = Configuring(n, TRUE) /\ at.do = "attach"
      /\ UNCHANGED <<doc, enabled, contexts, log, departed>>
  BY <1>1 DEF AttachAnswers, Tell, history
<1>3. SessionsInv /\ opened \in Nat /\ DOMAIN doc = Targets /\ t \in Targets /\ departed \subseteq 1 .. opened
  BY <1>1, <1>2 DEF RecordingInv, SessionsInv, AtInv
<1>4. /\ DOMAIN attached' = DOMAIN attached \cup {n} /\ attached'[n] = t /\ n \in Nat /\ n > opened
      /\ \A s \in DOMAIN attached : s <= opened /\ attached'[s] = attached[s]
  BY <1>1, <1>2, <1>3 DEF Put, SessionsInv
<1>5. Grows
  BY <1>1, <1>2, <1>3, <1>4 DEF SessionsInv, Grows
<1>6. Tells(<<e>>) /\ \A k \in DOMAIN <<e>> : <<e>>[k].m # "bindingCalled"
  <2>1. IsSo(e) /\ e.m = "attached"
    BY <1>1, <1>4 DEF IsSo, Names
  <2> QED
    BY <1>2, <2>1, One DEF Tells
<1>7. Announces(<<e>>)
  BY <1>2 DEF Announces
<1>8. /\ reg'.s2t = Put(Without(reg.s2t, Stale(reg.t2s, t, n)), n, t)
      /\ reg'.configured = reg.configured /\ reg'.bound = reg.bound /\ reg'.observing = reg.observing
  BY <1>2 DEF RecordingInv, RegistryInv, Sound, Shaped, Fields, Registered
<1>9. /\ \A s \in DOMAIN reg'.s2t :
           (s \in DOMAIN reg.s2t /\ reg'.s2t[s] = reg.s2t[s]) \/ (s = n /\ reg'.s2t[s] = t)
      /\ n \in Present'
  <2>1. n \in 1 .. opened' /\ n \notin departed'
    BY <1>1, <1>2, <1>3
  <2> QED
    BY <1>8, <2>1 DEF Put, Without, Present
<1>10. KeptInv'
  <2>1. \A s \in DOMAIN reg'.s2t \cap DOMAIN attached' : reg'.s2t[s] = attached'[s]
    <3>1. \A s \in DOMAIN reg.s2t : s # n
      BY <1>3, <1>4 DEF RecordingInv, KeptInv, Present
    <3> QED
      BY <1>4, <1>9, <3>1 DEF RecordingInv, KeptInv
  <2>2. Present \subseteq Present'
    BY <1>3, <1>5, GrowsKeeps
  <2> QED
    BY <1>2, <1>8, <1>9, <2>1, <2>2 DEF RecordingInv, KeptInv
<1>11. SessionsInv' /\ WireInv' /\ DocumentsInv'
  BY <1>2, <1>5, <1>6, <1>7, GrowsKeeps, ToldWire, ToldDocuments DEF RecordingInv
<1>12. TruthInv'
  <2>1. \A s \in DOMAIN reg'.s2t :
          s <= opened => s \in DOMAIN reg.s2t /\ reg'.s2t[s] = reg.s2t[s]
    BY <1>3, <1>4, <1>9
  <2> QED
    BY <1>2, <1>5, <1>6, <1>10, <2>1, ToldTruth DEF RecordingInv
<1>13. AtInv'
  BY <1>2, <1>9 DEF AtInv, Configuring
<1>14. LogInv'
  BY <1>2 DEF RecordingInv, LogInv, ActionsAreTrue
<1>15. MirrorInv'
  <2>1. \A s \in DOMAIN reg'.s2t :
          s <= opened => s \in DOMAIN reg.s2t /\ reg'.s2t[s] = reg.s2t[s]
    BY <1>3, <1>4, <1>9
  <2>2. \A k \in DOMAIN <<e>> : Mute(<<e>>[k])
    BY <1>1, One DEF Mute
  <2>3. Reveals(<<e>>)
    BY <1>2, <1>3, <1>5, <2>2, MuteReveals
  <2> QED
    BY <1>2, <1>5, <1>6, <2>1, <2>3, ToldNoneMore, ToldNoneLess DEF RecordingInv, MirrorInv
<1>16. ToldOfSessions
  <2>1. DOMAIN <<e>> = {1} /\ <<e>>[1].m = "attached"
    BY <1>1, One
  <2>2. Ceases(<<e>>) /\ Others(<<e>>)
    BY <1>4, <2>1 DEF Ceases, Others, Traffic
  <2> QED
    BY <1>5, <1>6, <2>2 DEF ToldOfSessions
<1> QED
  BY <1>10, <1>11, <1>12, <1>13, <1>14, <1>15, <1>16 DEF RecordingInv

(* What a configuration grants, and whom it opens sessions for.              *)
LEMMA GivenScript ==
  ASSUME NEW s, NEW observable, NEW granted,
         "script" \in Asked(reg, s, observable, granted) \cap granted
  PROVE  s \in reg.bound \/ "binding" \in Asked(reg, s, observable, granted) \cap granted
BY DEF Asked, BindingAsked, ScriptAsked

LEMMA ConfigureGrows ==
  ASSUME RecordingInv, NEW granted, Configure(granted), RecordingAssumption
  PROVE  \E p : /\ Tells(p) /\ Grows /\ Announces(p) /\ Reveals(p)
                /\ \A k \in DOMAIN p : p[k].m \in {"attached", "contextCreated"}
                /\ DOMAIN attached \subseteq DOMAIN attached'
<1> DEFINE s == at.session
           given == Asked(reg, s, at.observable, granted) \cap granted
           children == Adopted(s, given)
           order == SetToSeq(children)
           id(f) == opened + CHOOSE k \in DOMAIN order : order[k] = f
<1>1. /\ s \in Present /\ SessionsInv /\ opened \in Nat /\ DOMAIN doc = Targets
      /\ DOMAIN attached \subseteq 1 .. opened /\ IsSequence(wire)
  <2>1. SessionsInv /\ AtInv /\ IsSequence(wire)
    BY DEF RecordingInv, WireInv
  <2>2. at.do = "configure"
    BY DEF Configure
  <2>3. s \in Present
    BY <2>1, <2>2 DEF AtInv
  <2> HIDE DEF s
  <2> QED
    BY <2>1, <2>3 DEF SessionsInv
<1>2. /\ s \notin DOMAIN attached => granted = {}
      /\ enabled' = [c \in Commands |-> enabled[c] \cup (IF c \in given THEN {s} ELSE {})]
      /\ opened' = opened + Cardinality(children)
      /\ UNCHANGED <<doc, departed>>
  BY DEF Configure, history
<1>3. /\ DOMAIN enabled' = Commands /\ \A c \in Commands : enabled[c] \subseteq enabled'[c]
      /\ enabled'["script"] \subseteq enabled'["binding"]
      /\ enabled'["script"] = enabled["script"] \cup (IF "script" \in given THEN {s} ELSE {})
      /\ enabled'["binding"] = enabled["binding"] \cup (IF "binding" \in given THEN {s} ELSE {})
      /\ enabled'["binding"] \subseteq 1 .. opened /\ (given = {} => UNCHANGED <<enabled["script"], enabled["binding"]>>)
  <2>1. {"script", "binding"} \subseteq Commands
    BY DEF Commands
  <2>2. "script" \in given => s \in enabled["binding"] \/ "binding" \in given
    BY GivenScript DEF RecordingInv, KeptInv
  <2>3. enabled["script"] \subseteq enabled["binding"]
    BY <1>1 DEF SessionsInv
  <2> HIDE DEF given, s
  <2>4. /\ enabled'["script"] = enabled["script"] \cup (IF "script" \in given THEN {s} ELSE {})
        /\ enabled'["binding"] = enabled["binding"] \cup (IF "binding" \in given THEN {s} ELSE {})
    BY <1>2, <2>1
  <2>5. DOMAIN enabled' = Commands /\ \A c \in Commands : enabled[c] \subseteq enabled'[c]
    BY <1>2
  <2>6. enabled'["binding"] \subseteq 1 .. opened
    BY <1>1, <2>4 DEF SessionsInv, Present
  <2> QED
    BY <2>2, <2>3, <2>4, <2>5, <2>6
<1>4. CASE given = {}
  <2>1. wire' = wire /\ attached' = attached
    BY <1>4 DEF Configure
  <2>2. children = {}
    BY <1>4 DEF Adopted
  <2>3. Cardinality(children) = 0
    BY <2>2, FS_EmptySet
  <2>4. opened' = opened
    BY <1>1, <1>2, <2>3
  <2> HIDE DEF given, s, children
  <2>5. Grows
    <3>1. \A x \in DOMAIN attached : attached[x] \in Targets /\ doc[attached[x]] # "closed"
      BY <1>1 DEF SessionsInv
    <3>2. opened' \in Nat /\ opened <= opened' /\ DOMAIN attached' \subseteq 1 .. opened'
      BY <1>1, <2>1, <2>4
    <3> QED
      BY <1>1, <1>2, <1>3, <2>1, <3>1, <3>2 DEF Grows
  <2>6. wire' = wire \o <<>>
    BY <1>1, <2>1 DEF IsSequence
  <2>7. Reveals(<<>>)
    BY <1>1, <1>2, <1>3, <1>4, <2>1, <2>5, Empty, MuteReveals
  <2> QED
    BY <1>2, <2>1, <2>5, <2>6, <2>7, Empty DEF Tells, Announces
<1>5. CASE given # {}
  <2>1. s \in DOMAIN attached
    BY <1>2, <1>5
  <2>2. PICK shown, told, p :
          /\ shown = Revealed(s, given)
          /\ told = [k \in DOMAIN order |-> [m |-> "attached", session |-> id(order[k]),
                                             target |-> order[k], shows |-> doc[order[k]]]]
          /\ p = shown \o told
    OBVIOUS
  <2>3. /\ attached' = [x \in DOMAIN attached \cup {id(f) : f \in children} |->
                          IF x \in DOMAIN attached THEN attached[x] ELSE order[x - opened]]
        /\ wire' = wire \o p
    BY <1>5, <2>2 DEF Configure, Tell, Each
  <2>4. IsFiniteSet(children) /\ children \subseteq Targets /\ \A f \in children : doc[f] # "closed"
    <3>1. children \in SUBSET Targets /\ \A f \in children : doc[f] # "closed"
      BY DEF Adopted, Targets
    <3> QED
      BY <3>1, FS_Subset DEF RecordingAssumption
  <2> DEFINE n == Cardinality(children)
  <2>5. /\ n \in Nat /\ DOMAIN order = 1 .. n /\ \A k \in DOMAIN order : order[k] \in children
        /\ \A f \in children : \E k \in DOMAIN order : order[k] = f
    BY ZenonT(60), <2>4, SetOrder
  <2>6. \A f \in children : id(f) - opened \in DOMAIN order /\ order[id(f) - opened] = f
                            /\ id(f) \in Nat /\ id(f) > opened /\ id(f) <= opened + n
    <3> SUFFICES ASSUME NEW f \in children
                 PROVE  id(f) - opened \in DOMAIN order /\ order[id(f) - opened] = f
                        /\ id(f) \in Nat /\ id(f) > opened /\ id(f) <= opened + n
      OBVIOUS
    <3>1. PICK c : c = CHOOSE k \in DOMAIN order : order[k] = f
      OBVIOUS
    <3>2. c \in DOMAIN order /\ order[c] = f
      BY <2>5, <3>1
    <3>3. id(f) = opened + c
      BY <3>1
    <3>4. c \in 1 .. n
      BY <2>5, <3>2
    <3> HIDE DEF id, order, n
    <3>5. id(f) - opened = c /\ id(f) \in Nat /\ id(f) > opened /\ id(f) <= opened + n
      BY <1>1, <2>5, <3>3, <3>4
    <3> QED
      BY <3>2, <3>5
  <2> HIDE DEF id, order, n
  <2>7. opened' = opened + n
    BY <1>2 DEF n
  <2>8. /\ DOMAIN attached' = DOMAIN attached \cup {id(f) : f \in children}
        /\ \A x \in DOMAIN attached : x <= opened /\ attached'[x] = attached[x]
        /\ \A f \in children : attached'[id(f)] = f /\ id(f) \in DOMAIN attached'
    <3>1. \A x \in DOMAIN attached : x <= opened
      BY <1>1
    <3>2. \A f \in children : id(f) \notin DOMAIN attached
      BY <1>1, <2>6
    <3> QED
      BY <2>3, <2>6, <3>1, <3>2
  <2>9. Grows
    <3> HIDE DEF given, s, children
    <3>1. ASSUME NEW x \in DOMAIN attached' PROVE x \in 1 .. opened'
      <4>1. CASE x \in DOMAIN attached
        BY <1>1, <2>5, <2>7, <4>1
      <4>2. CASE \E f \in children : x = id(f)
        <5>1. PICK f \in children : x = id(f)
          BY <4>2
        <5>2. x \in Nat /\ x > opened /\ x <= opened + n
          BY <2>6, <5>1
        <5> QED
          BY <1>1, <2>5, <2>7, <5>2
      <4> QED
        BY <2>8, <4>1, <4>2
    <3>2. ASSUME NEW x \in DOMAIN attached'
          PROVE  /\ x <= opened => x \in DOMAIN attached /\ attached'[x] = attached[x]
                 /\ attached'[x] \in Targets /\ doc'[attached'[x]] # "closed"
      <4>1. CASE x \in DOMAIN attached
        BY <1>1, <1>2, <2>8, <4>1 DEF SessionsInv
      <4>2. CASE \E f \in children : x = id(f)
        <5>1. PICK f \in children : x = id(f)
          BY <4>2
        <5>2. x > opened /\ x \in Nat /\ attached'[x] = f
          BY <2>6, <2>8, <5>1
        <5>3. doc'[f] # "closed" /\ f \in Targets
          BY <1>2, <2>4, <5>1
        <5> QED
          BY <1>1, <5>2, <5>3
      <4> QED
        BY <2>8, <4>1, <4>2
    <3>3. opened' \in Nat /\ opened <= opened'
      BY <1>1, <2>5, <2>7
    <3> QED
      BY <1>1, <1>2, <1>3, <3>1, <3>2, <3>3 DEF Grows
  <2>10. IsSequence(told) /\ \A k \in DOMAIN told : IsSo(told[k]) /\ told[k].m = "attached"
    <3>1. told = [k \in 1 .. n |-> told[k]] /\ DOMAIN told = DOMAIN order
      BY <2>2, <2>5
    <3>2. IsSequence(told)
      BY <2>5, <3>1, SequenceOf
    <3>3. ASSUME NEW k \in DOMAIN told PROVE IsSo(told[k]) /\ told[k].m = "attached"
      <4>1. order[k] \in children
        BY <2>5, <3>1
      <4>2. /\ told[k].m = "attached" /\ told[k].session = id(order[k])
            /\ told[k].target = order[k]
        BY <2>2, <3>1
      <4> QED
        BY <2>6, <2>8, <4>1, <4>2 DEF IsSo, Names
    <3> QED
      BY <3>2, <3>3
  <2>11. /\ IsSequence(shown)
         /\ \A k \in DOMAIN shown :
              /\ IsSo(shown[k]) /\ shown[k].m = "contextCreated" /\ shown[k].session = s
              /\ Shows(attached[s]) /\ (shown[k].id = "observer" => "script" \in given)
         /\ Shows(attached[s]) =>
              /\ "binding" \in given => \E k \in DOMAIN shown : shown[k].id = "page"
              /\ "script" \in given => \E k \in DOMAIN shown : shown[k].id = "observer"
    <3> DEFINE worlds == (IF "binding" \in given THEN {"page"} ELSE {})
                           \cup (IF "script" \in given THEN {"observer"} ELSE {})
               o == SetToSeq(worlds)
    <3>1. CASE ~Shows(attached[s])
      BY <2>2, <3>1, Empty DEF Revealed
    <3>2. CASE Shows(attached[s])
      <4>1. shown = [k \in DOMAIN o |-> ContextOf(s, o[k], doc[attached[s]])]
        BY <2>2, <3>2 DEF Revealed, Each
      <4>2. worlds # {} => s \in enabled'["binding"]
        <5>1. "binding" \in given => s \in enabled'["binding"]
          BY <1>2 DEF Commands
        <5>2. "script" \in given => s \in enabled'["script"]
          BY <1>2 DEF Commands
        <5> HIDE DEF given, s
        <5> QED
          BY <1>3, <5>1, <5>2
      <4>3. IsFiniteSet(worlds)
        <5>1. IsFiniteSet({"page", "observer"})
          <6>1. {"page", "observer"} = {"page"} \cup {"observer"} /\ IsFiniteSet({"page"})
                /\ IsFiniteSet({"observer"})
            BY FS_Singleton
          <6> QED
            BY <6>1, FS_Union
        <5>2. worlds \in SUBSET {"page", "observer"}
          BY SMT
        <5> QED
          BY <5>1, <5>2, FS_Subset
      <4>9. worlds \in SUBSET Worlds
        BY SMT DEF Worlds
      <4>0. /\ "observer" \in worlds <=> "script" \in given
            /\ "binding" \in given => "page" \in worlds
        <5> HIDE DEF given
        <5> QED
          OBVIOUS
      <4> HIDE DEF worlds
      <4>4. /\ Cardinality(worlds) \in Nat /\ DOMAIN o = 1 .. Cardinality(worlds)
            /\ \A k \in DOMAIN o : o[k] \in worlds
            /\ \A x \in worlds : \E k \in DOMAIN o : o[k] = x
        BY <4>3, SetOrder
      <4> HIDE DEF o
      <4>5. shown = [k \in 1 .. Cardinality(worlds) |-> shown[k]] /\ DOMAIN shown = DOMAIN o
        BY <4>1, <4>4
      <4>6. IsSequence(shown)
        BY <4>4, <4>5, SequenceOf
      <4>7. ASSUME NEW k \in DOMAIN shown
            PROVE  /\ IsSo(shown[k]) /\ shown[k].m = "contextCreated" /\ shown[k].session = s
                   /\ shown[k].id = "observer" => "script" \in given
        <5>1. s \in enabled'["binding"]
          BY <4>2, <4>4, <4>5
        <5>2. /\ shown[k].m = "contextCreated" /\ shown[k].session = s
              /\ shown[k].id = shown[k].world /\ shown[k].origin = doc[attached[s]]
          BY <4>1, <4>5 DEF ContextOf
        <5>3. s \in DOMAIN attached' /\ attached'[s] = attached[s] /\ doc' = doc
          BY <1>2, <2>1, <2>8
        <5>4. shown[k].id = o[k] /\ o[k] \in worlds
          BY <4>1, <4>4, <4>5 DEF ContextOf
        <5>6. Granted(enabled', s, o[k])
          <6> HIDE DEF given, s
          <6> QED
            BY <1>3, <4>0, <4>9, <5>1, <5>4 DEF Granted
        <5>5. IsSo(shown[k])
          BY <5>2, <5>3, <5>4, <5>6 DEF IsSo, Names
        <5> QED
          BY <4>0, <5>2, <5>4, <5>5
      <4>8. ASSUME NEW x \in worlds
            PROVE  \E k \in DOMAIN shown : shown[k].id = x
        <5>1. \A k \in DOMAIN shown : shown[k].id = o[k]
          BY <4>1, <4>5 DEF ContextOf
        <5>2. DOMAIN shown = DOMAIN o
          BY <4>5
        <5>3. PICK k \in DOMAIN o : o[k] = x
          BY <4>4, <4>8
        <5>4. k \in DOMAIN shown /\ shown[k].id = x
          BY <5>1, <5>2, <5>3
        <5> QED
          BY <5>4
      <4> HIDE DEF given, s
      <4> QED
        BY <3>2, <4>0, <4>6, <4>7, <4>8
    <3> QED
      BY <3>1, <3>2
  <2>12. IsSequence(p) /\ Joins(p, shown, told)
    BY <2>2, <2>10, <2>11, Parts
  <2>13. \A k \in DOMAIN p : IsSo(p[k]) /\ p[k].m \in {"attached", "contextCreated"}
    BY <2>10, <2>11, <2>12 DEF Joins
  <2>14. Tells(p)
    BY <2>3, <2>12, <2>13 DEF Tells
  <2>15. Announces(p)
    BY <1>2 DEF Announces
  <2>16. Reveals(p)
    <3> HIDE DEF given, s, children
    <3>1. \A k \in DOMAIN p : \A x, w : ~Wipes(p[k], x, w)
      BY <2>13 DEF Wipes, Discards
    <3>2. ASSUME NEW k \in DOMAIN p, p[k].m = "contextCreated"
          PROVE  /\ p[k].session \in DOMAIN attached
                 /\ doc'[attached[p[k].session]] \in {"own", "other"}
                 /\ p[k].id = "observer" => p[k].session \in enabled'["script"]
      <4>1. PICK l \in DOMAIN shown : p[k] = shown[l]
        BY <2>10, <2>12, <3>2 DEF Joins
      <4>2. shown[l].session = s /\ Shows(attached[s]) /\ (shown[l].id = "observer" => "script" \in given)
        BY <2>11
      <4> QED
        BY <1>2, <1>3, <2>1, <4>1, <4>2 DEF Shows
    <3>3. \A x \in DOMAIN attached \cap DOMAIN attached' :
            doc'[attached[x]] \in {"own", "other"} \/ ~Shows(attached[x])
      BY <1>2 DEF Shows
    <3>4. ASSUME NEW x \in DOMAIN attached', NEW w \in Worlds, w \in Live(x)'
          PROVE  \/ x \in DOMAIN attached /\ w \in Live(x)
                 \/ \E k \in DOMAIN p : p[k].m = "contextCreated" /\ p[k].session = x /\ p[k].id = w
      <4>1. /\ x \in enabled'["binding"] /\ doc'[attached'[x]] \in {"own", "other"}
            /\ w = "observer" => x \in enabled'["script"]
        BY <3>4 DEF Live, Shows
      <4>2. x \in DOMAIN attached /\ attached'[x] = attached[x]
        BY <1>3, <2>9, <4>1 DEF Grows
      <4>3. Shows(attached[x]) /\ enabled["script"] \subseteq enabled["binding"]
        BY <1>1, <1>2, <4>1, <4>2 DEF Shows, SessionsInv
      <4>4. w = "page" \/ w = "observer"
        BY DEF Worlds
      <4>5. \/ w \in Live(x)
            \/ x = s /\ w = "page" /\ "binding" \in given
            \/ x = s /\ w = "observer" /\ "script" \in given
        BY <1>3, <4>1, <4>3, <4>4 DEF Live
      <4>6. ASSUME NEW k \in DOMAIN shown, shown[k].id = w, x = s
            PROVE  \E l \in DOMAIN p :
                     p[l].m = "contextCreated" /\ p[l].session = x /\ p[l].id = w
        BY <2>11, <2>12, <4>6 DEF Joins
      <4>7. x = s => \/ ~("binding" \in given /\ w = "page") /\ ~("script" \in given /\ w = "observer")
                     \/ \E k \in DOMAIN shown : shown[k].id = w
        BY <2>11, <4>3
      <4> QED
        BY <4>2, <4>5, <4>6, <4>7
    <3> QED
      BY <1>2, <3>1, <3>2, <3>3, <3>4 DEF Reveals
  <2>17. DOMAIN attached \subseteq DOMAIN attached'
    BY <2>8
  <2> HIDE DEF given, s, children
  <2> QED
    BY <2>9, <2>13, <2>14, <2>15, <2>16, <2>17
<1> QED
  BY <1>4, <1>5

LEMMA ConfigureKeeps ==
  ASSUME RecordingInv, RegistryInv', NEW granted, Configure(granted), RecordingAssumption
  PROVE  RecordingInv' /\ ToldOfSessions
<1> DEFINE s == at.session
           given == Asked(reg, s, at.observable, granted) \cap granted
<1>1. /\ s \in Present /\ at' = Free
      /\ reg' = Configured(reg, s, at.observable, granted)
      /\ enabled' = [c \in Commands |-> enabled[c] \cup (IF c \in given THEN {s} ELSE {})]
      /\ UNCHANGED <<contexts, log, departed>>
  <2>1. at.do = "configure" /\ AtInv
    BY DEF Configure, RecordingInv
  <2>2. s \in Present
    BY <2>1 DEF AtInv
  <2>3. /\ at' = Free
        /\ reg' = Configured(reg, s, at.observable, granted)
        /\ enabled' = [c \in Commands |-> enabled[c] \cup (IF c \in given THEN {s} ELSE {})]
    BY DEF Configure
  <2>4. UNCHANGED <<contexts, log, departed>>
    BY DEF Configure, history
  <2> QED
    BY <2>2, <2>3, <2>4
<1>2. PICK p : /\ Tells(p) /\ Grows /\ Announces(p) /\ Reveals(p)
               /\ \A k \in DOMAIN p : p[k].m \in {"attached", "contextCreated"}
               /\ DOMAIN attached \subseteq DOMAIN attached'
  BY ConfigureGrows
<1>3. /\ reg'.s2t = reg.s2t /\ reg'.configured = reg.configured \cup {s}
      /\ reg'.bound = reg.bound \cup (IF "binding" \in given THEN {s} ELSE {})
      /\ reg'.observing \subseteq reg.observing \cup {s}
  BY <1>1 DEF RecordingInv, RegistryInv, Sound, Shaped, Fields, Configured
<1>4. enabled["binding"] \subseteq enabled'["binding"] /\ ("binding" \in given => s \in enabled'["binding"])
  BY <1>1 DEF Commands
<1> HIDE DEF given, s
<1>5. Present \subseteq Present' /\ SessionsInv' /\ DOMAIN attached' \subseteq Present'
  BY <1>2, GrowsKeeps DEF RecordingInv
<1>6. KeptInv'
  <2>1. \A x \in DOMAIN reg'.s2t \cap DOMAIN attached' : reg'.s2t[x] = attached'[x]
    BY <1>2, <1>3 DEF RecordingInv, KeptInv, Grows, Present
  <2>2. \A k \in DOMAIN contexts' :
          /\ k = <<k[1], k[2]>> /\ k[1] \in Present' /\ Granted(enabled', k[1], k[2])
          /\ contexts'[k].world = k[2]
    BY <1>1, <1>2, <1>5, GrantedGrows DEF RecordingInv, KeptInv
  <2>3. /\ DOMAIN reg'.s2t \cup reg'.configured \cup reg'.bound \cup reg'.observing \subseteq Present'
        /\ reg'.bound \subseteq enabled'["binding"]
    BY <1>1, <1>3, <1>4, <1>5 DEF RecordingInv, KeptInv
  <2> QED
    BY <2>1, <2>2, <2>3 DEF KeptInv
<1>7. WireInv' /\ DocumentsInv'
  BY <1>1, <1>2, ToldWire, ToldDocuments DEF RecordingInv
<1>8. TruthInv'
  BY <1>1, <1>2, <1>3, <1>6, ToldTruth DEF RecordingInv
<1>9. AtInv' /\ LogInv'
  BY <1>1 DEF RecordingInv, AtInv, LogInv, ActionsAreTrue, Free
<1>10. MirrorInv'
  BY <1>1, <1>2, <1>3, ToldNoneMore, ToldNoneLess DEF RecordingInv, MirrorInv
<1>11. ToldOfSessions
  BY <1>2 DEF Ceases, ToldOfSessions, Others, Traffic
<1> QED
  BY <1>5, <1>6, <1>7, <1>8, <1>9, <1>10, <1>11 DEF RecordingInv

LEMMA ConsumeKeeps ==
  ASSUME RecordingInv, Consume, RecordingAssumption
  PROVE  RecordingInv'
<1>1. RegistryInv'
  BY ConsumerKeeps DEF RecordingInv
<1>2. ASSUME NEW t \in Pages, Bootstrap(t) PROVE RecordingInv'
  <2>1. at'.do = "attach" /\ at'.target = t /\ t \in Targets
    BY <1>2 DEF Bootstrap, Attaching, Targets
  <2>2. AtInv'
    BY <2>1 DEF AtInv
  <2> QED
    BY <1>2, <2>2, WaitingKeeps DEF Bootstrap, Serves
<1>3. CASE AttachFails
  <2>1. AtInv'
    BY <1>3 DEF AttachFails, AtInv
  <2> QED
    BY <1>3, <2>1, WaitingKeeps DEF AttachFails, Serves
<1> QED
  BY <1>1, <1>2, <1>3, AttachKeeps, ConfigureKeeps, ToldOfTargets, GoneKeeps, ContextsKeep,
     ActionKeeps, NetworkKeeps DEF Consume

LEMMA InitInv ==
  ASSUME Init, RecordingAssumption
  PROVE  RecordingInv
<1> DEFINE S == {t \in Targets : doc[t] # "closed"}
           o == SetToSeq(S)
<1>1. /\ wire = [k \in DOMAIN o |-> [m |-> "targetCreated", target |-> o[k], shows |-> doc[o[k]]]]
      /\ DOMAIN doc = Targets /\ attached = <<>> /\ opened = 0 /\ departed = {}
      /\ enabled = [c \in Commands |-> {}] /\ contexts = <<>> /\ log = <<>>
      /\ at = Free /\ reg = NoTargets
  BY DEF Init, Each
<1>2. IsFiniteSet(S)
  BY FS_Subset DEF RecordingAssumption
<1>3. Cardinality(S) \in Nat /\ DOMAIN o = 1 .. Cardinality(S)
  BY <1>2, SetOrder
<1> HIDE DEF o, S
<1>4. wire = [k \in 1 .. Cardinality(S) |-> wire[k]] /\ DOMAIN wire = DOMAIN o
  BY <1>1, <1>3
<1>5. IsSequence(wire)
  BY <1>3, <1>4, SequenceOf
<1>6. \A k \in DOMAIN wire : wire[k].m = "targetCreated"
  BY <1>1
<1>7. DOMAIN attached = {} /\ DOMAIN contexts = {} /\ DOMAIN log = {} /\ IsSequence(log)
  BY <1>1, Empty
<1>8. /\ DOMAIN reg.s2t = {} /\ reg.configured = {} /\ reg.bound = {} /\ reg.observing = {}
      /\ at.do = "free"
  BY <1>1 DEF NoTargets, Free
<1>9. SessionsInv
  BY <1>1, <1>7 DEF SessionsInv, Commands
<1>10. AtInv /\ KeptInv /\ LogInv
  BY <1>7, <1>8 DEF AtInv, KeptInv, LogInv, ActionsAreTrue
<1>11. WireInv /\ DocumentsInv /\ TruthInv
  BY <1>5, <1>6, <1>7 DEF WireInv, EventInv, Names, DocumentsInv, TruthInv
<1>12. MirrorInv
  <2>1. Present = {}
    BY <1>1 DEF Present
  <2> QED
    BY <1>7, <2>1 DEF MirrorInv, NoneMore, NoneLess
<1> QED
  BY <1>9, <1>10, <1>11, <1>12, InitSound DEF RecordingInv

LEMMA RecordingHolds == Spec => []RecordingInv
<1>1. Init => RecordingInv
  BY InitInv, RecordingAssumption
<1>2. RecordingInv /\ [Next]_vars => RecordingInv'
  <2> SUFFICES ASSUME RecordingInv, [Next]_vars PROVE RecordingInv'
    OBVIOUS
  <2>1. CASE UNCHANGED vars
    <3>1. UNCHANGED <<at, doc, attached, opened, enabled, wire, reg, contexts, log, departed>>
      BY <2>1 DEF vars, browser, collector, history
    <3>2. AtInv'
      BY <3>1 DEF RecordingInv, AtInv, Present
    <3> QED
      BY <3>1, <3>2, WaitingKeeps
  <2> QED
    BY <2>1, BrowserStepKeeps, ConsumeKeeps, RecordingAssumption DEF Next
<1> QED
  BY <1>1, <1>2, PTL DEF Spec

(* Whatever the browser does while its events wait in the queue, an action   *)
(* is recorded only if it was made in the observer's world of a document     *)
(* that was first-party then, and only for the target it was made in.        *)
THEOREM ActionsRecordedAreTrue == Spec => []ActionsAreTrue
<1>1. RecordingInv => ActionsAreTrue
  BY DEF RecordingInv, LogInv
<1> QED
  BY <1>1, RecordingHolds, PTL

(* Once the end of a session is handled, nothing that the consumer keeps     *)
(* mentions it: neither the registry nor the sets of the orchestrator nor    *)
(* the contexts, whatever answers overtake events.                           *)
THEOREM NothingOfDepartedSurvives == Spec => []NothingSurvives
<1>1. RecordingInv => NothingSurvives
  BY DEF RecordingInv, KeptInv, Present, NothingSurvives
<1> QED
  BY <1>1, RecordingHolds, PTL


-----------------------------------------------------------------------------
(* The requests that the consumer keeps, and those of the browser.           *)

(* No target is attached to that has a session already.                      *)
AttachInv ==
  /\ at.do = "attach" => at.target \notin DOMAIN reg.t2s \cup listed
  /\ listed \cap DOMAIN reg.t2s = {}

(* A request is announced at a place of the queue, or kept already (0).      *)
Kept(k, r) ==
  IF k = 0 THEN \E key \in DOMAIN requests : key[2] = r
  ELSE wire[k].m = "request" /\ wire[k].id = r

(* Events upon which session s may be of another target than t, or of none.  *)
Disturbs(e, s, t) ==
  \/ e.m = "attached" /\ (e.session = s \/ e.target = t)
  \/ e.m = "detached" /\ e.session = s
  \/ e.m \in {"destroyed", "crashed"} /\ e.target = t

Calm(s, t, i, j) == \A l \in DOMAIN wire : i < l /\ l < j => ~Disturbs(wire[l], s, t)

(* What is kept of a request is kept for the target of its session.          *)
Agrees(r, s) == \A key \in DOMAIN requests : key[2] = r => key[1] = TargetOf(reg, s)

(* A session that was opened for target t, and for no other.                 *)
Of(s, t) ==
  /\ s \in 1 .. opened /\ (s \in DOMAIN reg.s2t => reg.s2t[s] = t)
  /\ \A k \in DOMAIN wire : wire[k].m = "attached" /\ wire[k].session = s => wire[k].target = t

(* A request f of the browser and the sessions that heard it start.          *)
Seen(f, r) ==
  /\ DOMAIN f = {"stage", "target", "place", "seen"}
  /\ f.stage \in {"none", "sent", "answered", "lost", "over", "socket"}
  /\ f.stage \in {"none", "socket"} => f.seen = {} /\ \A k \in 0 .. Len(wire) : ~Kept(k, r)
  /\ f.stage \in {"sent", "answered"} =>
       /\ f.target \in Targets /\ Shows(f.target)
       /\ f.seen \subseteq SessionsOf(f.target) \cap enabled["network"]
  /\ \A s \in f.seen : Of(s, f.target)

(* While a request is under way, nothing comes between its events.           *)
Going(s, t, r) ==
  /\ Agrees(r, s)
  /\ \A k \in 0 .. Len(wire) : Kept(k, r) => Calm(s, t, k, Len(wire) + 1)

(* Once it is over, its end follows whatever is known or announced of it.    *)
Ending(s, t, r) ==
  /\ Agrees(r, s)
  /\ \A k \in 0 .. Len(wire) : Kept(k, r) =>
       \E j \in DOMAIN wire :
         /\ k < j /\ wire[j].m \in {"finished", "failed"} /\ wire[j].id = r /\ wire[j].session = s
         /\ Calm(s, t, k, j)

Ordered(f, r) ==
  /\ \A s, u \in f.seen : s = u
  /\ \A k \in DOMAIN wire : Kept(k, r) => wire[k].session \in f.seen
  /\ Kept(0, r) => f.seen # {}
  /\ \A s \in f.seen :
       /\ f.stage \in {"sent", "answered"} /\ SessionsOf(f.target) = {s} => Going(s, f.target, r)
       /\ f.stage = "over" => Ending(s, f.target, r)

KeysInv ==
  /\ \A key \in DOMAIN requests : key = <<key[1], key[2]>> /\ key[2] \in Ids
  /\ \A k \in DOMAIN wire : wire[k].m = "request" => wire[k].id \in Ids

FlightInv ==
  /\ DOMAIN flight = Ids /\ KeysInv
  /\ \A r \in Ids : \A f \in {flight[r]} : Seen(f, r) /\ (r \notin odd => Ordered(f, r))

(* What becomes of a request f.                                              *)
Flies(f, g) ==
  /\ DOMAIN g = DOMAIN f /\ g.seen = f.seen
  /\ \/ /\ g.target = f.target
        /\ g.stage = f.stage \/ (f.stage = "sent" /\ g.stage = "answered")
        /\ f.stage \in {"sent", "answered"} => doc'[f.target] \in {"own", "other"}
     \/ g.target = f.target /\ g.stage = "lost"
     \/ g.target = f.target /\ f.stage \in {"sent", "answered"} /\ g.stage = "over"
     \/ f.stage \in {"none", "socket"} /\ g.stage \in {"socket", "over"}

(* The registry keeps what it knows of the sessions there were.              *)
Remains ==
  \A s \in 1 .. opened :
    /\ TargetOf(reg', s) = TargetOf(reg, s)
    /\ s \in DOMAIN reg'.s2t => s \in DOMAIN reg.s2t /\ reg'.s2t[s] = reg.s2t[s]

(* A request is asked for again only while it is under way, by a redirect.   *)
Asks(p, g, r) ==
  \A k \in DOMAIN p :
    p[k].m = "request" /\ p[k].id = r => g.stage = "sent" /\ (r \notin odd' => p[k].session \in g.seen)

(* A request ends with an event for every session that heard it, once its    *)
(* target has no other.                                                      *)
Concludes(p, f, g, r) ==
  f.stage \in {"sent", "answered"} /\ g.stage = "over" /\ r \notin odd' =>
    /\ \A k \in DOMAIN p : p[k].m \in {"finished", "failed"}
    /\ \A s \in f.seen :
         /\ SessionsOf(f.target) = {s}
         /\ \E k \in DOMAIN p : p[k].id = r /\ p[k].session = s

LEMMA ToldSeen ==
  ASSUME SessionsInv, WireInv, Grows, NEW p, Tells(p), Ceases(p), requests' = requests, Remains,
         NEW r, NEW f, NEW g, Seen(f, r), Flies(f, g), Asks(p, g, r)
  PROVE  Seen(g, r)'
<1>1. /\ Len(wire) \in Nat /\ Len(p) \in Nat /\ Len(wire') = Len(wire) + Len(p)
      /\ DOMAIN wire = 1 .. Len(wire) /\ DOMAIN wire' = 1 .. Len(wire) + Len(p)
      /\ \A k \in DOMAIN wire : k \in DOMAIN wire' /\ wire'[k] = wire[k]
      /\ \A k \in DOMAIN wire' :
           \/ k \in DOMAIN wire /\ k <= Len(wire)
           \/ k > Len(wire) /\ k - Len(wire) \in DOMAIN p /\ wire'[k] = p[k - Len(wire)]
  BY ToldPlaces
<1>2. /\ DOMAIN g = {"stage", "target", "place", "seen"}
      /\ g.stage \in {"none", "sent", "answered", "lost", "over", "socket"}
  BY DEF Seen, Flies
<1>3. ASSUME g.stage \in {"none", "socket"}
      PROVE  g.seen = {} /\ \A k \in 0 .. Len(wire') : ~Kept(k, r)'
  <2>1. f.stage \in {"none", "socket"}
    BY <1>3 DEF Flies, Seen
  <2>2. g.seen = {} /\ \A k \in 0 .. Len(wire) : ~Kept(k, r)
    BY <2>1 DEF Seen, Flies
  <2>3. ASSUME NEW k \in 0 .. Len(wire'), Kept(k, r)' PROVE FALSE
    <3>1. CASE k = 0
      BY <1>1, <2>2, <2>3, <3>1 DEF Kept
    <3>2. CASE k # 0
      <4>1. k \in DOMAIN wire'
        BY <1>1, <2>3, <3>2
      <4>2. wire'[k].m = "request" /\ wire'[k].id = r
        BY <2>3, <3>2 DEF Kept
      <4>3. CASE k \in DOMAIN wire
        <5>1. k \in 0 .. Len(wire) /\ Kept(k, r)
          BY <1>1, <3>2, <4>2, <4>3 DEF Kept
        <5> QED
          BY <2>2, <5>1
      <4>4. CASE k - Len(wire) \in DOMAIN p /\ wire'[k] = p[k - Len(wire)]
        BY <1>3, <4>2, <4>4 DEF Asks
      <4> QED
        BY <1>1, <4>1, <4>3, <4>4
    <3> QED
      BY <3>1, <3>2
  <2> QED
    BY <2>2, <2>3
<1>4. ASSUME g.stage \in {"sent", "answered"}
      PROVE  /\ g.target \in Targets /\ doc'[g.target] \in {"own", "other"}
             /\ \A s \in g.seen : s \in DOMAIN attached' /\ attached'[s] = g.target /\ s \in enabled'["network"]
  <2>1. f.stage \in {"sent", "answered"} /\ doc'[f.target] \in {"own", "other"} /\ g.target = f.target
    BY <1>4 DEF Flies
  <2>2. ASSUME NEW s \in g.seen
        PROVE  s \in DOMAIN attached' /\ attached'[s] = g.target /\ s \in enabled'["network"]
    <3>1. s \in DOMAIN attached /\ attached[s] = f.target /\ s \in enabled["network"]
      BY <2>1 DEF Seen, Flies, SessionsOf
    <3>2. s \in DOMAIN attached' /\ s <= opened
      BY <2>1, <3>1 DEF Ceases, SessionsInv
    <3>3. "network" \in Commands
      BY DEF Commands
    <3> QED
      BY <2>1, <3>1, <3>2, <3>3 DEF Grows
  <2> QED
    BY <2>1, <2>2 DEF Seen
<1>5. ASSUME NEW s \in g.seen PROVE Of(s, g.target)'
  <2>1. Of(s, f.target) /\ g.target = f.target
    BY DEF Seen, Flies
  <2>2. s \in 1 .. opened' /\ (s \in DOMAIN reg'.s2t => reg'.s2t[s] = g.target)
    BY <2>1 DEF Of, Remains, SessionsInv, Grows
  <2>3. ASSUME NEW k \in DOMAIN wire', wire'[k].m = "attached", wire'[k].session = s
        PROVE  wire'[k].target = g.target
    <3>1. CASE k \in DOMAIN wire
      BY <1>1, <2>1, <2>3, <3>1 DEF Of
    <3>2. CASE k - Len(wire) \in DOMAIN p /\ wire'[k] = p[k - Len(wire)]
      <4>1. s > opened
        BY <2>3, <3>2 DEF Tells, IsSo
      <4> QED
        BY <2>1, <4>1 DEF Of, SessionsInv
    <3> QED
      BY <1>1, <3>1, <3>2
  <2> QED
    BY <2>2, <2>3 DEF Of
<1> QED
  BY <1>2, <1>3, <1>4, <1>5 DEF Seen, Shows, SessionsOf

(* What is told does not disturb the only session of a request's target.     *)
LEMMA ToldCalm ==
  ASSUME SessionsInv, WireInv, Grows, NEW p, Tells(p), Ceases(p),
         NEW s \in 1 .. opened, NEW t, s \in DOMAIN attached', attached'[s] = t,
         \A x \in DOMAIN attached' : attached'[x] = t => x = s,
         doc'[t] \in {"own", "other"}
  PROVE  \A k \in DOMAIN p : ~Disturbs(p[k], s, t)
<1> SUFFICES ASSUME NEW k \in DOMAIN p, Disturbs(p[k], s, t)
             PROVE  FALSE
  OBVIOUS
<1>1. IsSo(p[k]) /\ s <= opened
  BY DEF Tells
<1>2. CASE p[k].m = "attached" /\ (p[k].session = s \/ p[k].target = t)
  <2>1. p[k].session \in DOMAIN attached' /\ p[k].session > opened /\ p[k].target = attached'[p[k].session]
    BY <1>1, <1>2 DEF IsSo, Names
  <2> QED
    BY <1>1, <1>2, <2>1 DEF SessionsInv
<1>3. CASE p[k].m = "detached" /\ p[k].session = s
  BY <1>1, <1>3 DEF IsSo
<1>4. CASE p[k].m \in {"destroyed", "crashed"} /\ p[k].target = t
  BY <1>4 DEF Ceases
<1> QED
  BY <1>2, <1>3, <1>4 DEF Disturbs

LEMMA ToldOrdered ==
  ASSUME SessionsInv, WireInv, Grows, NEW p, Tells(p), Ceases(p), requests' = requests, Remains,
         NEW r, NEW f, NEW g, Seen(f, r), Ordered(f, r), Flies(f, g), Asks(p, g, r), r \notin odd',
         Concludes(p, f, g, r)
  PROVE  Ordered(g, r)'
<1>1. /\ Len(wire) \in Nat /\ Len(p) \in Nat /\ Len(wire') = Len(wire) + Len(p)
      /\ DOMAIN wire = 1 .. Len(wire) /\ DOMAIN wire' = 1 .. Len(wire) + Len(p)
      /\ \A k \in DOMAIN wire : k \in DOMAIN wire' /\ wire'[k] = wire[k]
      /\ \A k \in DOMAIN wire' :
           \/ k \in DOMAIN wire /\ k <= Len(wire)
           \/ k > Len(wire) /\ k - Len(wire) \in DOMAIN p /\ wire'[k] = p[k - Len(wire)]
  BY ToldPlaces
<1>2. \A s, u \in g.seen : s = u
  BY DEF Flies, Ordered
<1>3. ASSUME NEW k \in 0 .. Len(wire'), Kept(k, r)'
      PROVE  \/ k <= Len(wire) /\ Kept(k, r) /\ (k # 0 => k \in DOMAIN wire /\ wire'[k] = wire[k])
             \/ k > Len(wire) /\ g.stage = "sent" /\ wire'[k].session \in g.seen
  <2>1. CASE k = 0
    BY <1>1, <1>3, <2>1 DEF Kept
  <2>2. CASE k # 0
    <3>1. k \in DOMAIN wire' /\ wire'[k].m = "request" /\ wire'[k].id = r
      BY <1>1, <1>3, <2>2 DEF Kept
    <3>2. CASE k \in DOMAIN wire /\ k <= Len(wire)
      BY <1>1, <2>2, <3>1, <3>2 DEF Kept
    <3>3. CASE k > Len(wire) /\ k - Len(wire) \in DOMAIN p /\ wire'[k] = p[k - Len(wire)]
      BY <3>1, <3>3 DEF Asks
    <3> QED
      BY <1>1, <3>1, <3>2, <3>3
  <2> QED
    BY <2>1, <2>2
<1>4. ASSUME NEW k \in DOMAIN wire', Kept(k, r)' PROVE wire'[k].session \in g.seen
  <2>1. k \in 0 .. Len(wire') /\ k # 0
    BY <1>1
  <2> QED
    BY <1>1, <1>3, <1>4, <2>1 DEF Ordered, Flies
<1>5. ASSUME Kept(0, r)' PROVE g.seen # {}
  <2>1. Kept(0, r)
    BY <1>5 DEF Kept
  <2> QED
    BY <2>1 DEF Ordered, Flies
<1>6. ASSUME NEW s \in g.seen PROVE Agrees(r, s)' <=> Agrees(r, s)
  <2>1. s \in 1 .. opened
    BY DEF Flies, Seen, Of
  <2>2. TargetOf(reg', s) = TargetOf(reg, s)
    BY <2>1 DEF Remains
  <2> QED
    BY <2>2 DEF Agrees
<1>7. ASSUME NEW s \in g.seen, NEW t, t = g.target, g.stage \in {"sent", "answered"},
             s \in DOMAIN attached', attached'[s] = t, \A x \in DOMAIN attached' : attached'[x] = t => x = s
      PROVE  Going(s, t, r)'
  <2>1. /\ f.stage \in {"sent", "answered"} /\ doc'[t] \in {"own", "other"} /\ t = f.target
        /\ s \in f.seen /\ s \in 1 .. opened
    BY <1>7 DEF Flies, Seen, Of
  <2>2. s \in DOMAIN attached /\ attached[s] = t
    BY <2>1 DEF Seen, SessionsOf
  <2>3. ASSUME NEW x \in DOMAIN attached, attached[x] = t PROVE x = s
    <3>1. x \in DOMAIN attached' /\ x <= opened
      BY <2>1, <2>3 DEF Ceases, SessionsInv
    <3> QED
      BY <1>7, <2>3, <3>1 DEF Grows
  <2>4. SessionsOf(f.target) = {s}
    BY <2>1, <2>2, <2>3 DEF SessionsOf
  <2>5. Going(s, t, r)
    BY <2>1, <2>4 DEF Ordered
  <2>6. \A k \in DOMAIN p : ~Disturbs(p[k], s, t)
    BY <1>7, <2>1, ToldCalm
  <2>7. ASSUME NEW k \in 0 .. Len(wire'), Kept(k, r)',
               NEW l \in DOMAIN wire', k < l, l < Len(wire') + 1
        PROVE  ~Disturbs(wire'[l], s, t)
    <3>1. CASE l \in DOMAIN wire /\ l <= Len(wire)
      <4>1. k \in 0 .. Len(wire) /\ Kept(k, r) /\ wire'[l] = wire[l] /\ l < Len(wire) + 1
        BY <1>1, <1>3, <2>7, <3>1
      <4> QED
        BY <2>5, <2>7, <3>1, <4>1 DEF Going, Calm
    <3>2. CASE l - Len(wire) \in DOMAIN p /\ wire'[l] = p[l - Len(wire)]
      BY <2>6, <3>2
    <3> QED
      BY <1>1, <3>1, <3>2
  <2>8. \A k \in 0 .. Len(wire') : Kept(k, r)' => Calm(s, t, k, Len(wire) + 1)'
    BY <2>7 DEF Calm, Disturbs
  <2> QED
    BY <1>6, <2>5, <2>8 DEF Going
<1>8. ASSUME NEW s \in g.seen, g.stage = "over" PROVE Ending(s, g.target, r)'
  <2> DEFINE t == g.target
  <2>1. CASE f.stage = "over" /\ g.target = f.target
    <3>1. Ending(s, t, r)
      BY <1>8, <2>1 DEF Ordered, Flies
    <3>2. ASSUME NEW k \in 0 .. Len(wire'), Kept(k, r)'
          PROVE  \E j \in DOMAIN wire' :
                   /\ k < j /\ wire'[j].m \in {"finished", "failed"} /\ wire'[j].id = r
                   /\ wire'[j].session = s /\ Calm(s, t, k, j)'
      <4>1. k \in 0 .. Len(wire) /\ Kept(k, r)
        BY <1>1, <1>3, <1>8, <3>2
      <4>2. PICK j \in DOMAIN wire :
              /\ k < j /\ wire[j].m \in {"finished", "failed"} /\ wire[j].id = r
              /\ wire[j].session = s /\ Calm(s, t, k, j)
        BY <3>1, <4>1 DEF Ending
      <4>3. ASSUME NEW l \in DOMAIN wire', k < l, l < j PROVE ~Disturbs(wire'[l], s, t)
        <5>1. l \in DOMAIN wire /\ wire'[l] = wire[l]
          BY <1>1, <4>2, <4>3
        <5> QED
          BY <4>2, <4>3, <5>1 DEF Calm
      <4>4. Calm(s, t, k, j)'
        BY <4>3 DEF Calm, Disturbs
      <4> QED
        BY <1>1, <4>2, <4>4
    <3> QED
      BY <1>6, <3>1, <3>2 DEF Ending
  <2>2. CASE f.stage \in {"none", "socket"}
    BY <2>2 DEF Seen, Flies
  <2>3. CASE f.stage \in {"sent", "answered"} /\ g.target = f.target
    <3>1. s \in f.seen
      BY DEF Flies
    <3>2. Going(s, t, r)
      BY <1>8, <2>3, <3>1 DEF Concludes, Ordered
    <3>3. PICK n \in DOMAIN p : p[n].id = r /\ p[n].session = s
      BY <1>8, <2>3, <3>1 DEF Concludes
    <3>4. \A k \in DOMAIN p : p[k].m \in {"finished", "failed"}
      BY <1>8, <2>3 DEF Concludes
    <3>5. Len(wire) + n \in DOMAIN wire' /\ wire'[Len(wire) + n] = p[n] /\ n \in Nat /\ n > 0
      BY <3>3, ToldPlaces
    <3>6. PICK j : j = Len(wire) + n
      OBVIOUS
    <3>7. ASSUME NEW k \in 0 .. Len(wire'), Kept(k, r)'
          PROVE  k < j /\ Calm(s, t, k, j)'
      <4>1. k \in 0 .. Len(wire) /\ Kept(k, r)
        BY <1>1, <1>3, <1>8, <3>7
      <4>2. ASSUME NEW l \in DOMAIN wire', k < l PROVE ~Disturbs(wire'[l], s, t)
        <5>1. CASE l \in DOMAIN wire /\ l <= Len(wire)
          <6>1. wire'[l] = wire[l] /\ l < Len(wire) + 1
            BY <1>1, <5>1
          <6> QED
            BY <3>2, <4>1, <4>2, <5>1, <6>1 DEF Going, Calm
        <5>2. CASE l - Len(wire) \in DOMAIN p /\ wire'[l] = p[l - Len(wire)]
          BY <3>4, <5>2 DEF Disturbs
        <5> QED
          BY <1>1, <5>1, <5>2
      <4>3. k < j
        BY <1>1, <3>5, <3>6, <4>1
      <4> QED
        BY <4>2, <4>3 DEF Calm, Disturbs
    <3>8. Agrees(r, s)'
      BY <1>6, <3>2 DEF Going
    <3>9. /\ j \in DOMAIN wire' /\ wire'[j].m \in {"finished", "failed"} /\ wire'[j].id = r
          /\ wire'[j].session = s
      BY <3>3, <3>4, <3>5, <3>6
    <3> QED
      BY <3>7, <3>8, <3>9 DEF Ending
  <2> QED
    BY <1>8, <2>1, <2>2, <2>3 DEF Flies, Seen
<1>9. ASSUME NEW s \in g.seen, g.stage \in {"sent", "answered"}, (SessionsOf(g.target) = {s})'
      PROVE  Going(s, g.target, r)'
  <2>1. s \in DOMAIN attached' /\ attached'[s] = g.target
        /\ \A x \in DOMAIN attached' : attached'[x] = g.target => x = s
    BY <1>9 DEF SessionsOf
  <2> QED
    BY <1>7, <1>9, <2>1
<1>10. \A s \in g.seen :
         /\ g.stage \in {"sent", "answered"} /\ (SessionsOf(g.target) = {s})' => Going(s, g.target, r)'
         /\ g.stage = "over" => Ending(s, g.target, r)'
  BY <1>8, <1>9
<1> QED
  BY <1>2, <1>4, <1>5, <1>10 DEF Ordered

(* Steps of the consumer that handle an event h, the head of the queue.      *)
Passes(h) ==
  /\ wire # <<>> /\ h = wire[1] /\ wire' = Tail(wire)
  /\ UNCHANGED <<doc, attached, opened, enabled, flight, odd>>
  /\ \A s \in DOMAIN reg'.s2t :
       \/ s \in DOMAIN reg.s2t /\ reg'.s2t[s] = reg.s2t[s]
       \/ h.m = "attached" /\ s = h.session /\ reg'.s2t[s] = h.target

(* The registry knows a session as before, unless the event disturbs it.     *)
Steady(h) ==
  \A s, t : (s \in DOMAIN reg.s2t => reg.s2t[s] = t) /\ ~Disturbs(h, s, t)
    => TargetOf(reg', s) = TargetOf(reg, s)

(* What is kept of requests, for the targets that the registry tells.        *)
Remembers(h) ==
  /\ \A key \in DOMAIN requests' :
       key \in DOMAIN requests \/ (h.m = "request" /\ key = <<TargetOf(reg, h.session), h.id>>)
  /\ h.m \in {"finished", "failed"} => <<TargetOf(reg, h.session), h.id>> \notin DOMAIN requests'

LEMMA PassedRest ==
  ASSUME WireInv, NEW h, Passes(h)
  PROVE  /\ Len(wire) \in Nat /\ Len(wire) > 0 /\ DOMAIN wire = 1 .. Len(wire)
         /\ Len(wire') = Len(wire) - 1 /\ DOMAIN wire' = 1 .. Len(wire) - 1
         /\ 1 \in DOMAIN wire /\ h = wire[1]
         /\ \A k \in DOMAIN wire' : k + 1 \in DOMAIN wire /\ wire'[k] = wire[k + 1]
<1>1. IsSequence(wire) /\ wire # <<>> /\ wire' = Tail(wire)
  BY DEF WireInv, Passes
<1> QED
  BY <1>1, Rest DEF Passes

LEMMA PassedKept ==
  ASSUME WireInv, KeysInv, NEW h, Passes(h), Remembers(h), NEW r, NEW k \in 0 .. Len(wire'), Kept(k, r)'
  PROVE  \/ k + 1 \in DOMAIN wire /\ Kept(k + 1, r) /\ (k = 0 => h.m = "request" /\ h.id = r)
         \/ k = 0 /\ Kept(0, r) /\ ~(h.m = "request" /\ h.id = r)
<1>1. CASE k = 0
  <2>1. PICK key \in DOMAIN requests' : key[2] = r
    BY <1>1 DEF Kept
  <2>2. CASE h.m = "request" /\ h.id = r
    <3>1. 1 \in DOMAIN wire /\ h = wire[1] /\ k + 1 = 1
      BY <1>1, PassedRest
    <3> QED
      BY <1>1, <2>2, <3>1 DEF Kept
  <2>3. CASE ~(h.m = "request" /\ h.id = r)
    <3>1. key \in DOMAIN requests
      BY <2>1, <2>3 DEF Remembers
    <3> QED
      BY <1>1, <2>1, <2>3, <3>1 DEF Kept
  <2> QED
    BY <2>2, <2>3
<1>2. CASE k # 0
  <2>1. k \in DOMAIN wire' /\ wire'[k].m = "request" /\ wire'[k].id = r
    BY <1>2, PassedRest DEF Kept
  <2>2. k + 1 \in DOMAIN wire /\ wire'[k] = wire[k + 1] /\ k + 1 # 0
    BY <1>2, <2>1, PassedRest
  <2> QED
    BY <1>2, <2>1, <2>2 DEF Kept
<1> QED
  BY <1>1, <1>2

LEMMA PassedSeen ==
  ASSUME WireInv, KeysInv, NEW h, Passes(h), Remembers(h), NEW r, NEW f, Seen(f, r)
  PROVE  Seen(f, r)'
<1>1. ASSUME f.stage \in {"none", "socket"} PROVE \A k \in 0 .. Len(wire') : ~Kept(k, r)'
  <2>1. \A k \in 0 .. Len(wire) : ~Kept(k, r)
    BY <1>1 DEF Seen
  <2>2. \A k \in DOMAIN wire : k \in 0 .. Len(wire)
    BY PassedRest
  <2>3. 0 \in 0 .. Len(wire)
    BY PassedRest
  <2> QED
    BY <2>1, <2>2, <2>3, PassedKept
<1>2. ASSUME NEW s \in f.seen PROVE Of(s, f.target)'
  <2>1. Of(s, f.target)
    BY DEF Seen
  <2>2. s \in DOMAIN reg'.s2t => reg'.s2t[s] = f.target
    BY <2>1, PassedRest DEF Of, Passes
  <2>3. \A k \in DOMAIN wire' :
          wire'[k].m = "attached" /\ wire'[k].session = s => wire'[k].target = f.target
    BY <2>1, PassedRest DEF Of
  <2> QED
    BY <2>1, <2>2, <2>3 DEF Of, Passes
<1> QED
  BY <1>1, <1>2 DEF Seen, Shows, SessionsOf, Passes

(* The queue moves up; what was calm stays so.                               *)
LEMMA CalmMoves ==
  ASSUME WireInv, NEW h, Passes(h), NEW s, NEW t, NEW i \in Nat, NEW j \in Nat, Calm(s, t, i, j),
         NEW l \in Nat, i <= l + 1
  PROVE  Calm(s, t, l, j - 1)'
<1>1. ASSUME NEW n \in DOMAIN wire', l < n, n < j - 1 PROVE ~Disturbs(wire'[n], s, t)
  <2>1. n + 1 \in DOMAIN wire /\ wire'[n] = wire[n + 1] /\ n \in Nat
    BY PassedRest
  <2>2. i < n + 1 /\ n + 1 < j
    BY <1>1, <2>1
  <2> QED
    BY <2>1, <2>2 DEF Calm
<1> QED
  BY <1>1 DEF Calm, Disturbs

LEMMA PassedAgrees ==
  ASSUME WireInv, KeysInv, NEW h, Passes(h), Remembers(h), Steady(h), NEW r, NEW s, NEW t,
         Of(s, t), Agrees(r, s), h.m = "request" /\ h.id = r => h.session = s,
         Kept(0, r) => ~Disturbs(h, s, t)
  PROVE  Agrees(r, s)'
<1> SUFFICES ASSUME NEW key \in DOMAIN requests', key[2] = r
             PROVE  key[1] = TargetOf(reg', s)
  BY DEF Agrees
<1>1. CASE key \in DOMAIN requests
  <2>1. key[1] = TargetOf(reg, s) /\ Kept(0, r)
    BY <1>1 DEF Agrees, Kept
  <2> QED
    BY <2>1 DEF Steady, Of
<1>2. CASE h.m = "request" /\ key = <<TargetOf(reg, h.session), h.id>>
  <2>1. key[1] = TargetOf(reg, h.session) /\ h.id = r
    BY <1>2
  <2>2. h.session = s /\ ~Disturbs(h, s, t)
    BY <1>2, <2>1 DEF Disturbs
  <2> QED
    BY <2>1, <2>2 DEF Steady, Of
<1> QED
  BY <1>1, <1>2 DEF Remembers

LEMMA PassedOrdered ==
  ASSUME WireInv, KeysInv, NEW h, Passes(h), Remembers(h), Steady(h), NEW r, NEW f, Seen(f, r),
         Ordered(f, r)
  PROVE  Ordered(f, r)'
<1>1. /\ Len(wire) \in Nat /\ Len(wire) > 0 /\ DOMAIN wire = 1 .. Len(wire)
      /\ Len(wire') = Len(wire) - 1 /\ DOMAIN wire' = 1 .. Len(wire) - 1
      /\ 1 \in DOMAIN wire /\ h = wire[1]
      /\ \A k \in DOMAIN wire' : k + 1 \in DOMAIN wire /\ wire'[k] = wire[k + 1]
  BY PassedRest
<1>2. ASSUME NEW k \in DOMAIN wire', Kept(k, r)' PROVE wire'[k].session \in f.seen
  <2>1. k \in 0 .. Len(wire') /\ k # 0
    BY <1>1
  <2>2. k + 1 \in DOMAIN wire /\ Kept(k + 1, r) /\ wire'[k] = wire[k + 1]
    BY <1>1, <1>2, <2>1, PassedKept
  <2> QED
    BY <2>2 DEF Ordered
<1>3. ASSUME Kept(0, r)' PROVE f.seen # {}
  <2>1. 0 \in 0 .. Len(wire') /\ 0 + 1 = 1
    BY <1>1
  <2>2. Kept(1, r) \/ Kept(0, r)
    BY <1>3, <2>1, PassedKept
  <2> QED
    BY <1>1, <2>2 DEF Ordered
<1>4. ASSUME NEW s \in f.seen, h.m = "request", h.id = r PROVE h.session = s
  <2>1. Kept(1, r)
    BY <1>1, <1>4 DEF Kept
  <2> QED
    BY <1>1, <1>4, <2>1 DEF Ordered
<1>5. ASSUME NEW s \in f.seen, NEW t, t = f.target, f.stage \in {"sent", "answered"}, SessionsOf(t) = {s}
      PROVE  Going(s, t, r)'
  <2>1. Going(s, t, r) /\ Of(s, t)
    BY <1>5 DEF Ordered, Seen
  <2>2. Kept(0, r) => ~Disturbs(h, s, t)
    <3>1. 0 \in 0 .. Len(wire) /\ 0 < 1 /\ 1 < Len(wire) + 1
      BY <1>1
    <3> QED
      BY <1>1, <2>1, <3>1 DEF Going, Calm
  <2>3. Agrees(r, s)'
    BY <1>4, <2>1, <2>2, PassedAgrees DEF Going
  <2>4. PICK n : n = Len(wire) + 1
    OBVIOUS
  <2>5. n \in Nat /\ n - 1 = Len(wire') + 1
    BY <1>1, <2>4
  <2>6. ASSUME NEW k \in 0 .. Len(wire'), Kept(k, r)' PROVE Calm(s, t, k, n - 1)'
    <3>1. CASE k + 1 \in DOMAIN wire /\ Kept(k + 1, r)
      <4>1. k + 1 \in 0 .. Len(wire) /\ k + 1 \in Nat /\ k \in Nat
        BY <1>1, <3>1
      <4>2. Calm(s, t, k + 1, n)
        BY <2>1, <2>4, <3>1, <4>1 DEF Going
      <4>3. PICK i \in Nat : i = k + 1 /\ i <= k + 1
        BY <4>1
      <4>4. Calm(s, t, i, n)
        BY <4>2, <4>3
      <4> QED
        BY <2>5, <4>1, <4>3, <4>4, CalmMoves
    <3>2. CASE k = 0 /\ Kept(0, r)
      <4>1. 0 \in 0 .. Len(wire) /\ 0 \in Nat /\ 0 <= 0 + 1
        BY <1>1
      <4>2. Calm(s, t, 0, n)
        BY <2>1, <2>4, <3>2, <4>1 DEF Going
      <4> QED
        BY <2>5, <3>2, <4>1, <4>2, CalmMoves
    <3> QED
      BY <2>6, <3>1, <3>2, PassedKept
  <2>7. \A k \in 0 .. Len(wire') : Kept(k, r)' => Calm(s, t, k, Len(wire) + 1)'
    BY <2>5, <2>6 DEF Calm
  <2> QED
    BY <2>3, <2>7 DEF Going
<1>6. ASSUME NEW s \in f.seen, NEW t, t = f.target, f.stage = "over"
      PROVE  Ending(s, t, r)'
  <2>1. Ending(s, t, r) /\ Of(s, t)
    BY <1>6 DEF Ordered, Seen
  <2>2. ASSUME NEW k \in 0 .. Len(wire), Kept(k, r), NEW l \in 0 .. Len(wire'),
               k = l + 1 \/ (k = 0 /\ l = 0), Kept(l, r)', k = 0 => ~(h.m = "request" /\ h.id = r)
        PROVE  /\ \E j \in DOMAIN wire' :
                    /\ l < j /\ wire'[j].m \in {"finished", "failed"} /\ wire'[j].id = r
                    /\ wire'[j].session = s /\ Calm(s, t, l, j)'
               /\ k = 0 => ~Disturbs(h, s, t)
    <3>1. PICK j \in DOMAIN wire :
            /\ k < j /\ wire[j].m \in {"finished", "failed"} /\ wire[j].id = r
            /\ wire[j].session = s /\ Calm(s, t, k, j)
      BY <2>1, <2>2 DEF Ending
    <3>2. j # 1
      <4>1. SUFFICES ASSUME j = 1 PROVE FALSE
        OBVIOUS
      <4>2. k = 0 /\ l = 0
        BY <1>1, <2>2, <3>1, <4>1
      <4>3. h.m \in {"finished", "failed"} /\ h.id = r /\ h.session = s
        BY <1>1, <3>1, <4>1
      <4>4. PICK key \in DOMAIN requests' : key[2] = r
        BY <2>2, <4>2 DEF Kept
      <4>5. key \in DOMAIN requests /\ <<TargetOf(reg, s), r>> \notin DOMAIN requests'
        BY <4>3 DEF Remembers
      <4>6. key[1] = TargetOf(reg, s) /\ key = <<key[1], key[2]>>
        BY <2>1, <4>4, <4>5 DEF Ending, Agrees, KeysInv
      <4> QED
        BY <4>4, <4>5, <4>6
    <3>3. j \in Nat /\ k \in Nat /\ l \in Nat /\ j > 1
      BY <1>1, <3>1, <3>2
    <3>4. j - 1 \in DOMAIN wire' /\ wire'[j - 1] = wire[j] /\ l < j - 1
      BY <1>1, <2>2, <3>1, <3>3
    <3>5. k <= l + 1
      BY <2>2, <3>3
    <3>6. Calm(s, t, l, j - 1)'
      BY <3>1, <3>3, <3>5, CalmMoves
    <3>7. k = 0 => ~Disturbs(h, s, t)
      BY <1>1, <3>1, <3>3 DEF Calm
    <3> QED
      BY <3>1, <3>4, <3>6, <3>7
  <2>3. ASSUME NEW l \in 0 .. Len(wire'), Kept(l, r)'
        PROVE  \E j \in DOMAIN wire' :
                 /\ l < j /\ wire'[j].m \in {"finished", "failed"} /\ wire'[j].id = r
                 /\ wire'[j].session = s /\ Calm(s, t, l, j)'
    <3>1. CASE l + 1 \in DOMAIN wire /\ Kept(l + 1, r)
      <4>1. l + 1 \in 0 .. Len(wire) /\ l + 1 # 0
        BY <1>1, <3>1
      <4> QED
        BY <2>2, <2>3, <3>1, <4>1
    <3>2. CASE l = 0 /\ Kept(0, r) /\ ~(h.m = "request" /\ h.id = r)
      <4>1. 0 \in 0 .. Len(wire)
        BY <1>1
      <4> QED
        BY <2>2, <2>3, <3>2, <4>1
    <3> QED
      BY <2>3, <3>1, <3>2, PassedKept
  <2>4. Agrees(r, s)'
    <3>1. CASE Kept(0, r)' /\ ~(h.m = "request" /\ h.id = r)
      <4>1. 0 \in 0 .. Len(wire') /\ 0 \in 0 .. Len(wire)
        BY <1>1
      <4>2. Kept(0, r)
        BY <3>1, <4>1, PassedKept
      <4>3. ~Disturbs(h, s, t)
        BY <2>2, <3>1, <4>1, <4>2
      <4> QED
        BY <1>4, <2>1, <4>3, PassedAgrees DEF Ending
    <3>2. CASE ~Kept(0, r)'
      BY <3>2 DEF Kept, Agrees
    <3>3. CASE h.m = "request" /\ h.id = r
      <4>1. ~Disturbs(h, s, t)
        BY <3>3 DEF Disturbs
      <4> QED
        BY <1>4, <2>1, <4>1, PassedAgrees DEF Ending
    <3> QED
      BY <3>1, <3>2, <3>3
  <2> QED
    BY <2>3, <2>4 DEF Ending
<1>7. ASSUME NEW s \in f.seen, f.stage \in {"sent", "answered"}, (SessionsOf(f.target) = {s})'
      PROVE  Going(s, f.target, r)'
  <2>1. SessionsOf(f.target) = {s}
    BY <1>7 DEF SessionsOf, Passes
  <2> QED
    BY <1>5, <1>7, <2>1
<1>8. \A s \in f.seen :
        /\ f.stage \in {"sent", "answered"} /\ (SessionsOf(f.target) = {s})' => Going(s, f.target, r)'
        /\ f.stage = "over" => Ending(s, f.target, r)'
  BY <1>6, <1>7
<1>9. \A s, u \in f.seen : s = u
  BY DEF Ordered
<1> QED
  BY <1>2, <1>3, <1>8, <1>9 DEF Ordered

(* The steps of the consumer that handle an event.                           *)
LEMMA RegistryPasses ==
  ASSUME RecordingInv, TargetTold \/ SessionTold \/ SessionGone \/ TargetGone
  PROVE  \E h : Passes(h) /\ Steady(h) /\ Remembers(h)
<1>1. Sound(reg) /\ Shaped(reg) /\ Paired(reg)
  BY DEF RecordingInv, RegistryInv, Sound
<1>2. PICK h : h = Head(wire)
  OBVIOUS
<1>3. /\ UNCHANGED <<doc, attached, opened, enabled, flight, odd, requests>>
      /\ wire # <<>> /\ wire' = Tail(wire) /\ h = wire[1]
      /\ h.m \in {"targetCreated", "infoChanged", "attached", "detached", "destroyed", "crashed"}
  BY <1>2, TakenHead DEF TargetTold, SessionTold, SessionGone, TargetGone, Serves
<1>4. Remembers(h)
  BY <1>3 DEF Remembers
<1>5. ASSUME /\ \A s \in DOMAIN reg'.s2t :
                  \/ s \in DOMAIN reg.s2t /\ reg'.s2t[s] = reg.s2t[s]
                  \/ h.m = "attached" /\ s = h.session /\ reg'.s2t[s] = h.target
             /\ \A s \in DOMAIN reg.s2t : ~Disturbs(h, s, reg.s2t[s]) => s \in DOMAIN reg'.s2t
      PROVE  \E x : Passes(x) /\ Steady(x) /\ Remembers(x)
  <2>1. Passes(h)
    BY <1>3, <1>5 DEF Passes
  <2>2. ASSUME NEW s, NEW t, s \in DOMAIN reg.s2t => reg.s2t[s] = t, ~Disturbs(h, s, t)
        PROVE  TargetOf(reg', s) = TargetOf(reg, s)
    <3>1. ~(h.m = "attached" /\ s = h.session)
      BY <2>2 DEF Disturbs
    <3>2. s \in DOMAIN reg.s2t => s \in DOMAIN reg'.s2t
      BY <1>5, <2>2
    <3>3. s \in DOMAIN reg'.s2t => s \in DOMAIN reg.s2t /\ reg'.s2t[s] = reg.s2t[s]
      BY <1>5, <3>1
    <3> QED
      BY <3>2, <3>3 DEF TargetOf, Get
  <2> QED
    BY <1>4, <2>1, <2>2 DEF Steady
<1>6. CASE reg'.s2t = reg.s2t
  BY <1>5, <1>6
<1>7. CASE TargetTold
  <2>1. \/ reg' = reg
        \/ \E info : reg' = [reg EXCEPT !.info = info]
    BY <1>7 DEF TargetTold
  <2>2. reg'.s2t = reg.s2t
    BY <1>1, <2>1 DEF Shaped, Fields
  <2> QED
    BY <1>6, <2>2
<1>8. CASE SessionTold
  <2>1. h.m = "attached" /\ (reg' = reg \/ reg' = Registered(reg, h.target, h.session, h.shows))
    <3>1. Takes({"attached"})
      BY <1>8 DEF SessionTold
    <3>2. h.m = "attached"
      BY <1>2, <3>1, TakenHead
    <3>3. reg' = reg \/ reg' = Registered(reg, h.target, h.session, h.shows)
      BY <1>2, <1>8 DEF SessionTold
    <3> QED
      BY <3>2, <3>3
  <2>2. CASE reg' = Registered(reg, h.target, h.session, h.shows)
    <3>1. reg'.s2t = Put(Without(reg.s2t, Stale(reg.t2s, h.target, h.session)), h.session, h.target)
      BY <1>1, <2>2 DEF Shaped, Fields, Registered
    <3>2. ASSUME NEW s \in DOMAIN reg.s2t, ~Disturbs(h, s, reg.s2t[s]) PROVE s \in DOMAIN reg'.s2t
      <4>1. s # h.session /\ reg.s2t[s] # h.target
        BY <2>1, <3>2 DEF Disturbs
      <4>2. s \notin Stale(reg.t2s, h.target, h.session)
        BY <1>1, <4>1 DEF Stale, Paired
      <4> QED
        BY <3>1, <4>2 DEF Put, Without
    <3>3. \A s \in DOMAIN reg'.s2t :
            (s \in DOMAIN reg.s2t /\ reg'.s2t[s] = reg.s2t[s]) \/ (s = h.session /\ reg'.s2t[s] = h.target)
      BY <3>1 DEF Put, Without
    <3> QED
      BY <1>5, <2>1, <3>2, <3>3
  <2> QED
    BY <1>6, <2>1, <2>2
<1>9. CASE SessionGone
  <2>1. h.m = "detached" /\ reg' = Detached(reg, h.session)
    BY <1>2, <1>9, TakenHead DEF SessionGone
  <2>2. reg'.s2t = Without(reg.s2t, {h.session})
    BY <1>1, <2>1 DEF Shaped, Fields, Detached, SessionRemoved, Discarded
  <2>3. \A s \in DOMAIN reg.s2t : ~Disturbs(h, s, reg.s2t[s]) => s # h.session
    BY <2>1 DEF Disturbs
  <2>4. \A s \in DOMAIN reg.s2t : ~Disturbs(h, s, reg.s2t[s]) => s \in DOMAIN reg'.s2t
    BY <2>2, <2>3 DEF Without
  <2>5. \A s \in DOMAIN reg'.s2t : s \in DOMAIN reg.s2t /\ reg'.s2t[s] = reg.s2t[s]
    BY <2>2 DEF Without
  <2> QED
    BY <1>5, <2>4, <2>5
<1>10. CASE TargetGone
  <2>1. h.m \in {"destroyed", "crashed"} /\ reg' = Terminated(reg, h.target)
    BY <1>2, <1>10, TakenHead DEF TargetGone
  <2>2. PICK ss : ss = {reg.t2s[x] : x \in {h.target} \cap DOMAIN reg.t2s}
    OBVIOUS
  <2>3. reg'.s2t = Without(reg.s2t, ss)
    BY <1>1, <2>1, <2>2 DEF Shaped, Fields, Terminated, TargetRemoved, Discarded
  <2>4. \A s \in ss : reg.s2t[s] = h.target
    BY <1>1, <2>2 DEF Paired
  <2>5. \A s \in DOMAIN reg.s2t : ~Disturbs(h, s, reg.s2t[s]) => s \in DOMAIN reg'.s2t
    <3>1. \A s \in DOMAIN reg.s2t : ~Disturbs(h, s, reg.s2t[s]) => s \notin ss
      BY <2>1, <2>4 DEF Disturbs
    <3> QED
      BY <2>3, <3>1 DEF Without
  <2>6. \A s \in DOMAIN reg'.s2t : s \in DOMAIN reg.s2t /\ reg'.s2t[s] = reg.s2t[s]
    BY <2>3 DEF Without
  <2> QED
    BY <1>5, <2>5, <2>6
<1> QED
  BY <1>7, <1>8, <1>9, <1>10

LEMMA NetworkPasses ==
  ASSUME RecordingInv,
         \/ ContextCreated \/ ContextsCleared \/ ContextDestroyed \/ ActionTold
         \/ RequestTold \/ ResponseTold \/ EndTold \/ SocketTold
  PROVE  \E h : Passes(h) /\ Steady(h) /\ Remembers(h)
<1>1. PICK h : h = Head(wire)
  OBVIOUS
<1>2. /\ UNCHANGED <<doc, attached, opened, enabled, flight, odd, reg>>
      /\ wire # <<>> /\ wire' = Tail(wire) /\ h = wire[1]
  BY <1>1, TakenHead DEF ContextCreated, ContextsCleared, ContextDestroyed, Mirrors, ActionTold, RequestTold,
     ResponseTold, EndTold, SocketTold, Network, Serves
<1>3. Passes(h) /\ Steady(h)
  BY <1>2 DEF Passes, Steady
<1>4. CASE ContextCreated \/ ContextsCleared \/ ContextDestroyed \/ ActionTold \/ SocketTold
  <2>1. /\ requests' = requests
        /\ h.m \in {"contextCreated", "contextsCleared", "contextDestroyed", "bindingCalled", "socket"}
    BY <1>1, <1>4, TakenHead DEF ContextCreated, ContextsCleared, ContextDestroyed, Mirrors, ActionTold, SocketTold
  <2> QED
    BY <1>3, <2>1 DEF Remembers
<1>5. CASE RequestTold
  <2>1. h.m = "request" /\ requests' = RequestState(requests, Key(h), h.place, h.from)
    BY <1>1, <1>5, TakenHead DEF RequestTold, Network
  <2>2. DOMAIN requests' \subseteq DOMAIN requests \cup {Key(h)}
    BY <2>1 DEF RequestState, Put, Without
  <2>3. Remembers(h)
    BY <2>1, <2>2 DEF Remembers, Key
  <2> QED
    BY <1>3, <2>3
<1>6. CASE ResponseTold
  <2>1. h.m = "response" /\ requests' = ResponseState(requests, Key(h), h.place, h.page)
    BY <1>1, <1>6, TakenHead DEF ResponseTold, Network
  <2>2. DOMAIN requests' \subseteq DOMAIN requests
    BY <2>1 DEF ResponseState, Without
  <2>3. Remembers(h)
    BY <2>1, <2>2 DEF Remembers
  <2> QED
    BY <1>3, <2>3
<1>7. CASE EndTold
  <2>1. h.m \in {"finished", "failed"} /\ requests' = Without(requests, {Key(h)})
    BY <1>1, <1>7, TakenHead DEF EndTold, Network, EndState
  <2>2. DOMAIN requests' = DOMAIN requests \ {Key(h)}
    BY <2>1 DEF Without
  <2>3. Remembers(h)
    BY <2>1, <2>2 DEF Remembers, Key
  <2> QED
    BY <1>3, <2>3
<1> QED
  BY <1>4, <1>5, <1>6, <1>7

LEMMA PassedFlight ==
  ASSUME RecordingInv, FlightInv, NEW h, Passes(h), Steady(h), Remembers(h)
  PROVE  FlightInv'
<1>1. WireInv /\ KeysInv /\ flight' = flight /\ odd' = odd /\ DOMAIN flight = Ids
  BY DEF RecordingInv, FlightInv, Passes
<1>2. \A k \in DOMAIN wire' : wire'[k].m = "request" => wire'[k].id \in Ids
  BY <1>1, PassedRest DEF KeysInv
<1>3. ASSUME NEW key \in DOMAIN requests' PROVE key = <<key[1], key[2]>> /\ key[2] \in Ids
  <2>1. CASE key \in DOMAIN requests
    BY <1>1, <2>1 DEF KeysInv
  <2>2. CASE h.m = "request" /\ key = <<TargetOf(reg, h.session), h.id>>
    <3>1. h.id \in Ids
      BY <1>1, <2>2, PassedRest DEF KeysInv
    <3> QED
      BY <2>2, <3>1
  <2> QED
    BY <2>1, <2>2 DEF Remembers
<1>4. KeysInv'
  BY <1>2, <1>3 DEF KeysInv
<1>5. ASSUME NEW r \in Ids, NEW f, f = flight[r]
      PROVE  Seen(f, r)' /\ (r \notin odd' => Ordered(f, r)')
  <2>1. Seen(f, r) /\ (r \notin odd => Ordered(f, r))
    BY <1>5 DEF FlightInv
  <2>2. Seen(f, r)'
    BY <1>1, <2>1, PassedSeen
  <2>3. ASSUME r \notin odd' PROVE Ordered(f, r)'
    BY <1>1, <2>1, <2>3, PassedOrdered
  <2> QED
    BY <2>2, <2>3
<1>6. \A r \in Ids : \A f \in {flight'[r]} : Seen(f, r)' /\ (r \notin odd' => Ordered(f, r)')
  BY <1>1, <1>5
<1> QED
  BY <1>1, <1>4, <1>6 DEF FlightInv

(* The steps that the browser tells of.                                      *)
LEMMA ToldFlight ==
  ASSUME RecordingInv, FlightInv, NEW p, Tells(p), Grows, Ceases(p), requests' = requests, Remains,
         DOMAIN flight' = Ids, odd \subseteq odd',
         \A k \in DOMAIN p : p[k].m = "request" => p[k].id \in Ids,
         \A r \in Ids : \A f \in {flight[r]}, g \in {flight'[r]} :
           \/ Flies(f, g) /\ Asks(p, g, r) /\ Concludes(p, f, g, r)
           \/ Seen(g, r)' /\ (r \notin odd' => Ordered(g, r)')
  PROVE  FlightInv'
<1>1. SessionsInv /\ WireInv
  BY DEF RecordingInv
<1>2. \A k \in DOMAIN wire' : wire'[k].m = "request" => wire'[k].id \in Ids
  BY <1>1, ToldPlaces DEF FlightInv, KeysInv
<1>3. KeysInv'
  BY <1>2 DEF FlightInv, KeysInv
<1>4. ASSUME NEW r \in Ids, NEW g, g = flight'[r]
      PROVE  Seen(g, r)' /\ (r \notin odd' => Ordered(g, r)')
  <2>1. PICK f : f = flight[r]
    OBVIOUS
  <2>2. CASE Flies(f, g) /\ Asks(p, g, r) /\ Concludes(p, f, g, r)
    <3>1. Seen(f, r) /\ (r \notin odd => Ordered(f, r))
      BY <2>1 DEF FlightInv
    <3>2. Seen(g, r)'
      BY <1>1, <2>2, <3>1, ToldSeen
    <3>3. ASSUME r \notin odd' PROVE Ordered(g, r)'
      <4>1. Ordered(f, r)
        BY <3>1, <3>3
      <4> QED
        BY <1>1, <2>2, <3>1, <3>3, <4>1, ToldOrdered
    <3> QED
      BY <3>2, <3>3
  <2>3. CASE Seen(g, r)' /\ (r \notin odd' => Ordered(g, r)')
    BY <2>3
  <2> QED
    BY <1>4, <2>1, <2>2, <2>3
<1>5. \A r \in Ids : \A f \in {flight'[r]} : Seen(f, r)' /\ (r \notin odd' => Ordered(f, r)')
  BY <1>4
<1> QED
  BY <1>3, <1>5 DEF FlightInv

LEMMA SessionsFlight ==
  ASSUME RecordingInv, FlightInv, ToldOfSessions, requests' = requests, Remains,
         DOMAIN flight' = Ids, odd' = odd,
         \A r \in Ids : \A f \in {flight[r]}, g \in {flight'[r]} :
           Seen(f, r) => Flies(f, g) /\ (g.stage = "over" => f.stage = "over")
  PROVE  FlightInv'
<1>1. PICK p : Tells(p) /\ Grows /\ Ceases(p) /\ Others(p)
  BY DEF ToldOfSessions
<1>2. \A k \in DOMAIN p : p[k].m # "request"
  BY <1>1 DEF Others, Traffic
<1>3. ASSUME NEW r \in Ids, NEW f \in {flight[r]}, NEW g \in {flight'[r]}
      PROVE  Flies(f, g) /\ Asks(p, g, r) /\ Concludes(p, f, g, r)
  <2>1. Flies(f, g) /\ (g.stage = "over" => f.stage = "over")
    BY DEF FlightInv
  <2> QED
    BY <1>1, <2>1 DEF Asks, Concludes, Others, Traffic
<1> QED
  BY <1>1, <1>2, <1>3, ToldFlight

(* Nothing becomes of requests unless their target closes or crashes.        *)
LEMMA SameFlight ==
  ASSUME NEW r, NEW f, Seen(f, r), f.stage \in {"sent", "answered"} => doc'[f.target] \in {"own", "other"}
  PROVE  Flies(f, f)
BY DEF Flies

LEMMA DocumentsFlight ==
  ASSUME RecordingInv, FlightInv, NEW t \in Targets, NEW d \in {"own", "other", "blank"},
         NEW together \in BOOLEAN,
         \/ Opens(t, d) \/ Closes(t) \/ Crashes(t)
         \/ d # "blank" /\ Moves(t, d, together)
  PROVE  FlightInv'
<1>1. ToldOfSessions
  BY OpensKeeps, MovesKeeps, ClosesKeeps, CrashesKeeps
<1>2. /\ requests' = requests /\ reg' = reg /\ odd' = odd
      /\ DOMAIN flight = Ids /\ DOMAIN doc = Targets
  BY DEF Opens, Moves, Closes, Crashes, BrowserKeeps, collector, FlightInv, RecordingInv, SessionsInv
<1>3. Remains
  BY <1>2 DEF Remains
<1>4. CASE Opens(t, d) \/ (d # "blank" /\ Moves(t, d, together))
  <2>1. /\ flight' = flight /\ doc' = [doc EXCEPT ![t] = d]
        /\ doc[t] = "closed" \/ d \in {"own", "other"}
    BY <1>4 DEF Opens, Moves
  <2>2. ASSUME NEW r \in Ids, NEW f, Seen(f, r) PROVE Flies(f, f)
    <3>1. f.stage \in {"sent", "answered"} => f.target \in Targets /\ doc[f.target] \in {"own", "other"}
      BY <2>2 DEF Seen, Shows
    <3>2. f.stage \in {"sent", "answered"} => doc'[f.target] \in {"own", "other"}
      BY <1>2, <2>1, <3>1
    <3> QED
      BY <2>2, <3>2, SameFlight
  <2> QED
    BY <1>1, <1>2, <1>3, <2>1, <2>2, SessionsFlight
<1>5. CASE Closes(t) \/ Crashes(t)
  <2>1. flight' = Lost(t) /\ \A x \in Targets : x # t => doc'[x] = doc[x]
    BY <1>2, <1>5 DEF Closes, Crashes
  <2>2. ASSUME NEW r \in Ids, NEW f, f = flight[r], NEW g, g = flight'[r], Seen(f, r)
        PROVE  Flies(f, g) /\ (g.stage = "over" => f.stage = "over")
    <3>1. CASE f.target = t /\ f.stage \in {"sent", "answered", "socket"}
      <4>1. g = [f EXCEPT !.stage = "lost"]
        BY <2>1, <2>2, <3>1 DEF Lost
      <4>2. DOMAIN g = DOMAIN f /\ g.stage = "lost" /\ g.target = f.target /\ g.seen = f.seen
        BY <2>2, <4>1 DEF Seen
      <4> QED
        BY <4>2 DEF Flies
    <3>2. CASE ~(f.target = t /\ f.stage \in {"sent", "answered", "socket"})
      <4>1. g = f
        BY <2>1, <2>2, <3>2 DEF Lost
      <4>2. f.stage \in {"sent", "answered"} => doc'[f.target] \in {"own", "other"}
        BY <2>1, <2>2, <3>2 DEF Seen, Shows
      <4> QED
        BY <2>2, <4>1, <4>2, SameFlight
    <3> QED
      BY <3>1, <3>2
  <2>3. DOMAIN flight' = Ids
    BY <2>1 DEF Lost
  <2> QED
    BY <1>1, <1>2, <1>3, <2>2, <2>3, SessionsFlight
<1> QED
  BY <1>4, <1>5

(* Steps that leave requests and documents as they are.                      *)
LEMMA QuietFlight ==
  ASSUME RecordingInv, FlightInv, ToldOfSessions, Remains,
         UNCHANGED <<requests, flight, doc, odd>>
  PROVE  FlightInv'
<1>1. ASSUME NEW r \in Ids, NEW f, Seen(f, r) PROVE Flies(f, f)
  <2>1. f.stage \in {"sent", "answered"} => doc'[f.target] \in {"own", "other"}
    BY <1>1 DEF Seen, Shows
  <2> QED
    BY <1>1, <2>1, SameFlight
<1>2. DOMAIN flight' = Ids
  BY DEF FlightInv
<1> QED
  BY <1>1, <1>2, SessionsFlight

LEMMA AttachRemains ==
  ASSUME RecordingInv, AttachInv, AttachAnswers
  PROVE  Remains
<1>1. PICK t, n : t = at.target /\ n = opened + 1
  OBVIOUS
<1>2. at.do = "attach" /\ reg' = Registered(reg, t, n, at.shows)
  BY <1>1 DEF AttachAnswers
<1>3. reg'.s2t = Put(Without(reg.s2t, Stale(reg.t2s, t, n)), n, t)
  BY <1>2 DEF RecordingInv, RegistryInv, Sound, Shaped, Fields, Registered
<1>4. Stale(reg.t2s, t, n) = {}
  BY <1>1, <1>2 DEF AttachInv, Stale
<1>5. \A s \in 1 .. opened : s # n
  BY <1>1 DEF RecordingInv, SessionsInv
<1>6. \A s \in 1 .. opened :
        /\ s \in DOMAIN reg'.s2t <=> s \in DOMAIN reg.s2t
        /\ s \in DOMAIN reg.s2t => reg'.s2t[s] = reg.s2t[s]
  BY <1>3, <1>4, <1>5 DEF Put, Without
<1> QED
  BY <1>6 DEF Remains, TargetOf, Get

LEMMA AttachFlight ==
  ASSUME RecordingInv, FlightInv, AttachInv, AttachAnswers, RegistryInv'
  PROVE  FlightInv'
<1>1. ToldOfSessions /\ Remains
  BY AttachKeeps, AttachRemains
<1>2. UNCHANGED <<requests, flight, doc, odd>>
  BY DEF AttachAnswers, history
<1> QED
  BY <1>1, <1>2, QuietFlight

LEMMA ConfigureRemains ==
  ASSUME RecordingInv, NEW granted, Configure(granted)
  PROVE  Remains
<1>1. \E observable, s : reg' = Configured(reg, s, observable, granted)
  BY DEF Configure
<1>2. reg'.s2t = reg.s2t
  BY <1>1 DEF RecordingInv, RegistryInv, Sound, Shaped, Fields, Configured
<1> QED
  BY <1>2 DEF Remains, TargetOf

LEMMA ConfigureFlight ==
  ASSUME RecordingInv, FlightInv, NEW granted, Configure(granted), RegistryInv', RecordingAssumption
  PROVE  FlightInv'
<1>1. ToldOfSessions
  BY ConfigureKeeps
<1>2. UNCHANGED <<requests, flight, doc, odd>>
  BY DEF Configure, history
<1> QED
  BY <1>1, <1>2, ConfigureRemains, QuietFlight

(* The sessions of a target that listen hear of a request.                   *)
Hears(p, t, event) ==
  /\ Tells(p) /\ Grows /\ Ceases(p)
  /\ \A k \in DOMAIN p :
       p[k].m = event.m /\ p[k].id = event.id /\ p[k].session \in Hearing(t)
  /\ \A s \in Hearing(t) : \E k \in DOMAIN p : p[k].session = s

LEMMA HeardTells ==
  ASSUME RecordingInv, NEW t, NEW event, {"m", "session", "id"} \subseteq DOMAIN event,
         Quiet(event), Mute(event), event.m = "socket" => "what" \in DOMAIN event,
         wire' = wire \o ToHearers(t, event),
         UNCHANGED <<doc, attached, opened, enabled>>, BrowserKeeps
  PROVE  \E p : Hears(p, t, event)
<1> DEFINE order == SetToSeq(Hearing(t))
<1>1. PICK p : p = ToHearers(t, event)
  OBVIOUS
<1>2. IsSequence(p) /\ \A k \in DOMAIN p : Quiet(p[k]) /\ p[k].m = event.m
  BY <1>1, ToHearersQuiet DEF RecordingInv
<1>3. p = [k \in DOMAIN order |-> [event EXCEPT !.session = order[k]]]
  BY <1>1 DEF ToHearers, Each
<1>4. IsFiniteSet(Hearing(t))
  BY SessionsFinite DEF RecordingInv, Hearing, SessionsOf
<1>5. /\ \A k \in DOMAIN order : order[k] \in Hearing(t)
      /\ \A s \in Hearing(t) : \E k \in DOMAIN order : order[k] = s
  BY <1>4, SetOrder
<1> HIDE DEF order
<1>6. Grows
  BY Still DEF RecordingInv, BrowserKeeps
<1>7. Tells(p)
  BY <1>1, <1>2, QuietIsSo DEF Tells
<1>8. ASSUME NEW k \in DOMAIN p
      PROVE  p[k].m = event.m /\ p[k].id = event.id /\ p[k].session \in Hearing(t)
  <2>1. p[k] = [event EXCEPT !.session = order[k]] /\ order[k] \in Hearing(t)
    BY <1>3, <1>5
  <2>2. p[k].session = order[k] /\ p[k].id = event.id
    BY <2>1
  <2> QED
    BY <1>2, <2>1, <2>2
<1>9. ASSUME NEW s \in Hearing(t) PROVE \E k \in DOMAIN p : p[k].session = s
  <2>1. PICK k \in DOMAIN order : order[k] = s
    BY <1>5
  <2>2. k \in DOMAIN p /\ p[k] = [event EXCEPT !.session = order[k]]
    BY <1>3, <2>1
  <2>3. p[k].session = s
    BY <2>1, <2>2
  <2> QED
    BY <2>2, <2>3
<1>10. Ceases(p)
  <2>1. \A k \in DOMAIN p : p[k].m \notin {"destroyed", "crashed"}
    BY <1>2 DEF Mute
  <2> QED
    BY <2>1 DEF Ceases
<1> QED
  BY <1>6, <1>7, <1>8, <1>9, <1>10 DEF Hears

LEMMA FewSessions ==
  ASSUME SessionsInv, NEW t, NEW r, r \notin Overheard(t, r)
  PROVE  \A s, u \in SessionsOf(t) : s = u
<1> SUFFICES ASSUME NEW s \in SessionsOf(t), NEW u \in SessionsOf(t), s # u
             PROVE  FALSE
  OBVIOUS
<1>1. IsFiniteSet(SessionsOf(t))
  BY SessionsFinite DEF SessionsOf
<1>2. IsFiniteSet({s}) /\ Cardinality({s}) = 1
  BY FS_Singleton
<1>3. Cardinality({s} \cup {u}) = Cardinality({s}) + 1
  BY <1>2, FS_AddElement
<1>4. Cardinality({s} \cup {u}) <= Cardinality(SessionsOf(t))
  BY <1>1, FS_Subset
<1>5. Cardinality(SessionsOf(t)) \in Nat
  BY <1>1, FS_CardinalityType
<1>6. ~(Cardinality(SessionsOf(t)) > 1)
  BY DEF Overheard
<1> QED
  BY <1>2, <1>3, <1>4, <1>5, <1>6

(* Nothing becomes of the other requests.                                    *)
LEMMA OtherRequests ==
  ASSUME FlightInv, doc' = doc, NEW r \in Ids, NEW p, \A k \in DOMAIN p : p[k].id = r,
         NEW q \in Ids, q # r, NEW f, f = flight[q]
  PROVE  Flies(f, f) /\ Asks(p, f, q) /\ Concludes(p, f, f, q)
<1>1. Seen(f, q)
  BY DEF FlightInv
<1>2. f.stage \in {"sent", "answered"} => doc'[f.target] \in {"own", "other"}
  BY <1>1 DEF Seen, Shows
<1>3. Flies(f, f)
  BY <1>1, <1>2, SameFlight
<1> QED
  BY <1>3 DEF Asks, Concludes

(* A request that starts.                                                    *)
LEMMA StartedSeen ==
  ASSUME RecordingInv', NEW t \in Targets, Shows(t)', NEW r, NEW g,
         DOMAIN g = {"stage", "target", "place", "seen"},
         g.stage = "sent", g.target = t, g.seen = Hearing(t)'
  PROVE  Seen(g, r)'
<1>1. ASSUME NEW s \in g.seen
      PROVE  s \in DOMAIN attached' /\ attached'[s] = t /\ s \in enabled'["network"]
  BY DEF Hearing, SessionsOf
<1>2. ASSUME NEW s \in g.seen PROVE Of(s, t)'
  <2>1. s \in DOMAIN attached' /\ attached'[s] = t
    BY <1>1
  <2>2. s \in 1 .. opened' /\ (s \in DOMAIN reg'.s2t => reg'.s2t[s] = t)
    BY <2>1 DEF RecordingInv, SessionsInv, KeptInv
  <2>3. \A k \in DOMAIN wire' :
          wire'[k].m = "attached" /\ wire'[k].session = s => wire'[k].target = t
    BY <2>1 DEF RecordingInv, WireInv, EventInv
  <2> QED
    BY <2>2, <2>3 DEF Of
<1>3. g.seen \subseteq (SessionsOf(t) \cap enabled["network"])'
  BY <1>1 DEF SessionsOf
<1> QED
  BY <1>2, <1>3 DEF Seen

LEMMA StartedOrdered ==
  ASSUME WireInv, NEW p, Tells(p), requests' = requests, NEW r, NEW g,
         g.stage = "sent", \A s, u \in g.seen : s = u,
         \A k \in DOMAIN p : p[k].m = "request" /\ p[k].session \in g.seen,
         \A k \in 0 .. Len(wire) : ~Kept(k, r)
  PROVE  Ordered(g, r)'
<1>1. /\ Len(wire) \in Nat /\ Len(p) \in Nat /\ Len(wire') = Len(wire) + Len(p)
      /\ DOMAIN wire = 1 .. Len(wire) /\ DOMAIN wire' = 1 .. Len(wire) + Len(p)
      /\ \A k \in DOMAIN wire : k \in DOMAIN wire' /\ wire'[k] = wire[k]
      /\ \A k \in DOMAIN wire' :
           \/ k \in DOMAIN wire /\ k <= Len(wire)
           \/ k > Len(wire) /\ k - Len(wire) \in DOMAIN p /\ wire'[k] = p[k - Len(wire)]
  BY ToldPlaces
<1>2. ASSUME NEW k \in 0 .. Len(wire'), Kept(k, r)' PROVE k > Len(wire)
  <2>1. CASE k = 0
    BY <1>1, <1>2, <2>1 DEF Kept
  <2>2. CASE k \in DOMAIN wire
    <3>1. k # 0 /\ k \in 0 .. Len(wire) /\ wire'[k] = wire[k]
      BY <1>1, <2>2
    <3> QED
      BY <1>2, <3>1 DEF Kept
  <2> QED
    BY <1>1, <2>1, <2>2
<1>3. ASSUME NEW k \in DOMAIN wire', k > Len(wire)
      PROVE  wire'[k].m = "request" /\ wire'[k].session \in g.seen
  BY <1>1, <1>3
<1>4. \A k \in DOMAIN wire' : Kept(k, r)' => wire'[k].session \in g.seen
  <2>1. \A k \in DOMAIN wire' : k \in 0 .. Len(wire')
    BY <1>1
  <2> QED
    BY <1>2, <1>3, <2>1
<1>5. ~Kept(0, r) /\ ~Kept(0, r)'
  BY <1>1 DEF Kept
<1>6. ASSUME NEW s, NEW x PROVE Going(s, x, r)'
  <2>1. Agrees(r, s)'
    BY <1>5 DEF Agrees, Kept
  <2>2. ASSUME NEW k \in 0 .. Len(wire'), Kept(k, r)' PROVE Calm(s, x, k, Len(wire) + 1)'
    <3>1. ASSUME NEW l \in DOMAIN wire', k < l PROVE ~Disturbs(wire'[l], s, x)
      <4>1. l > Len(wire)
        BY <1>1, <1>2, <2>2, <3>1
      <4> QED
        BY <1>3, <4>1 DEF Disturbs
    <3> QED
      BY <3>1 DEF Calm, Disturbs
  <2> QED
    BY <2>1, <2>2 DEF Going
<1> QED
  BY <1>4, <1>5, <1>6 DEF Ordered

LEMMA FetchesFlight ==
  ASSUME RecordingInv, FlightInv, NEW t \in Targets, NEW r \in Ids, NEW own, NEW clear,
         Fetches(t, r, own, clear)
  PROVE  FlightInv'
<1>1. PICK event : event = Requesting("request", r, Place(own, 0, clear), {})
  OBVIOUS
<1>2. PICK g : g = [stage |-> "sent", target |-> t, place |-> Place(own, 0, clear),
                     seen |-> Hearing(t)]
  OBVIOUS
<1>3. /\ UNCHANGED <<doc, attached, opened, enabled>> /\ BrowserKeeps /\ Shows(t)
      /\ flight[r].stage = "none" /\ flight' = [flight EXCEPT ![r] = g]
      /\ wire' = wire \o ToHearers(t, event) /\ odd' = odd \cup Overheard(t, r)
  BY <1>1, <1>2 DEF Fetches, Tell
<1>4. requests' = requests /\ reg' = reg /\ DOMAIN flight = Ids
  BY <1>3 DEF BrowserKeeps, collector, FlightInv
<1>5. /\ {"m", "session", "id"} \subseteq DOMAIN event /\ event.m = "request" /\ event.id = r
      /\ Quiet(event) /\ Mute(event)
  BY <1>1 DEF Requesting, Quiet, Mute
<1>6. PICK p :
        /\ Tells(p) /\ Grows /\ Ceases(p)
        /\ \A k \in DOMAIN p : p[k].m = event.m /\ p[k].id = event.id /\ p[k].session \in Hearing(t)
  BY <1>3, <1>5, HeardTells DEF Hears
<1>7. RecordingInv'
  BY RequestsKeep
<1>8. \A k \in DOMAIN p : p[k].m = "request" /\ p[k].id = r /\ p[k].session \in g.seen
  BY <1>2, <1>5, <1>6
<1>9. Seen(g, r)'
  <2>1. Shows(t)' /\ g.seen = Hearing(t)'
    BY <1>2, <1>3 DEF Shows, Hearing, SessionsOf
  <2> QED
    BY <1>2, <1>7, <2>1, StartedSeen
<1>10. ASSUME r \notin odd' PROVE Ordered(g, r)'
  <2>1. \A s, u \in g.seen : s = u
    BY <1>2, <1>3, <1>10, FewSessions DEF RecordingInv, Hearing
  <2>2. \A k \in 0 .. Len(wire) : ~Kept(k, r)
    BY <1>3 DEF FlightInv, Seen
  <2>3. WireInv /\ g.stage = "sent"
    BY <1>2 DEF RecordingInv
  <2> QED
    BY <1>4, <1>6, <1>8, <2>1, <2>2, <2>3, StartedOrdered
<1>11. ASSUME NEW q \in Ids, NEW f \in {flight[q]}, NEW h \in {flight'[q]}
       PROVE  \/ Flies(f, h) /\ Asks(p, h, q) /\ Concludes(p, f, h, q)
              \/ Seen(h, q)' /\ (q \notin odd' => Ordered(h, q)')
  <2>1. CASE q = r
    <3>1. h = g
      BY <1>3, <1>4, <2>1
    <3> QED
      BY <1>9, <1>10, <2>1, <3>1
  <2>2. CASE q # r
    <3>1. h = f
      BY <1>3, <1>4, <2>2
    <3> QED
      BY <1>3, <1>8, <2>2, <3>1, OtherRequests
  <2> QED
    BY <2>1, <2>2
<1>12. Remains /\ DOMAIN flight' = Ids /\ odd \subseteq odd'
  BY <1>3, <1>4 DEF Remains
<1> QED
  BY <1>4, <1>6, <1>8, <1>11, <1>12, ToldFlight

(* A request r that goes on or ends, in a step that its sessions hear of.    *)
LEMMA HeardFlight ==
  ASSUME RecordingInv, FlightInv, NEW r \in Ids, NEW f, f = flight[r], NEW g,
         flight' = [flight EXCEPT ![r] = g],
         UNCHANGED <<doc, attached, opened, enabled>>, BrowserKeeps, odd \subseteq odd',
         NEW p, Tells(p), Grows, Ceases(p), \A k \in DOMAIN p : p[k].id = r,
         Flies(f, g), Asks(p, g, r), Concludes(p, f, g, r)
  PROVE  FlightInv'
<1>1. requests' = requests /\ reg' = reg /\ DOMAIN flight = Ids
  BY DEF BrowserKeeps, collector, FlightInv
<1>2. Remains /\ DOMAIN flight' = Ids
  BY <1>1 DEF Remains
<1>3. ASSUME NEW q \in Ids, NEW e \in {flight[q]}, NEW h \in {flight'[q]}
      PROVE  Flies(e, h) /\ Asks(p, h, q) /\ Concludes(p, e, h, q)
  <2>1. CASE q = r
    <3>1. e = f /\ h = g
      BY <1>1, <2>1
    <3> QED
      BY <2>1, <3>1
  <2>2. CASE q # r
    <3>1. h = e
      BY <1>1, <2>2
    <3> QED
      BY <2>2, <3>1, OtherRequests
  <2> QED
    BY <2>1, <2>2
<1> QED
  BY <1>1, <1>2, <1>3, ToldFlight

LEMMA RedirectsFlight ==
  ASSUME RecordingInv, FlightInv, NEW r \in Ids, NEW own, NEW clear,
         Redirects(r, own, clear)
  PROVE  FlightInv'
<1>1. PICK f : f = flight[r]
  OBVIOUS
<1>2. PICK next, event :
        next = Place(own, f.place.path + 1, clear) /\ event = Requesting("request", r, next, {f.place})
  OBVIOUS
<1>3. PICK g : g = [f EXCEPT !.place = next]
  OBVIOUS
<1>4. /\ UNCHANGED <<doc, attached, opened, enabled>> /\ BrowserKeeps
      /\ f.stage = "sent" /\ flight' = [flight EXCEPT ![r].place = next]
      /\ wire' = wire \o ToHearers(f.target, event)
  BY <1>1, <1>2 DEF Redirects, Tell
<1>5. flight' = [flight EXCEPT ![r] = g]
  BY <1>1, <1>3, <1>4
<1>6. /\ odd \subseteq odd'
      /\ r \notin odd' => Hearing(f.target) \subseteq f.seen
  BY <1>1 DEF Redirects
<1>7. Seen(f, r)
  BY <1>1 DEF FlightInv
<1>8. /\ {"m", "session", "id"} \subseteq DOMAIN event /\ event.m = "request" /\ event.id = r
      /\ Quiet(event) /\ Mute(event)
  BY <1>2 DEF Requesting, Quiet, Mute
<1>9. PICK p :
        /\ Tells(p) /\ Grows /\ Ceases(p)
        /\ \A k \in DOMAIN p :
             p[k].m = event.m /\ p[k].id = event.id /\ p[k].session \in Hearing(f.target)
  BY <1>4, <1>8, HeardTells DEF Hears
<1>10. DOMAIN g = DOMAIN f /\ g.stage = "sent" /\ g.target = f.target /\ g.seen = f.seen
  BY <1>3, <1>4, <1>7 DEF Seen
<1>11. Flies(f, g)
  BY <1>4, <1>7, <1>10 DEF Flies, Seen, Shows
<1>12. Asks(p, g, r) /\ Concludes(p, f, g, r)
  BY <1>6, <1>9, <1>10 DEF Asks, Concludes
<1> QED
  BY <1>1, <1>4, <1>5, <1>6, <1>8, <1>9, <1>11, <1>12, HeardFlight

LEMMA RespondsFlight ==
  ASSUME RecordingInv, FlightInv, NEW r \in Ids, NEW page, Responds(r, page)
  PROVE  FlightInv'
<1>1. PICK f : f = flight[r]
  OBVIOUS
<1>2. PICK event :
        event = [m |-> "response", session |-> 0, id |-> r, place |-> f.place, page |-> page]
  OBVIOUS
<1>3. PICK g : g = [f EXCEPT !.stage = "answered"]
  OBVIOUS
<1>4. /\ UNCHANGED <<doc, attached, opened, enabled>> /\ BrowserKeeps
      /\ f.stage = "sent" /\ flight' = [flight EXCEPT ![r].stage = "answered"]
      /\ wire' = wire \o ToHearers(f.target, event) /\ odd \subseteq odd'
  BY <1>1, <1>2 DEF Responds, Tell
<1>5. flight' = [flight EXCEPT ![r] = g]
  BY <1>1, <1>3, <1>4
<1>6. Seen(f, r)
  BY <1>1 DEF FlightInv
<1>7. /\ {"m", "session", "id"} \subseteq DOMAIN event /\ event.m = "response" /\ event.id = r
      /\ Quiet(event) /\ Mute(event)
  BY <1>2 DEF Quiet, Mute
<1>8. PICK p :
        /\ Tells(p) /\ Grows /\ Ceases(p)
        /\ \A k \in DOMAIN p :
             p[k].m = event.m /\ p[k].id = event.id /\ p[k].session \in Hearing(f.target)
  BY <1>4, <1>7, HeardTells DEF Hears
<1>9. DOMAIN g = DOMAIN f /\ g.stage = "answered" /\ g.target = f.target /\ g.seen = f.seen
  BY <1>3, <1>4, <1>6 DEF Seen
<1>10. Flies(f, g)
  BY <1>4, <1>6, <1>9 DEF Flies, Seen, Shows
<1>11. Asks(p, g, r) /\ Concludes(p, f, g, r)
  BY <1>7, <1>8, <1>9 DEF Asks, Concludes
<1> QED
  BY <1>1, <1>4, <1>5, <1>7, <1>8, <1>10, <1>11, HeardFlight

LEMMA EndsFlight ==
  ASSUME RecordingInv, FlightInv, NEW r \in Ids, NEW how \in {"finished", "failed"}, Ends(r, how)
  PROVE  FlightInv'
<1>1. PICK f : f = flight[r]
  OBVIOUS
<1>2. PICK event : event = [m |-> how, session |-> 0, id |-> r]
  OBVIOUS
<1>3. PICK g : g = [f EXCEPT !.stage = "over"]
  OBVIOUS
<1>4. /\ UNCHANGED <<doc, attached, opened, enabled>> /\ BrowserKeeps
      /\ f.stage \in {"sent", "answered"} /\ flight' = [flight EXCEPT ![r].stage = "over"]
      /\ wire' = wire \o ToHearers(f.target, event) /\ odd' = odd \cup Overheard(f.target, r)
  BY <1>1, <1>2 DEF Ends, Tell
<1>5. flight' = [flight EXCEPT ![r] = g]
  BY <1>1, <1>3, <1>4
<1>6. Seen(f, r)
  BY <1>1 DEF FlightInv
<1>7. /\ {"m", "session", "id"} \subseteq DOMAIN event /\ event.m = how /\ event.id = r
      /\ Quiet(event) /\ Mute(event) /\ event.m # "socket"
  BY <1>2 DEF Quiet, Mute
<1>8. PICK p : Hears(p, f.target, event)
  BY <1>4, <1>7, HeardTells
<1>9. DOMAIN g = DOMAIN f /\ g.stage = "over" /\ g.target = f.target /\ g.seen = f.seen
  BY <1>3, <1>4, <1>6 DEF Seen
<1>10. Flies(f, g)
  BY <1>4, <1>9 DEF Flies
<1>11. Asks(p, g, r)
  BY <1>7, <1>8 DEF Hears, Asks
<1>12. ASSUME r \notin odd', NEW s \in f.seen
       PROVE  SessionsOf(f.target) = {s} /\ \E k \in DOMAIN p : p[k].id = r /\ p[k].session = s
  <2>1. s \in SessionsOf(f.target) /\ s \in Hearing(f.target)
    BY <1>4, <1>6 DEF Seen, Hearing
  <2>2. \A u \in SessionsOf(f.target) : u = s
    BY <1>4, <1>12, <2>1, FewSessions DEF RecordingInv
  <2> QED
    BY <1>7, <1>8, <2>1, <2>2 DEF Hears
<1>13. Concludes(p, f, g, r)
  BY <1>7, <1>8, <1>12 DEF Hears, Concludes
<1>14. /\ odd \subseteq odd' /\ Tells(p) /\ Grows /\ Ceases(p)
       /\ \A k \in DOMAIN p : p[k].id = r
  BY <1>4, <1>7, <1>8 DEF Hears
<1> QED
  BY <1>1, <1>4, <1>5, <1>10, <1>11, <1>13, <1>14, HeardFlight

LEMMA SocketFlight ==
  ASSUME RecordingInv, FlightInv, NEW r \in Ids, NEW what \in {"created", "frame", "closed"},
         Socket(r, what)
  PROVE  FlightInv'
<1>1. PICK f : f = flight[r]
  OBVIOUS
<1>2. PICK g : g = flight'[r]
  OBVIOUS
<1>3. PICK event : event = [m |-> "socket", session |-> 0, what |-> what, id |-> r, place |-> g.place]
  OBVIOUS
<1>4. /\ UNCHANGED <<doc, attached, opened, enabled, odd>> /\ BrowserKeeps
      /\ wire' = wire \o ToHearers(g.target, event)
  BY <1>2, <1>3 DEF Socket, Tell, Speaks
<1>5. Seen(f, r) /\ DOMAIN flight = Ids
  BY <1>1 DEF FlightInv
<1>6. /\ f.stage \in {"none", "socket"} /\ g.stage \in {"socket", "over"}
      /\ DOMAIN g = DOMAIN f /\ g.seen = f.seen /\ flight' = [flight EXCEPT ![r] = g]
  <2>1. CASE what = "created"
    <3>1. PICK t \in Targets, own \in BOOLEAN :
            flight' = [flight EXCEPT ![r] = [stage |-> "socket", target |-> t, place |-> Place(own, 0, TRUE), seen |-> {}]]
      BY <2>1 DEF Socket
    <3>2. g = [stage |-> "socket", target |-> t, place |-> Place(own, 0, TRUE), seen |-> {}]
      BY <1>2, <1>5, <3>1
    <3>3. DOMAIN g = DOMAIN f /\ g.stage = "socket" /\ g.seen = {}
      BY <1>5, <3>2 DEF Seen
    <3>4. f.stage = "none" /\ f.seen = {}
      BY <1>1, <1>5, <2>1 DEF Socket, Seen
    <3> QED
      BY <3>1, <3>2, <3>3, <3>4
  <2>2. CASE what # "created"
    <3>1. PICK stage \in {"over", "socket"} : flight' = [flight EXCEPT ![r].stage = stage]
      BY <2>2 DEF Socket
    <3>2. g = [f EXCEPT !.stage = stage]
      BY <1>1, <1>2, <1>5, <3>1
    <3>3. DOMAIN g = DOMAIN f /\ g.stage = stage /\ g.seen = f.seen
      BY <1>5, <3>2 DEF Seen
    <3>4. f.stage = "socket"
      BY <1>1, <2>2 DEF Socket
    <3>5. flight' = [flight EXCEPT ![r] = g]
      BY <1>1, <3>1, <3>2
    <3> QED
      BY <3>1, <3>3, <3>4, <3>5
  <2> QED
    BY <2>1, <2>2
<1>7. /\ {"m", "session", "id"} \subseteq DOMAIN event /\ event.m = "socket" /\ event.id = r
      /\ "what" \in DOMAIN event /\ Quiet(event) /\ Mute(event)
  BY <1>3 DEF Quiet, Mute
<1>8. PICK p :
        /\ Tells(p) /\ Grows /\ Ceases(p)
        /\ \A k \in DOMAIN p :
             p[k].m = event.m /\ p[k].id = event.id /\ p[k].session \in Hearing(g.target)
  BY <1>4, <1>7, HeardTells DEF Hears
<1>9. Flies(f, g)
  BY <1>6 DEF Flies
<1>10. Asks(p, g, r) /\ Concludes(p, f, g, r)
  BY <1>6, <1>7, <1>8 DEF Asks, Concludes
<1> QED
  BY <1>1, <1>4, <1>6, <1>7, <1>8, <1>9, <1>10, HeardFlight

LEMMA ClicksFlight ==
  ASSUME RecordingInv, FlightInv, NEW s, NEW w, NEW clear, Clicks(s, w, clear)
  PROVE  FlightInv'
<1>1. UNCHANGED <<requests, flight, doc, odd, reg>>
  BY DEF Clicks, BrowserKeeps, collector
<1>2. Remains
  BY <1>1 DEF Remains
<1> QED
  BY <1>1, <1>2, ClicksKeeps, QuietFlight

LEMMA BrowserFlight ==
  ASSUME RecordingInv, FlightInv, BrowserStep
  PROVE  FlightInv'
<1>1. CASE \E r \in Ids, own \in BOOLEAN : \E clear \in {TRUE, ~own} :
             (\E t \in Targets : Fetches(t, r, own, clear)) \/ Redirects(r, own, clear)
  BY <1>1, FetchesFlight, RedirectsFlight
<1>2. CASE \/ \E r \in Ids, page \in BOOLEAN : Responds(r, page)
           \/ \E r \in Ids, how \in {"finished", "failed"} : Ends(r, how)
           \/ \E r \in Ids, what \in {"created", "frame", "closed"} : Socket(r, what)
  BY <1>2, RespondsFlight, EndsFlight, SocketFlight
<1>3. CASE \/ \E t \in Targets, d \in {"own", "other", "blank"} : Opens(t, d)
           \/ \E t \in Targets, d \in {"own", "other"}, together \in BOOLEAN : Moves(t, d, together)
           \/ \E t \in Targets : Closes(t) \/ Crashes(t)
  BY <1>3, DocumentsFlight
<1> QED
  BY <1>1, <1>2, <1>3, ClicksFlight DEF BrowserStep

-----------------------------------------------------------------------------
(* The attachment to targets.                                                *)
LEMMA AttachKept ==
  ASSUME AttachInv, listed' = listed, at'.do # "attach" \/ at' = at,
         DOMAIN reg'.t2s = DOMAIN reg.t2s \/ (listed = {} /\ at'.do # "attach")
  PROVE  AttachInv'
BY DEF AttachInv

LEMMA ConsumeAttach ==
  ASSUME RecordingInv, AttachInv, Consume
  PROVE  AttachInv'
<1>1. ASSUME NEW t \in Pages, Bootstrap(t) PROVE AttachInv'
  <2>1. /\ at'.do = "attach" /\ at'.target = t /\ t \in listed /\ listed' = listed \ {t} /\ reg' = reg
    BY <1>1 DEF Bootstrap, Attaching
  <2> QED
    BY <2>1 DEF AttachInv
<1>2. CASE AttachAnswers
  <2>1. PICK t, n : t = at.target /\ n = opened + 1
    OBVIOUS
  <2>2. /\ at.do = "attach" /\ reg' = Registered(reg, t, n, at.shows) /\ listed' = listed
        /\ at' = Configuring(n, TRUE)
    BY <1>2, <2>1 DEF AttachAnswers
  <2>3. reg'.t2s = Put(Without(reg.t2s, Stale(reg.s2t, n, t)), t, n)
    BY <2>2 DEF RecordingInv, RegistryInv, Sound, Shaped, Fields, Registered
  <2>4. DOMAIN reg'.t2s \subseteq DOMAIN reg.t2s \cup {t}
    BY <2>3 DEF Put, Without
  <2>5. at'.do # "attach"
    BY <2>2 DEF Configuring
  <2> QED
    BY <2>1, <2>2, <2>4, <2>5 DEF AttachInv
<1>3. CASE AttachFails
  <2>1. at'.do # "attach" /\ listed' = listed /\ reg' = reg
    BY <1>3 DEF AttachFails
  <2> QED
    BY <2>1, AttachKept
<1>4. ASSUME NEW granted \in Grants, Configure(granted) PROVE AttachInv'
  <2>1. \E s, observable : reg' = Configured(reg, s, observable, granted)
    BY <1>4 DEF Configure
  <2>2. reg'.t2s = reg.t2s
    BY <2>1 DEF RecordingInv, RegistryInv, Sound, Shaped, Fields, Configured
  <2>3. at'.do # "attach" /\ listed' = listed
    BY <1>4 DEF Configure, Free
  <2> QED
    BY <2>2, <2>3, AttachKept
<1>5. CASE TargetTold
  <2>1. PICK t, shows : t = Head(wire).target /\ shows = Head(wire).shows
    OBVIOUS
  <2>2. listed = {} /\ listed' = {}
    BY <1>5 DEF TargetTold, Takes
  <2>3. CASE t \in DOMAIN reg.t2s
    <3>1. at' = Configuring(reg.t2s[t], TRUE) \/ at' = Free
      BY <1>5, <2>1, <2>3 DEF TargetTold
    <3>2. at'.do # "attach"
      BY <3>1 DEF Configuring, Free
    <3> QED
      BY <2>2, <3>2 DEF AttachInv
  <2>4. CASE t \notin DOMAIN reg.t2s
    <3>1. reg' = reg /\ (at' = Attaching(t, shows) \/ at' = Free)
      BY <1>5, <2>1, <2>4 DEF TargetTold
    <3>2. at'.do = "attach" => at'.target = t
      BY <3>1 DEF Attaching, Free
    <3> QED
      BY <2>2, <2>4, <3>1, <3>2 DEF AttachInv
  <2> QED
    BY <2>3, <2>4
<1>6. CASE SessionTold
  <2>1. listed = {} /\ listed' = {} /\ at.do = "free"
    BY <1>6 DEF SessionTold, Takes
  <2>2. at' = at \/ at' = Free \/ \E s, observable : at' = Configuring(s, observable)
    BY <1>6 DEF SessionTold
  <2>3. at'.do # "attach"
    BY <2>1, <2>2 DEF Configuring, Free
  <2> QED
    BY <2>1, <2>3 DEF AttachInv
<1>7. CASE SessionGone \/ TargetGone
  <2>1. listed = {} /\ listed' = {} /\ at.do = "free" /\ at' = at
    BY <1>7 DEF SessionGone, TargetGone, Takes
  <2> QED
    BY <2>1 DEF AttachInv
<1>8. CASE \/ ContextCreated \/ ContextsCleared \/ ContextDestroyed \/ ActionTold
           \/ RequestTold \/ ResponseTold \/ EndTold \/ SocketTold
  <2>1. listed' = listed /\ at' = at /\ reg' = reg
    BY <1>8 DEF ContextCreated, ContextsCleared, ContextDestroyed, Mirrors, ActionTold, RequestTold, ResponseTold,
       EndTold, SocketTold, Network
  <2> QED
    BY <2>1 DEF AttachInv
<1> QED
  BY <1>1, <1>2, <1>3, <1>4, <1>5, <1>6, <1>7, <1>8 DEF Consume

(* Steps that neither send, nor handle, nor learn anything.                  *)
LEMMA IdleFlight ==
  ASSUME FlightInv,
         UNCHANGED <<doc, attached, opened, enabled, wire, reg, requests, flight, odd>>
  PROVE  FlightInv'
<1>1. KeysInv'
  BY DEF FlightInv, KeysInv
<1>2. ASSUME NEW r \in Ids, NEW f, f = flight[r]
      PROVE  Seen(f, r)' /\ (r \notin odd' => Ordered(f, r)')
  <2>1. Seen(f, r) /\ (r \notin odd => Ordered(f, r))
    BY <1>2 DEF FlightInv
  <2>2. Seen(f, r)'
    BY <2>1 DEF Seen, Kept, Shows, SessionsOf, Of
  <2>3. ASSUME r \notin odd' PROVE Ordered(f, r)'
    BY <2>1, <2>3 DEF Ordered, Kept, Going, Ending, Agrees, Calm, Disturbs, SessionsOf
  <2> QED
    BY <2>2, <2>3
<1>3. \A r \in Ids : \A f \in {flight'[r]} : Seen(f, r)' /\ (r \notin odd' => Ordered(f, r)')
  BY <1>2
<1> QED
  BY <1>1, <1>3 DEF FlightInv

LEMMA ConsumeFlight ==
  ASSUME RecordingInv, AttachInv, FlightInv, Consume, RecordingAssumption
  PROVE  FlightInv'
<1>1. RegistryInv'
  BY ConsumerKeeps DEF RecordingInv
<1>2. CASE (\E t \in Pages : Bootstrap(t)) \/ AttachFails
  <2>1. UNCHANGED <<doc, attached, opened, enabled, wire, reg, requests, flight, odd>>
    BY <1>2 DEF Bootstrap, AttachFails, Serves
  <2> QED
    BY <2>1, IdleFlight
<1>3. CASE TargetTold \/ SessionTold \/ SessionGone \/ TargetGone
  BY <1>3, RegistryPasses, PassedFlight
<1>4. CASE \/ ContextCreated \/ ContextsCleared \/ ContextDestroyed \/ ActionTold
           \/ RequestTold \/ ResponseTold \/ EndTold \/ SocketTold
  BY <1>4, NetworkPasses, PassedFlight
<1> QED
  BY <1>1, <1>2, <1>3, <1>4, AttachFlight, ConfigureFlight DEF Consume

LEMMA InitFlight ==
  ASSUME Init, RecordingInv
  PROVE  AttachInv /\ FlightInv
<1> DEFINE o == SetToSeq({t \in Targets : doc[t] # "closed"})
<1>1. /\ wire = [k \in DOMAIN o |-> [m |-> "targetCreated", target |-> o[k], shows |-> doc[o[k]]]]
      /\ requests = <<>> /\ at = Free /\ reg = NoTargets
      /\ flight = [r \in Ids |-> [stage |-> "none", target |-> None, place |-> Place(FALSE, 0, TRUE), seen |-> {}]]
  BY DEF Init, Each
<1>2. AttachInv
  <2>1. at.do = "free" /\ DOMAIN reg.t2s = {}
    BY <1>1 DEF Free, NoTargets
  <2> QED
    BY <2>1 DEF AttachInv
<1> HIDE DEF o
<1>3. \A k \in DOMAIN wire : wire[k].m = "targetCreated"
  BY <1>1
<1>4. DOMAIN requests = {}
  BY <1>1, Empty
<1>5. KeysInv
  BY <1>3, <1>4 DEF KeysInv
<1>6. ASSUME NEW r, NEW k \in 0 .. Len(wire), Kept(k, r) PROVE FALSE
  <2>1. CASE k = 0
    BY <1>4, <1>6, <2>1 DEF Kept
  <2>2. CASE k # 0
    <3>1. Len(wire) \in Nat /\ DOMAIN wire = 1 .. Len(wire)
      BY Appended DEF RecordingInv, WireInv
    <3> QED
      BY <1>3, <1>6, <2>2, <3>1 DEF Kept
  <2> QED
    BY <2>1, <2>2
<1>7. ASSUME NEW r \in Ids, NEW f, f = flight[r] PROVE Seen(f, r) /\ Ordered(f, r)
  <2>1. /\ DOMAIN f = {"stage", "target", "place", "seen"} /\ f.stage = "none" /\ f.seen = {}
    BY <1>1, <1>7
  <2>2. Seen(f, r)
    BY <1>6, <2>1 DEF Seen
  <2>3. ~Kept(0, r) /\ \A k \in DOMAIN wire : ~Kept(k, r)
    BY <1>3, <1>4 DEF Kept
  <2> QED
    BY <2>1, <2>2, <2>3 DEF Ordered
<1>8. DOMAIN flight = Ids
  BY <1>1
<1> QED
  BY <1>2, <1>5, <1>7, <1>8 DEF FlightInv

LEMMA FlightHolds == Spec => [](RecordingInv /\ AttachInv /\ FlightInv)
<1> DEFINE Inv == RecordingInv /\ AttachInv /\ FlightInv
<1>1. Init => Inv
  BY InitInv, InitFlight, RecordingAssumption
<1>2. Inv /\ [Next]_vars => Inv'
  <2> SUFFICES ASSUME RecordingInv, AttachInv, FlightInv, [Next]_vars PROVE Inv'
    OBVIOUS
  <2>1. CASE UNCHANGED vars
    <3>1. UNCHANGED <<at, doc, attached, opened, enabled, wire, reg, contexts, log, departed>>
      BY <2>1 DEF vars, browser, collector, history
    <3>2. UNCHANGED <<listed, requests, flight, odd>>
      BY <2>1 DEF vars, browser, collector, history
    <3>3. AtInv'
      BY <3>1 DEF RecordingInv, AtInv, Present
    <3>4. RecordingInv'
      BY <3>1, <3>3, WaitingKeeps
    <3>5. AttachInv'
      BY <3>1, <3>2 DEF AttachInv
    <3>6. FlightInv'
      BY <3>1, <3>2, IdleFlight
    <3> QED
      BY <3>4, <3>5, <3>6
  <2>2. CASE BrowserStep
    <3>1. UNCHANGED <<listed, at, reg>>
      BY <2>2, BrowserStepsKeep DEF BrowserKeeps, collector
    <3>2. AttachInv'
      BY <3>1 DEF AttachInv
    <3> QED
      BY <2>2, <3>2, BrowserStepKeeps, BrowserFlight
  <2>3. CASE Consume
    BY <2>3, ConsumeKeeps, ConsumeAttach, ConsumeFlight, RecordingAssumption
  <2> QED
    BY <2>1, <2>2, <2>3 DEF Next
<1> QED
  BY <1>1, <1>2, PTL DEF Spec

(* When nothing is left in the queue, the contexts known are those that      *)
(* exist.                                                                    *)
LEMMA CaughtUpContexts ==
  ASSUME RecordingInv, wire = <<>>, NEW s \in DOMAIN attached \cap DOMAIN reg.s2t, NEW w \in Worlds
  PROVE  /\ w \in Live(s) <=> <<s, w>> \in DOMAIN contexts
         /\ w \in Live(s) => contexts[<<s, w>>].origin = doc[attached[s]]
<1>1. Len(wire) = 0 /\ DOMAIN wire = {}
  BY Empty
<1>2. ASSUME w \in Live(s)
      PROVE  <<s, w>> \in DOMAIN contexts /\ contexts[<<s, w>>].origin = doc[attached[s]]
  <2>1. PICK k \in 0 .. Len(wire) : Has(k, s, w) /\ Origin(k, s, w) = doc[attached[s]]
    BY <1>2 DEF RecordingInv, MirrorInv, NoneLess
  <2>2. k = 0
    BY <1>1
  <2> QED
    BY <2>1, <2>2 DEF Has, Origin
<1>3. ASSUME <<s, w>> \in DOMAIN contexts PROVE w \in Live(s)
  <2>1. Has(0, s, w) /\ 0 \in 0 .. Len(wire)
    BY <1>1, <1>3 DEF Has
  <2>2. s \in Present /\ s \in enabled["binding"]
    <3>1. PICK k \in DOMAIN contexts : k = <<s, w>>
      BY <1>3
    <3>2. k[1] \in Present /\ Granted(enabled, k[1], k[2]) /\ k[1] = s
      BY <3>1 DEF RecordingInv, KeptInv
    <3> QED
      BY <3>2 DEF Granted
  <2>3. ~Wiped(s, w, 0)
    BY <1>1 DEF Wiped
  <2>4. (w = "observer" => s \in enabled["script"]) /\ Shows(attached[s])
    BY <2>1, <2>2, <2>3 DEF RecordingInv, MirrorInv, NoneMore
  <2> QED
    BY <2>2, <2>4 DEF Live
<1> QED
  BY <1>2, <1>3

(* And no request is kept that has ended.                                    *)
LEMMA CaughtUpRequests ==
  ASSUME FlightInv, wire = <<>>, NEW key \in DOMAIN requests, key[2] \notin odd
  PROVE  flight[key[2]].stage \in {"sent", "answered", "lost"}
<1>1. PICK r, f : r = key[2] /\ f = flight[r]
  OBVIOUS
<1>2. r \in Ids
  BY <1>1 DEF FlightInv, KeysInv
<1>3. Seen(f, r) /\ Ordered(f, r)
  BY <1>1, <1>2 DEF FlightInv
<1>4. Len(wire) = 0 /\ DOMAIN wire = {} /\ 0 \in 0 .. Len(wire)
  BY Empty
<1>5. Kept(0, r)
  BY <1>1 DEF Kept
<1>6. f.stage \notin {"none", "socket"}
  BY <1>3, <1>4, <1>5 DEF Seen
<1>7. f.stage # "over"
  <2>1. PICK s : s \in f.seen
    BY <1>3, <1>5 DEF Ordered
  <2> QED
    BY <1>3, <1>4, <1>5, <2>1 DEF Ordered, Ending
<1> QED
  BY <1>1, <1>3, <1>6, <1>7 DEF Seen

(* However targets, sessions, documents and requests come and go while their *)
(* events wait in the queue: once the consumer has handled them all, the     *)
(* contexts it knows of the sessions it has registered are those that exist, *)
(* of the documents they are in; no request is kept that has ended, unless   *)
(* this request itself was heard by two sessions, attached to in the middle  *)
(* of its redirects or led in from elsewhere; and nothing is ever kept of a  *)
(* session whose end was handled.                                            *)
THEOREM NothingStaleRemains == Spec => []NothingStale
<1>1. RecordingInv /\ AttachInv /\ FlightInv => CaughtUp
  BY CaughtUpContexts, CaughtUpRequests DEF CaughtUp
<1>2. RecordingInv => NothingSurvives
  BY DEF RecordingInv, KeptInv, Present, NothingSurvives
<1>3. RecordingInv /\ AttachInv /\ FlightInv => NothingStale
  BY <1>1, <1>2 DEF NothingStale
<1> QED
  BY <1>3, FlightHolds, PTL

=============================================================================
