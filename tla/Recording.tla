------------------------------ MODULE Recording -------------------------------
(* From the browser's events to the records of a session: the consumer       *)
(* _consume_events with its pipeline (collector/runtime.py), the targets and *)
(* the requests it keeps track of (modules Targets, Requests) and the        *)
(* contexts of actions (collector/actions.py).                               *)
(*                                                                           *)
(* The consumer is one task that handles one event at a time, but the        *)
(* browser does not wait for it: events queue up in `wire` while it handles  *)
(* one, and the answer to a command overtakes those events.  So what the     *)
(* consumer learns by commands is newer than what it learns by events.       *)
EXTENDS Extraction

CONSTANTS
  Pages, Frames,   \* targets: tabs, and frames that a tab's session adopts
  MaxSessions,     \* bound on sessions the browser opens
  MaxSteps,        \* bound on what happens in the browser
  MaxWire,         \* bound on the queue
  MaxHops,         \* bound on the hops of a request
  Ids,             \* request ids
  Grants           \* what a configuration may be granted: subsets of Commands

Targets == Pages \cup Frames

RecordingAssumption ==
  /\ Pages \cap Frames = {} /\ IsFiniteSet(Targets)
  /\ Commands \in Grants /\ {} \in Grants /\ Grants \subseteq SUBSET Commands

ASSUME RecordingAssumption

VARIABLES
  \* the browser
  doc,       \* what each target shows: "closed", "blank", "own", "other" or "crashed"
  attached,  \* open sessions, to their target
  opened,    \* number of sessions ever opened
  enabled,   \* per command, the sessions that were granted it
  flight,    \* requests under way
  steps,     \* what happened so far
  wire,      \* events under way to the consumer
  \* the collector
  listed,    \* tabs that bootstrap has still to attach to
  at,        \* what the consumer is in the middle of
  reg,       \* the registry and the sets of the orchestrator
  contexts,  \* execution contexts, by session and context id
  requests,  \* requests under way
  sockets,   \* web sockets open
  log,       \* what was recorded
  \* history
  departed,  \* sessions whose end the consumer has handled
  odd        \* requests that the browser's doings set apart

browser == <<doc, attached, opened, enabled, flight, steps, wire>>
collector == <<listed, at, reg, contexts, requests, sockets, log>>
history == <<departed, odd>>
vars == <<browser, collector, history>>

-----------------------------------------------------------------------------
(* The browser.                                                              *)

Worlds == {"observer", "page"}

SessionsOf(t) == {s \in DOMAIN attached : attached[s] = t}

Shows(t) == doc[t] \in {"own", "other"}

(* The contexts of a session: the page's own if its runtime is enabled, and  *)
(* the observer's if the script runs as well.  An id is used again by the    *)
(* next document.                                                            *)
Live(s) ==
  IF ~Shows(attached[s]) THEN {}
  ELSE {w \in Worlds : s \in enabled["binding"] /\ (w = "observer" => s \in enabled["script"])}

Tell(events) == wire' = wire \o events

Each(S, Event(_)) == LET order == SetToSeq(S) IN [k \in DOMAIN order |-> Event(order[k])]

Info(what, t) == [m |-> what, target |-> t, shows |-> doc'[t]]

ContextOf(s, w, origin) == [m |-> "contextCreated", session |-> s, id |-> w, world |-> w, origin |-> origin]

(* The contexts of the last document end together or one by one.             *)
NewDocument(t, d, together) ==
  LET told == SessionsOf(t) \cap enabled["binding"]
      shown == {c \in told \X Worlds : c[2] = "observer" => c[1] \in enabled["script"]}
  IN (IF together
      THEN Each(told, LAMBDA s : [m |-> "contextsCleared", session |-> s])
      ELSE Each(shown, LAMBDA c : [m |-> "contextDestroyed", session |-> c[1], id |-> c[2]]))
       \o Each(shown, LAMBDA c : ContextOf(c[1], c[2], d))

Happens == steps < MaxSteps /\ steps' = steps + 1 /\ Len(wire) < MaxWire /\ at.do # "failed"

BrowserKeeps == UNCHANGED <<collector, departed>>

(* A session that adopts children learns of new ones.                        *)
Adopters == {s \in enabled["adopt"] \cap DOMAIN attached : attached[s] \in Pages}

Opens(t, d) ==
  /\ Happens /\ doc[t] = "closed" /\ d \in {"own", "other", "blank"}
  /\ t \in Frames => \E p \in Pages : doc[p] # "closed"
  /\ doc' = [doc EXCEPT ![t] = d]
  /\ IF t \in Frames /\ Adopters # {} /\ opened < MaxSessions
     THEN /\ opened' = opened + 1
          /\ attached' = Put(attached, opened + 1, t)
          /\ Tell(<<Info("targetCreated", t), [m |-> "attached", session |-> opened + 1,
                                                target |-> t, shows |-> d]>>)
     ELSE /\ Tell(<<Info("targetCreated", t)>>)
          /\ UNCHANGED <<attached, opened>>
  /\ UNCHANGED <<enabled, flight, odd>> /\ BrowserKeeps

Moves(t, d, together) ==
  /\ Happens /\ doc[t] # "closed"
  /\ doc' = [doc EXCEPT ![t] = d]
  /\ Tell(NewDocument(t, d, together) \o <<Info("infoChanged", t)>>)
  /\ UNCHANGED <<attached, opened, enabled, flight, odd>> /\ BrowserKeeps

(* The requests of a document that is gone end without a word.               *)
Lost(t) ==
  [r \in Ids |-> IF flight[r].target = t /\ flight[r].stage \in {"sent", "answered", "socket"}
                 THEN [flight[r] EXCEPT !.stage = "lost"] ELSE flight[r]]

(* Sessions end before the target is gone, or are ended without it.          *)
Closes(t) ==
  /\ Happens /\ doc[t] # "closed"
  /\ t \in Pages => \A f \in Frames : doc[f] = "closed"
  /\ doc' = [doc EXCEPT ![t] = "closed"]
  /\ attached' = Without(attached, SessionsOf(t))
  /\ flight' = Lost(t)
  /\ Tell(Each(SessionsOf(t), LAMBDA s : [m |-> "detached", session |-> s])
            \o <<[m |-> "destroyed", target |-> t]>>)
  /\ UNCHANGED <<opened, enabled, odd>> /\ BrowserKeeps

(* A crashed target keeps its sessions: they work again after a reload.      *)
Crashes(t) ==
  /\ Happens /\ Shows(t)
  /\ doc' = [doc EXCEPT ![t] = "crashed"]
  /\ flight' = Lost(t)
  /\ Tell(<<[m |-> "crashed", target |-> t]>>)
  /\ UNCHANGED <<attached, opened, enabled, odd>> /\ BrowserKeeps

(* An action in a document, perhaps in a form that goes somewhere: the truth *)
(* about it travels along as a ghost.                                        *)
Clicks(s, w, clear) ==
  /\ Happens /\ s \in DOMAIN attached /\ w \in Live(s)
  /\ Tell(<<[m |-> "bindingCalled", session |-> s, id |-> w, clear |-> clear,
             truth |-> [target |-> attached[s], world |-> w, shows |-> doc[attached[s]]]]>>)
  /\ UNCHANGED <<doc, attached, opened, enabled, flight, odd>> /\ BrowserKeeps

Hearing(t) == {s \in SessionsOf(t) : s \in enabled["network"]}

ToHearers(t, event) == Each(Hearing(t), LAMBDA s : [event EXCEPT !.session = s])

Place(own, n, clear) == [own |-> own, path |-> n, clear |-> clear]

Requesting(what, r, place, from) ==
  [m |-> what, session |-> 0, id |-> r, place |-> place, from |-> from]

(* A request goes to a place and may be redirected from there to others; its *)
(* response comes from the last.  `seen`: the sessions that heard it start.  *)
(* A request is odd from when two sessions of its target hear of it.         *)
Overheard(t, r) == IF Cardinality(SessionsOf(t)) > 1 THEN {r} ELSE {}

Fetches(t, r, own, clear) ==
  /\ Happens /\ Shows(t) /\ flight[r].stage = "none"
  /\ LET place == Place(own, 0, clear) IN
       /\ flight' = [flight EXCEPT ![r] = [stage |-> "sent", target |-> t, place |-> place,
                                          seen |-> Hearing(t)]]
       /\ Tell(ToHearers(t, Requesting("request", r, place, {})))
  /\ odd' = odd \cup Overheard(t, r)
  /\ UNCHANGED <<doc, attached, opened, enabled>> /\ BrowserKeeps

(* So is one that a session hears redirected without having heard it start,  *)
(* and one that leads from elsewhere to a first-party place.                 *)
Redirects(r, own, clear) ==
  /\ Happens /\ flight[r].stage = "sent" /\ flight[r].place.path < MaxHops
  /\ LET f == flight[r]
         next == Place(own, f.place.path + 1, clear)
     IN /\ flight' = [flight EXCEPT ![r].place = next]
        /\ Tell(ToHearers(f.target, Requesting("request", r, next, {f.place})))
        /\ odd' = odd \cup Overheard(f.target, r)
                      \cup (IF Hearing(f.target) \subseteq f.seen THEN {} ELSE {r})
                      \cup (IF own /\ ~f.place.own THEN {r} ELSE {})
  /\ UNCHANGED <<doc, attached, opened, enabled>> /\ BrowserKeeps

Responds(r, page) ==
  /\ Happens /\ flight[r].stage = "sent"
  /\ flight' = [flight EXCEPT ![r].stage = "answered"]
  /\ Tell(ToHearers(flight[r].target,
            [m |-> "response", session |-> 0, id |-> r, place |-> flight[r].place, page |-> page]))
  /\ odd' = odd \cup Overheard(flight[r].target, r)
  /\ UNCHANGED <<doc, attached, opened, enabled>> /\ BrowserKeeps

Ends(r, how) ==
  /\ Happens /\ flight[r].stage \in {"sent", "answered"}
  /\ how = "finished" => flight[r].stage = "answered"
  /\ flight' = [flight EXCEPT ![r].stage = "over"]
  /\ Tell(ToHearers(flight[r].target, [m |-> how, session |-> 0, id |-> r]))
  /\ odd' = odd \cup Overheard(flight[r].target, r)
  /\ UNCHANGED <<doc, attached, opened, enabled>> /\ BrowserKeeps

(* Web sockets have ids of their own.                                        *)
Speaks(what, r, place) ==
  ToHearers(flight'[r].target, [m |-> "socket", session |-> 0, what |-> what, id |-> r, place |-> place])

Socket(r, what) ==
  /\ Happens
  /\ IF what = "created"
     THEN /\ flight[r].stage = "none"
          /\ \E t \in Targets, own \in BOOLEAN :
               /\ Shows(t)
               /\ flight' = [flight EXCEPT ![r] = [stage |-> "socket", target |-> t, place |-> Place(own, 0, TRUE), seen |-> {}]]
     ELSE /\ flight[r].stage = "socket"
          /\ flight' = [flight EXCEPT ![r].stage = IF what = "closed" THEN "over" ELSE "socket"]
  /\ Tell(Speaks(what, r, flight'[r].place))
  /\ UNCHANGED <<doc, attached, opened, enabled, odd>> /\ BrowserKeeps

-----------------------------------------------------------------------------
(* The consumer.                                                             *)

Free == [do |-> "free"]

Serves == UNCHANGED <<doc, attached, opened, enabled, flight, steps, odd>>

(* _configure_session: the commands, as far as the browser grants them.  A   *)
(* session that is gone is granted nothing, which the consumer tolerates.    *)
Revealed(s, granted) ==
  LET worlds == (IF "binding" \in granted THEN {"page"} ELSE {})
                  \cup (IF "script" \in granted THEN {"observer"} ELSE {})
  IN IF Shows(attached[s]) THEN Each(worlds, LAMBDA w : ContextOf(s, w, doc[attached[s]])) ELSE <<>>

Adopted(s, granted) ==
  IF "adopt" \in granted /\ attached[s] \in Pages
  THEN {f \in Frames : doc[f] # "closed" /\ SessionsOf(f) = {}}
  ELSE {}

Configure(granted) ==
  /\ at.do = "configure"
  /\ LET s == at.session
         asked == Asked(reg, s, at.observable, granted)
         given == asked \cap granted
         children == Adopted(s, given)
         order == SetToSeq(children)
         id(f) == opened + CHOOSE k \in DOMAIN order : order[k] = f
     IN /\ granted \in Grants
        /\ s \notin DOMAIN attached => granted = {}
        /\ reg' = Configured(reg, s, at.observable, granted)
        /\ enabled' = [c \in Commands |-> enabled[c] \cup (IF c \in given THEN {s} ELSE {})]
        /\ opened + Cardinality(children) <= MaxSessions
        /\ opened' = opened + Cardinality(children)
        /\ IF given = {} THEN UNCHANGED <<wire, attached>>
           ELSE /\ attached' = [x \in DOMAIN attached \cup {id(f) : f \in children} |->
                                  IF x \in DOMAIN attached THEN attached[x] ELSE order[x - opened]]
                /\ Tell(Revealed(s, given)
                          \o Each(children, LAMBDA f : [m |-> "attached", session |-> id(f),
                                                        target |-> f, shows |-> doc[f]]))
  /\ at' = Free
  /\ UNCHANGED <<doc, flight, steps, listed, contexts, requests, sockets, log, history>>

Configuring(s, observable) == [do |-> "configure", session |-> s, observable |-> observable]

(* _attach_page.  The event that tells of the session follows its answer; an *)
(* error is not tolerated.                                                   *)
Attaching(t, shows) == [do |-> "attach", target |-> t, shows |-> shows]

AttachAnswers ==
  /\ at.do = "attach" /\ doc[at.target] # "closed" /\ opened < MaxSessions
  /\ opened' = opened + 1
  /\ attached' = Put(attached, opened + 1, at.target)
  /\ Tell(<<[m |-> "attached", session |-> opened + 1, target |-> at.target, shows |-> doc[at.target]]>>)
  /\ reg' = Registered(reg, at.target, opened + 1, at.shows)
  /\ at' = Configuring(opened + 1, TRUE)
  /\ UNCHANGED <<doc, enabled, flight, steps, listed, contexts, requests, sockets, log, history>>

AttachFails ==
  /\ at.do = "attach" /\ doc[at.target] = "closed"
  /\ at' = [do |-> "failed"]
  /\ Serves /\ UNCHANGED <<wire, listed, reg, contexts, requests, sockets, log, departed>>

(* bootstrap attaches to the first-party tabs of a list, one by one, before  *)
(* the consumer takes its first event.                                       *)
Bootstrap(t) ==
  /\ at.do = "free" /\ t \in listed
  /\ listed' = listed \ {t}
  /\ at' = Attaching(t, "own")
  /\ Serves /\ UNCHANGED <<wire, reg, contexts, requests, sockets, log, departed>>

Takes(m) == at.do = "free" /\ listed = {} /\ wire # <<>> /\ Head(wire).m \in m /\ wire' = Tail(wire)

-----------------------------------------------------------------------------
(* TargetOrchestrator.handle_event.                                          *)

TargetTold ==
  /\ Takes({"targetCreated", "infoChanged"})
  /\ LET t == Head(wire).target
         shows == Head(wire).shows
     IN IF t \in DOMAIN reg.t2s
        THEN /\ reg' = [reg EXCEPT !.info = Put(@, t, shows)]
             /\ at' = IF shows = "own" THEN Configuring(reg.t2s[t], TRUE) ELSE Free
        ELSE /\ at' = IF t \in Pages /\ shows = "own" THEN Attaching(t, shows) ELSE Free
             /\ UNCHANGED reg
  /\ Serves /\ UNCHANGED <<listed, contexts, requests, sockets, log, departed>>

(* A target whose address is still empty is heard but not observed; one that *)
(* is known to be foreign is left alone.                                     *)
SessionTold ==
  /\ Takes({"attached"})
  /\ LET e == Head(wire) IN
       IF TargetOf(reg, e.session) # None THEN UNCHANGED <<reg, at>>
       ELSE /\ reg' = Registered(reg, e.target, e.session, e.shows)
            /\ at' = CASE e.shows = "own"   -> Configuring(e.session, TRUE)
                       [] e.shows = "blank" -> Configuring(e.session, FALSE)
                       [] OTHER -> Free
  /\ Serves /\ UNCHANGED <<listed, contexts, requests, sockets, log, departed>>

(* CollectorEventPipeline.clear_session: of the session the event names, or  *)
(* the one its target had before the event is handled.                       *)
Cleared(ss) == Without(contexts, {k \in DOMAIN contexts : k[1] \in ss})

SessionGone ==
  /\ Takes({"detached"})
  /\ LET s == Head(wire).session IN
       /\ reg' = Detached(reg, s)
       /\ contexts' = Cleared({s})
       /\ departed' = departed \cup {s}
  /\ UNCHANGED at
  /\ Serves /\ UNCHANGED <<listed, requests, sockets, log>>

TargetGone ==
  /\ Takes({"destroyed", "crashed"})
  /\ LET t == Head(wire).target IN
       /\ reg' = Terminated(reg, t)
       /\ contexts' = Cleared({reg.t2s[x] : x \in {t} \cap DOMAIN reg.t2s})
  /\ UNCHANGED at
  /\ Serves /\ UNCHANGED <<listed, requests, sockets, log, departed>>

-----------------------------------------------------------------------------
(* handle_runtime.                                                           *)

Mirrors(m, next) ==
  /\ Takes({m})
  /\ contexts' = next
  /\ Serves /\ UNCHANGED <<listed, at, reg, requests, sockets, log, departed>>

ContextCreated ==
  LET e == Head(wire) IN
  Mirrors("contextCreated", Put(contexts, <<e.session, e.id>>, [world |-> e.world, origin |-> e.origin]))

ContextsCleared == Mirrors("contextsCleared", Cleared({Head(wire).session}))

ContextDestroyed ==
  Mirrors("contextDestroyed", Without(contexts, {<<Head(wire).session, Head(wire).id>>}))

(* Mutant: the binding is enough, whatever page it is called from.           *)
ObservedAnywhere(e) ==
  <<e.session, e.id>> \in DOMAIN contexts /\ contexts[<<e.session, e.id>>].world = "observer"

(* An action counts if its context is the observer's on a first-party page.  *)
Observed(e) ==
  LET key == <<e.session, e.id>> IN
  key \in DOMAIN contexts /\ contexts[key].world = "observer" /\ contexts[key].origin = "own"

(* The correlator may link an action to requests recorded before it, and a   *)
(* request to the action it follows (module Correlator says which).          *)
Links(records) ==
  LET n == Len(records)
      partners(what) == {k \in 1..n : records[k].what = what /\ records[k].target = records[n].target}
      link(a, r) == [what |-> "link", action |-> a, request |-> r]
  IN {<<>>} \cup CASE records[n].what = "action"  -> {<<link(n, k)>> : k \in partners("request")}
                   [] records[n].what = "request" -> {<<link(k, n)>> : k \in partners("action")}
                   [] OTHER -> {}

(* _append_observation.                                                      *)
Records(entries) ==
  IF entries = <<>> THEN UNCHANGED log
  ELSE \E links \in Links(log \o entries) : log' = log \o entries \o links

(* What an action says of its element and form is left out, but for whether  *)
(* the path of the form is clear.                                            *)
ActionEntry(e) ==
  [what |-> "action", target |-> TargetOf(reg, e.session), truth |-> e.truth, clear |-> e.clear]

ActionTold ==
  /\ Takes({"bindingCalled"})
  /\ Records(IF Observed(Head(wire)) THEN <<ActionEntry(Head(wire))>> ELSE <<>>)
  /\ Serves /\ UNCHANGED <<listed, at, reg, contexts, requests, sockets, departed>>

-----------------------------------------------------------------------------
(* handle_network_with_body.  The body of a page is asked for before the end *)
(* of its request is recorded; the browser may not have it any more.         *)

Key(e) == <<TargetOf(reg, e.session), e.id>>

Network(m, state(_), entries(_)) ==
  /\ Takes(m)
  /\ requests' = state(Head(wire))
  /\ Records(entries(Head(wire)))
  /\ Serves /\ UNCHANGED <<listed, at, reg, contexts, sockets, departed>>

RequestTold ==
  Network({"request"},
    LAMBDA e : RequestState(requests, Key(e), e.place, e.from),
    LAMBDA e : RequestRecords(requests, Key(e), e.place, e.from))

ResponseTold ==
  Network({"response"},
    LAMBDA e : ResponseState(requests, Key(e), e.place, e.page),
    LAMBDA e : ResponseRecords(requests, Key(e), e.place))

EndTold ==
  \E body \in BOOLEAN :
    /\ body => wire # <<>> /\ Head(wire).m \in {"finished", "failed"}
               /\ Capturable(requests, Key(Head(wire)), Head(wire).m)
    /\ Network({"finished", "failed"},
         LAMBDA e : EndState(requests, Key(e), e.m),
         LAMBDA e : EndRecords(requests, Key(e), e.m, body))

SocketTold ==
  /\ Takes({"socket"})
  /\ LET e == Head(wire) IN
       /\ sockets' = SocketState(sockets, e.what, e.id, e.place)
       /\ log' = log \o SocketRecords(sockets, e.what, TargetOf(reg, e.session), e.id, e.place)
  /\ Serves /\ UNCHANGED <<listed, at, reg, contexts, requests, departed>>

-----------------------------------------------------------------------------
Init ==
  /\ doc \in [Targets -> {"closed", "own"}] /\ \A f \in Frames : doc[f] = "closed"
  /\ attached = <<>> /\ opened = 0
  /\ enabled = [c \in Commands |-> {}]
  /\ flight = [r \in Ids |-> [stage |-> "none", target |-> None, place |-> Place(FALSE, 0, TRUE), seen |-> {}]]
  /\ steps = 0
  /\ wire = Each({t \in Targets : doc[t] # "closed"},
                 LAMBDA t : [m |-> "targetCreated", target |-> t, shows |-> doc[t]])
  /\ listed = {p \in Pages : doc[p] = "own"}
  /\ at = Free /\ reg = NoTargets
  /\ contexts = <<>> /\ requests = <<>> /\ sockets = {} /\ log = <<>>
  /\ departed = {} /\ odd = {}

BrowserStep ==
  \/ \E t \in Targets, d \in {"own", "other", "blank"} : Opens(t, d)
  \/ \E t \in Targets, d \in {"own", "other"}, together \in BOOLEAN : Moves(t, d, together)
  \/ \E t \in Targets : Closes(t) \/ Crashes(t)
  \/ \E s \in DOMAIN attached, w \in Worlds, clear \in BOOLEAN : Clicks(s, w, clear)
  \/ \E r \in Ids, own \in BOOLEAN : \E clear \in {TRUE, ~own} :
       (\E t \in Targets : Fetches(t, r, own, clear)) \/ Redirects(r, own, clear)
  \/ \E r \in Ids, page \in BOOLEAN : Responds(r, page)
  \/ \E r \in Ids, how \in {"finished", "failed"} : Ends(r, how)
  \/ \E r \in Ids, what \in {"created", "frame", "closed"} : Socket(r, what)

Consume ==
  \/ \E t \in Pages : Bootstrap(t)
  \/ AttachAnswers \/ AttachFails
  \/ \E granted \in Grants : Configure(granted)
  \/ TargetTold \/ SessionTold \/ SessionGone \/ TargetGone
  \/ ContextCreated \/ ContextsCleared \/ ContextDestroyed \/ ActionTold
  \/ RequestTold \/ ResponseTold \/ EndTold \/ SocketTold

Next == BrowserStep \/ Consume

Spec == Init /\ [][Next]_vars

-----------------------------------------------------------------------------
(* The two dictionaries of the registry are inverse to each other, however   *)
(* targets come, go and come again: no event is recorded for a target that   *)
(* another session has taken over.                                           *)
RegistryInverse == Paired(reg)

(* Once the consumer has handled the end of a session, nothing it keeps      *)
(* mentions the session, whatever answers and events come later.             *)
NothingSurvives ==
  \A s \in departed :
    /\ s \notin DOMAIN reg.s2t
    /\ s \notin reg.configured \cup reg.bound \cup reg.observing
    /\ \A k \in DOMAIN contexts : k[1] # s

(* An action is recorded only if it was made in the observer's world of a    *)
(* document that was first-party then, whatever the tab shows by the time    *)
(* the event is handled, and never for another target.                       *)
ActionsAreTrue ==
  \A n \in DOMAIN log :
    log[n].what = "action" =>
      /\ log[n].truth.world = "observer" /\ log[n].truth.shows = "own"
      /\ log[n].target \in {log[n].truth.target, None}

(* When the consumer has handled everything there is, the contexts it knows  *)
(* of the sessions it has registered are those that exist, and it keeps none *)
(* of the requests that came to an end.                                      *)
CaughtUp ==
  at.do = "free" /\ listed = {} /\ wire = <<>> =>
    /\ \A s \in DOMAIN attached \cap DOMAIN reg.s2t, w \in Worlds :
         /\ w \in Live(s) <=> <<s, w>> \in DOMAIN contexts
         /\ w \in Live(s) => contexts[<<s, w>>].origin = doc[attached[s]]
    /\ \A k \in DOMAIN requests :
         k[2] \in odd \/ flight[k[2]].stage \in {"sent", "answered", "lost"}

(* Neither what has ended nor what the browser has moved on from stays with  *)
(* the consumer (_remove_terminal_target, clear_session, _requests.pop).     *)
NothingStale == NothingSurvives /\ CaughtUp

(* If the change detector refuses what was recorded, the record it refuses   *)
(* is at fault itself: a form path or a place that is not clear, or a record *)
(* of a request that two sessions heard, that was under way when its target  *)
(* was attached to, or that came from elsewhere; or there are too many       *)
(* sources of relations.  No link of an action and a request is ever         *)
(* refused, and no record of a request for what became of another.           *)
SourcesTo(n) == {k \in 1 .. n : log[k].what \in {"request", "action"}}

AtFault(n) ==
  \/ log[n].what \in {"request", "response"} /\ (log[n].id \in odd \/ ~log[n].clear)
  \/ log[n].what = "action" /\ ~log[n].clear
  \/ log[n].what \in {"request", "action"} /\ Cardinality(SourcesTo(n)) > SourceLimit

RecordsAreExtractable ==
  LET n == Extracted(log).refused IN n # 0 => n \in DOMAIN log /\ AtFault(n)

(* No record that is clear is refused: ExtractionIntegrityError says of what *)
(* it is raised for that it is "structurally inconsistent with collector     *)
(* semantics" (changes/extract.py:39), and the collector recorded it.        *)
RecordsAreConsistent ==
  LET n == Extracted(log).refused IN n # 0 => ~log[n].clear

=============================================================================
