------------------------------- MODULE Targets --------------------------------
(* The registry of attached targets and the bookkeeping of their set-up, as  *)
(* operators from one state to the next: TargetRegistry and                  *)
(* TargetOrchestrator (collector/targets.py).  A state `reg` has the two     *)
(* dictionaries of the registry and what it knows of each target, and the    *)
(* orchestrator's three sets of sessions.                                    *)
EXTENDS Naturals

(* Dictionaries: an absent key is outside the domain.                        *)
Put(f, k, v) == [x \in DOMAIN f \cup {k} |-> IF x = k THEN v ELSE f[x]]
Without(f, ks) == [x \in DOMAIN f \ ks |-> f[x]]
Get(f, k, default) == IF k \in DOMAIN f THEN f[k] ELSE default

NoTargets ==
  [t2s |-> <<>>, s2t |-> <<>>, info |-> <<>>,
   configured |-> {}, bound |-> {}, observing |-> {}]

Commands == {"network", "binding", "script", "adopt"}

-----------------------------------------------------------------------------
(* TargetRegistry.                                                           *)

(* What the dictionaries lose before the pair is entered.                    *)
Stale(f, k, v) == IF k \in DOMAIN f /\ f[k] # v THEN {f[k]} ELSE {}

(* Mutant: the session's earlier target is forgotten, the target's earlier   *)
(* session is not.                                                           *)
RegisterOver(reg, t, s, info) ==
  [reg EXCEPT !.t2s = Put(Without(@, Stale(reg.s2t, s, t)), t, s),
              !.s2t = Put(@, s, t),
              !.info = Put(@, t, info)]

Registered(reg, t, s, info) ==
  [reg EXCEPT !.t2s = Put(Without(@, Stale(reg.s2t, s, t)), t, s),
              !.s2t = Put(Without(@, Stale(reg.t2s, t, s)), s, t),
              !.info = Put(@, t, info)]

TargetRemoved(reg, t) ==
  [reg EXCEPT !.t2s = Without(@, {t}),
              !.s2t = Without(@, {reg.t2s[x] : x \in {t} \cap DOMAIN reg.t2s}),
              !.info = Without(@, {t})]

SessionRemoved(reg, s) ==
  LET gone == {reg.s2t[x] : x \in {s} \cap DOMAIN reg.s2t}
  IN [reg EXCEPT !.s2t = Without(@, {s}), !.t2s = Without(@, gone), !.info = Without(@, gone)]

Paired(reg) ==
  /\ \A t \in DOMAIN reg.t2s : reg.t2s[t] \in DOMAIN reg.s2t /\ reg.s2t[reg.t2s[t]] = t
  /\ \A s \in DOMAIN reg.s2t : reg.s2t[s] \in DOMAIN reg.t2s /\ reg.t2s[reg.s2t[s]] = s

TargetOf(reg, s) == Get(reg.s2t, s, "none")

-----------------------------------------------------------------------------
(* The sets of the orchestrator.                                             *)

Discarded(reg, ss) ==
  [reg EXCEPT !.configured = @ \ ss, !.bound = @ \ ss, !.observing = @ \ ss]

(* targetDestroyed and targetCrashed.                                        *)
Terminated(reg, t) ==
  Discarded(TargetRemoved(reg, t), {reg.t2s[x] : x \in {t} \cap DOMAIN reg.t2s})

(* detachedFromTarget.  Mutant: a session the registry no longer lists is    *)
(* taken for one that was already cleaned up.                                *)
DetachedIfListed(reg, s) ==
  IF s \in DOMAIN reg.s2t THEN Discarded(SessionRemoved(reg, s), {s}) ELSE reg

Detached(reg, s) == Discarded(SessionRemoved(reg, s), {s})

-----------------------------------------------------------------------------
(* _configure_session: which commands are sent, and what is remembered when  *)
(* the browser grants some of them and refuses the others.                   *)

FirstSetup(reg, s) == s \notin reg.configured

Observes(reg, s, observable) == observable /\ s \notin reg.observing

(* Runtime.enable and Runtime.addBinding are sent once, the script until it  *)
(* is accepted.                                                              *)
BindingAsked(reg, s, observable) == Observes(reg, s, observable) /\ s \notin reg.bound

ScriptAsked(reg, s, observable, granted) ==
  /\ Observes(reg, s, observable)
  /\ s \in reg.bound \/ "binding" \in granted

Asked(reg, s, observable, granted) ==
  (IF FirstSetup(reg, s) THEN {"network", "adopt"} ELSE {})
    \cup (IF BindingAsked(reg, s, observable) THEN {"binding"} ELSE {})
    \cup (IF ScriptAsked(reg, s, observable, granted) THEN {"script"} ELSE {})

Configured(reg, s, observable, granted) ==
  LET done == Asked(reg, s, observable, granted) \cap granted
  IN [reg EXCEPT !.configured = @ \cup {s},
                 !.bound = @ \cup (IF "binding" \in done THEN {s} ELSE {}),
                 !.observing = @ \cup (IF "script" \in done THEN {s} ELSE {})]

=============================================================================
