------------------------------- MODULE Replay -------------------------------
(* What a set of finished sessions says about companies, units and products: *)
(* build_replay_snapshot (current/replay.py) with the projections of         *)
(* current/company_units.py and current/products.py, and the consistency     *)
(* rules of CurrentStateSnapshot (current/model.py).                         *)
(*                                                                           *)
(* Page contents are abstracted to the ids they list and to whether the      *)
(* parser recognizes their structure.  A page that breaks the typed artifact *)
(* contract ends the replay with an error and is not enumerated: collectors  *)
(* write artifacts only through the contract's own encoder.                  *)
EXTENDS Naturals, Sequences, SequencesExt

CONSTANTS
  Session,  \* finished sessions
  Company, Unit, Product,
  Events,   \* Events[s]: the events of session s, in sequence order
  Rank,     \* position of a session by (instant of started_at, session_id)
  TextRank, \* the same by the text of started_at: "...:00.5Z" sorts before "...:00Z"
  Backwards \* sessions the clock of which went back: ended_at before started_at

(* A roster page of a company that lists units, a goods page of a unit that  *)
(* lists products, or an event the projection has no use for.                *)
RosterEvent == [kind: {"roster"}, company: Company, units: SUBSET Unit \ {{}},
                readable: BOOLEAN]

GoodsEvent == [kind: {"goods"}, unit: Unit, products: SUBSET Product, readable: BOOLEAN]

Event == RosterEvent \cup GoodsEvent \cup [kind: {"other"}]

ASSUME ReplayAssumption ==
  /\ IsFiniteSet(Session)
  /\ Events \in [Session -> Seq(Event)]
  /\ Rank \in [Session -> Nat] /\ TextRank \in [Session -> Nat]
  /\ \A s, t \in Session : Rank[s] = Rank[t] \/ TextRank[s] = TextRank[t] => s = t
  /\ Backwards \subseteq Session

-----------------------------------------------------------------------------
(* Where an observation was made: source_session_id and source_sequence.     *)
At(s, i) == [session |-> s, sequence |-> i - 1]

Positions(S) == UNION {{<<s, i>> : i \in 1..Len(Events[s])} : s \in S}

(* The ledger: sessions in the order of their instants, then of session_id.  *)
Ordered(S) ==
  [i \in 1 .. Cardinality(S) |->
     CHOOSE s \in S : Cardinality({t \in S : Rank[t] < Rank[s]}) = i - 1]

(* What has been learnt: dictionaries that later observations overwrite.     *)
NothingKnown == [companies |-> <<>>, units |-> <<>>, rows |-> <<>>,
                 surfaces |-> <<>>, stale |-> FALSE]

Put(dictionary, keys, value) ==
  [k \in DOMAIN dictionary \cup keys |-> IF k \in keys THEN value ELSE dictionary[k]]

(* Mutant: a roster page is the whole truth about its company's units.       *)
ApplyRosterAsWhole(known, event, at) ==
  IF event.readable
    THEN [known EXCEPT
            !.companies = Put(@, {event.company}, at),
            !.units = Put([u \in {v \in DOMAIN @ : @[v].company # event.company} |-> @[u]],
                          event.units, [company |-> event.company, at |-> at])]
    ELSE [known EXCEPT !.stale = TRUE]

(* A roster adds and overwrites; a unit it does not list stays as it was.    *)
ApplyRoster(known, event, at) ==
  IF event.readable
    THEN [known EXCEPT
            !.companies = Put(@, {event.company}, at),
            !.units = Put(@, event.units, [company |-> event.company, at |-> at])]
    ELSE [known EXCEPT !.stale = TRUE]

ApplyGoods(known, event, at) ==
  [known EXCEPT
     !.rows = IF event.readable THEN Put(@, {event.unit} \X event.products, at) ELSE @,
     !.surfaces = Put(@, {event.unit},
                      [status |-> IF event.readable THEN "ready" ELSE "stale", at |-> at])]

Apply(known, s, i) ==
  LET event == Events[s][i]
      at == At(s, i)
  IN  CASE event.kind = "roster" -> ApplyRoster(known, event, at)
        [] event.kind = "goods" -> ApplyGoods(known, event, at)
        [] OTHER -> known

ReplaySession(known, s) ==
  FoldLeftDomain(LAMBDA before, i : Apply(before, s, i), known, Events[s])

Replayed(S) == FoldLeft(ReplaySession, NothingKnown, Ordered(S))

-----------------------------------------------------------------------------
Only(dictionary, keys) == [k \in DOMAIN dictionary \cap keys |-> dictionary[k]]

(* Product rows of units on a roster, product rows of other units, and one   *)
(* surface for every unit on a roster, unknown when its goods were not seen. *)
Snapshot(S) ==
  LET known == Replayed(S)
      units == DOMAIN known.units
      ours == {k \in DOMAIN known.rows : k[1] \in units}
  IN  [ledger |-> S,
       stale |-> known.stale,
       companies |-> known.companies,
       units |-> known.units,
       products |-> {k[2] : k \in DOMAIN known.rows},
       unitProducts |-> Only(known.rows, ours),
       orphans |-> Only(known.rows, DOMAIN known.rows \ ours),
       surfaces |-> [u \in units |->
                       IF u \in DOMAIN known.surfaces THEN known.surfaces[u]
                                                      ELSE [status |-> "unknown"]]]

(* What CurrentStateSnapshot demands of any snapshot.                        *)
InLedger(snapshot, at) ==
  /\ at.session \in snapshot.ledger
  /\ at.sequence < Len(Events[at.session])

ValidDomain(snapshot) ==
  /\ \A c \in DOMAIN snapshot.companies : InLedger(snapshot, snapshot.companies[c])
  /\ \A u \in DOMAIN snapshot.units :
       /\ snapshot.units[u].company \in DOMAIN snapshot.companies
       /\ InLedger(snapshot, snapshot.units[u].at)
  /\ \A k \in DOMAIN snapshot.unitProducts :
       /\ k[1] \in DOMAIN snapshot.units /\ k[2] \in snapshot.products
       /\ InLedger(snapshot, snapshot.unitProducts[k])
  /\ \A k \in DOMAIN snapshot.orphans :
       /\ k[1] \notin DOMAIN snapshot.units /\ k[2] \in snapshot.products
       /\ InLedger(snapshot, snapshot.orphans[k])
  /\ \A u \in DOMAIN snapshot.surfaces :
       /\ u \in DOMAIN snapshot.units
       /\ snapshot.surfaces[u].status # "unknown" => InLedger(snapshot, snapshot.surfaces[u].at)

(* What it demands of the ledger: sessions that end after they start, in the *)
(* order of the texts of started_at, which need not be that of the instants. *)
ValidLedger(S) ==
  /\ S \cap Backwards = {}
  /\ \A i, j \in DOMAIN Ordered(S) : i < j => TextRank[Ordered(S)[i]] < TextRank[Ordered(S)[j]]

Accepted(S) == ValidLedger(S) /\ ValidDomain(Snapshot(S))

-----------------------------------------------------------------------------
(* The reference: for each thing, the last observation of it.                *)
EventAt(position) == Events[position[1]][position[2]]

Later(a, b) == \/ Rank[a[1]] > Rank[b[1]]
               \/ a[1] = b[1] /\ a[2] > b[2]

IsLast(at, positions) ==
  \E p \in positions : /\ at = At(p[1], p[2])
                       /\ \A q \in positions : q = p \/ Later(p, q)

RostersOf(S, u) ==
  {p \in Positions(S) : /\ EventAt(p).kind = "roster" /\ EventAt(p).readable
                        /\ u \in EventAt(p).units}

GoodsOf(S, u) == {p \in Positions(S) : EventAt(p).kind = "goods" /\ EventAt(p).unit = u}

RowsOf(S, u, product) ==
  {p \in GoodsOf(S, u) : EventAt(p).readable /\ product \in EventAt(p).products}

(* No session ends before it starts, and no two start in one order by their  *)
(* instants and in the other by the texts of them.                           *)
ClocksAgree(S) ==
  /\ \A s \in S : s \notin Backwards
  /\ \A s, t \in S : Rank[s] < Rank[t] => TextRank[s] < TextRank[t]

(* A snapshot keeps the latest positive observation of each thing and        *)
(* forgets nothing because a later page left it out.                         *)
KeepsLatest(snapshot) ==
  LET S == snapshot.ledger IN
  /\ \A u \in Unit :
       /\ u \in DOMAIN snapshot.units <=> RostersOf(S, u) # {}
       /\ u \in DOMAIN snapshot.units => IsLast(snapshot.units[u].at, RostersOf(S, u))
       /\ u \in DOMAIN snapshot.units =>
            \/ GoodsOf(S, u) = {} /\ snapshot.surfaces[u].status = "unknown"
            \/ IsLast(snapshot.surfaces[u].at, GoodsOf(S, u))
  /\ \A u \in Unit, product \in Product :
       LET rows == IF u \in DOMAIN snapshot.units THEN snapshot.unitProducts ELSE snapshot.orphans
       IN  /\ <<u, product>> \in DOMAIN rows <=> RowsOf(S, u, product) # {}
           /\ <<u, product>> \in DOMAIN rows => IsLast(rows[<<u, product>>], RowsOf(S, u, product))
  /\ snapshot.stale <=> \E p \in Positions(S) : EventAt(p).kind = "roster" /\ ~EventAt(p).readable
=============================================================================
