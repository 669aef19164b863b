---------------------------------- MODULE Store ----------------------------------
(* The SQLite read model: readmodel/store.py, with the projections that it   *)
(* is built from (readmodel/runtime.py, RuntimeProjection).                  *)
(*                                                                           *)
(* The state of the model is what the tables say; this module says how       *)
(* records become rows, how rows become records again and what is refused,   *)
(* how a page and a search are answered.                                     *)
EXTENDS Records, Evidence

CONSTANTS
  MaxEvidence,     \* _MAX_EVIDENCE_REFS_PER_HIT
  Bm25(_, _)       \* score of a record for a text, smaller is better

-----------------------------------------------------------------------------
(* _initialize and the reading of the rows that validates them.              *)

Rows(records) ==
  [items |-> {[ref |-> r.ref, kind |-> r.kind, title |-> r.title, body |-> r.body] :
                r \in Range(records)},
   aliases |-> UNION {{<<r.ref, Normal(a), a>> : a \in Range(r.aliases)} : r \in Range(records)},
   evidence |-> UNION {{<<r.ref, i, r.evidence[i]>> : i \in DOMAIN r.evidence} :
                         r \in Range(records)},
   fts |-> {<<r.ref, r.title, FlattenSeq(r.aliases), r.body>> : r \in Range(records)}]

AliasesOf(rows, ref) ==
  LET mine == {row \in rows.aliases : row[1] = ref}
      ordered == Ordered(mine, LAMBDA x, y : Before(x[2], y[2]))
  IN [i \in DOMAIN ordered |-> ordered[i][3]]

(* Mutant: validation reads what a search hit reads.                         *)
EvidenceOfHit(rows, ref) ==
  [i \in {row[2] : row \in {row \in rows.evidence : row[1] = ref /\ row[2] <= MaxEvidence}} |->
     (CHOOSE row \in rows.evidence : row[1] = ref /\ row[2] = i)[3]]

EvidenceOf(rows, ref) ==
  [i \in {row[2] : row \in {row \in rows.evidence : row[1] = ref}} |->
     (CHOOSE row \in rows.evidence : row[1] = ref /\ row[2] = i)[3]]

ReadBack(rows) ==
  LET items == Ordered(rows.items, LAMBDA x, y : Before(x.ref, y.ref))
  IN [i \in DOMAIN items |->
        Record(items[i].ref, items[i].kind, items[i].title, AliasesOf(rows, items[i].ref),
               items[i].body, EvidenceOf(rows, items[i].ref))]

FtsAgrees(rows, records) ==
  rows.fts = {<<r.ref, r.title, FlattenSeq(r.aliases), r.body>> : r \in Range(records)}

(* _validate_identity: the rows are those that the fingerprints are of.      *)
Validates(projection) ==
  LET rows == Rows(projection)
  IN /\ Cardinality(rows.items) = Len(projection)
     /\ Cardinality(rows.fts) = Len(projection)
     /\ ReadBack(rows) = projection
     /\ FtsAgrees(rows, ReadBack(rows))

RuntimeAccepted(sessions, changes) ==
  /\ Keyed(sessions, LAMBDA s : s.session)
  /\ \A c, d \in changes : c.profile = d.profile /\ c.change = d.change => c = d

(* What is hashed to the generation, and what readers find in the tables.    *)
Index(projection, sessions, changes) ==
  [records |-> projection, sessions |-> Range(sessions), changes |-> changes]

-----------------------------------------------------------------------------
(* Pages in the order of two keys: one row more is asked for than returned.  *)

(* Mutant: a page goes on after the first key alone.                         *)
FollowsFirstKey(key, after) == key[1] > after[1]

Follows(key, after) == key[1] > after[1] \/ (key[1] = after[1] /\ key[2] > after[2])

Page(rows, Key(_), after, limit) ==
  LET following == {r \in rows : after = <<>> \/ Follows(Key(r), after)}
      ordered == Ordered(following, LAMBDA r, s : Before(Key(r), Key(s)))
      selected == SubSeq(ordered, 1, IF Len(ordered) > limit THEN limit + 1 ELSE Len(ordered))
  IN [items |-> SubSeq(selected, 1, IF Len(selected) > limit THEN limit ELSE Len(selected)),
      more |-> Len(selected) > limit]

SessionKey(row) == <<row.started, row.session>>
ChangeKey(row) == <<row.profile, row.change>>

HasSignal(row) == row.warnings > 0 \/ row.anomalies > 0 \/ row.uncorrelated > 0

SessionPage(index, limit, after) == Page(index.sessions, SessionKey, after, limit)

SessionSignalPage(index, limit, after) ==
  Page({row \in index.sessions : HasSignal(row)}, SessionKey, after, limit)

(* The scope of all profiles.                                                *)
Anything == 0

ChangePage(index, limit, profile, after) ==
  Page({row \in index.changes : profile = Anything \/ row.profile = profile}, ChangeKey, after, limit)

-----------------------------------------------------------------------------
(* The search: by ref, by alias, by title, then by words.                    *)

Tiers == <<"exact_ref", "exact_alias", "exact_title", "full_text">>

WordsOf(record) ==
  Tokens(record.title) \cup (UNION {Tokens(a) : a \in Range(record.aliases)}) \cup Tokens(record.body)

Meets(record, text, tier) ==
  CASE tier = "exact_ref" -> record.ref = text
    [] tier = "exact_alias" -> Normal(text) \in {Normal(a) : a \in Range(record.aliases)}
    [] tier = "exact_title" -> Normal(record.title) = Normal(text)
    [] tier = "full_text" -> Tokens(text) # {} /\ Tokens(text) \subseteq WordsOf(record)

Selected(index, text, kinds, tier) ==
  {r \in Range(index.records) : (kinds = {} \/ r.kind \in kinds) /\ Meets(r, text, tier)}

InTier(index, text, kinds, tier) ==
  Ordered(Selected(index, text, kinds, tier), LAMBDA r, s :
    LET score == IF tier = "full_text" THEN Bm25(r, text) ELSE 0
        other == IF tier = "full_text" THEN Bm25(s, text) ELSE 0
    IN score < other \/ (score = other /\ Before(r.ref, s.ref)))

(* Mutant: as many rows as are still wanted, among them ones already seen.   *)
FullTextLimitRemaining(limit, hits) == limit - Len(hits)

FullTextLimit(limit, hits) == (limit - Len(hits)) + Len(hits)

First(rows, n) == SubSeq(rows, 1, IF n < Len(rows) THEN n ELSE Len(rows))

Hit(record, tier) ==
  [ref |-> record.ref, match |-> tier, evidence |-> First(record.evidence, MaxEvidence)]

AppendRows(hits, rows, tier, limit) ==
  FoldLeft(LAMBDA found, r :
             IF Len(found) >= limit \/ r.ref \in {found[i].ref : i \in DOMAIN found} THEN found
             ELSE Append(found, Hit(r, tier)), hits, rows)

Search(index, text, limit, kinds) ==
  FoldLeft(LAMBDA hits, tier :
             LET rows == InTier(index, text, kinds, tier)
             IN AppendRows(hits, IF tier = "full_text" THEN First(rows, FullTextLimit(limit, hits))
                                 ELSE rows, tier, limit), <<>>, Tiers)

=============================================================================
