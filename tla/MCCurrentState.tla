--------------------------- MODULE MCCurrentState ---------------------------
(* Two sessions that see overlapping things: a roster of one company, a page *)
(* the parser does not know, goods of a unit on no roster, goods that a      *)
(* later page leaves out.  A third starts half a second after the second,    *)
(* which started at a whole second.                                          *)
EXTENDS CurrentState

CONSTANTS s1, s2, s3, b1, b2

Rebuilders == Permutations({b1, b2})

Roster(units, readable) ==
  [kind |-> "roster", company |-> "c", units |-> units, readable |-> readable]

Goods(unit, products, readable) ==
  [kind |-> "goods", unit |-> unit, products |-> products, readable |-> readable]

MCEvents ==
  (s1 :> <<Roster({"u", "v"}, TRUE), Goods("u", {"p", "q"}, TRUE), Goods("w", {"p"}, TRUE)>>
   @@ s3 :> <<Goods("u", {"q"}, TRUE)>>
   @@ s2 :> <<Goods("u", {"p"}, TRUE), [kind |-> "other"], Roster({"u"}, TRUE),
              Goods("v", {"q"}, FALSE), Roster({"v"}, FALSE)>>)

MCRank == s1 :> 1 @@ s2 :> 2 @@ s3 :> 3

MCTextRank == s1 :> 1 @@ s2 :> 3 @@ s3 :> 2
=============================================================================
