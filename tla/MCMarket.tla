------------------------------- MODULE MCMarket -------------------------------
(* Two writers: what was answered to one request at a second and half way    *)
(* through it; both have the first to append.  A database that is there      *)
(* already holds a page of another surface.                                  *)
EXTENDS Market

CONSTANTS v, w

Answered(surface, at, response) ==
  [surface |-> surface, key |-> surface, at |-> at, sequence |-> at, response |-> response]

Early == Answered("vendors", 2, "x")
Late == Answered("vendors", 3, "x")
City == Answered("city", 2, "y")

MCContent == {Early, Late}
MCWork == [p \in {v, w} |-> IF p = v THEN {Early, Late} ELSE {Early}]

Alien == [EmptyFile EXCEPT !.tables = {"other"}]
Made == Initialised([EmptyFile EXCEPT !.wal = TRUE])

MCExisting ==
  {NoFile, EmptyFile, Alien, [Alien EXCEPT !.application = 2], [Made EXCEPT !.version = 2],
   [Made EXCEPT !.rows = {Observation(0, City, [clock |-> 2, offset |-> 0])}]}
================================================================================
