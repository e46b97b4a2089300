--------------------------- MODULE MCResponseFlow ---------------------------
EXTENDS ResponseFlow, TLC

CONSTANTS r1, r2, case1, i1, i2

(* Two requests on one case and one item: a retry, or two people at once.  *)
RaceCaseOf  == r1 :> case1 @@ r2 :> case1
RaceItemsOf == r1 :> <<i1>> @@ r2 :> <<i1>>

(* r1 and r2 carry the same data and are interchangeable.                   *)
RaceSymmetry == Permutations({r1, r2})

(* One request of three items, the first of them asked twice.              *)
LongCaseOf  == r1 :> case1
LongItemsOf == r1 :> <<i1, i2, i1>>
=============================================================================
