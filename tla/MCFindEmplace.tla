--------------------------- MODULE MCFindEmplace ----------------------------
(* Two places; one call of each shape that VisitCXX*CallExpr tells apart.    *)
EXTENDS FindEmplace

CONSTANTS p1, p2

MCPlaces == {p1, p2}

Shape(fn, args, place, mapKey) ==
  [fn |-> fn, args |-> args, place |-> place, mapKey |-> mapKey]

MCCalls ==
  {Shape("operator[]", 2, p, FALSE) : p \in MCPlaces} \cup
  {Shape("emplace", n, p1, TRUE) : n \in 0..2} \cup
  {Shape("emplace_hint", n, p1, TRUE) : n \in 1..2} \cup
  {Shape("insert", 1, p, FALSE) : p \in {p2, NoPlace}}
=============================================================================
