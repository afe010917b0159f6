--------------------------- MODULE MCEraseInLoop ----------------------------
(* Two iterators and up to five statements: two loops over the same or over   *)
(* different iterators, with a loop that is not recognised between them, and *)
(* an erase() in a block of the innermost.                                   *)
EXTENDS EraseInLoop
=============================================================================
