------------------------------ MODULE MCPlugin ------------------------------
(* Two visitors per UnitedVisitor: MoveStringStreamVisitor, which resets     *)
(* itself, BadRandVisitor, which keeps its state, CTypeCharVisitor, which    *)
(* wants instantiations, and MiscellaneousVisitor, which does not and owns   *)
(* more than one check (const-cast-member is left out).                      *)
(* Three directives put "all" before, between and after the mentions of a    *)
(* check, or mention it again; two declarations make one follow another.     *)
EXTENDS Plugin

MCTopLevel == {"MoveStringStream", "BadRand"}
MCUnit == {"CTypeChar", "Miscellaneous"}
MCNames == {"move-string-stream", "bad-rand", "char-in-ctype-pred",
            "temporary-in-ctor", "static-keyword"}
MCCheckNamesOf ==
  [v \in MCTopLevel \cup MCUnit |->
     CASE v = "MoveStringStream" -> {"move-string-stream"}
       [] v = "BadRand"          -> {"bad-rand"}
       [] v = "CTypeChar"        -> {"char-in-ctype-pred"}
       [] v = "Miscellaneous"    -> {"temporary-in-ctor", "static-keyword"}]
MCResetting == {"MoveStringStream"}
MCWantsInstances == {"CTypeChar"}
=============================================================================
