----------------------------- MODULE FindScopes -----------------------------
(***************************************************************************)
(* What the find-emplace check promises, without its data structures:      *)
(* block scopes nest; each remembers the iterators that were initialised   *)
(* by a find() in it; a later insertion for the same container and key is  *)
(* due for a report against an iterator of the nearest scope that has one; *)
(* what is due is told when a block ends.  Scopes are numbered in the order *)
(* in which they are opened; 0 is the declaration itself.                  *)
(***************************************************************************)
EXTENDS Integers

CONSTANTS
  Ids,        \* identities of blocks, variables and calls
  Places,     \* pairs of a container and a key that the check tells apart
  Reporting   \* is the check find-emplace on

VARIABLES
  scopes,  \* from each open scope to its find-iterators
  due,     \* insertions to report, each with its iterator
  told     \* insertions reported

vars == <<scopes, due, told>>

Find == [var : Ids, place : Places]

Init ==
  /\ scopes = [s \in {0} |-> {}]
  /\ due = {}
  /\ told = {}

IsInnermost(s) == \A t \in DOMAIN scopes : t <= s

(* A new top-level declaration; nothing of the previous one is left. *)
Restart ==
  /\ DOMAIN scopes = {0}
  /\ scopes' = [s \in {0} |-> {}]
  /\ due' = {}
  /\ UNCHANGED told

OpenBlock(b) ==
  /\ \A s \in DOMAIN scopes : s < b
  /\ scopes' = [s \in DOMAIN scopes \cup {b} |-> IF s = b THEN {} ELSE scopes[s]]
  /\ UNCHANGED <<due, told>>

CloseBlock(b) ==
  /\ b \in DOMAIN scopes /\ IsInnermost(b)
  /\ scopes' = [s \in DOMAIN scopes \ {b} |-> scopes[s]]
  /\ IF Reporting
       THEN due' = {} /\ told' = told \cup due
       ELSE UNCHANGED <<due, told>>

(* "auto v = container.find(key);" in the innermost block. *)
DeclareFind(v, p) ==
  /\ \E s \in DOMAIN scopes :
       /\ IsInnermost(s)
       /\ scopes' = [scopes EXCEPT ![s] = @ \cup {[var |-> v, place |-> p]}]
  /\ UNCHANGED <<due, told>>

(* The find-iterators for p in the nearest scope that has one. *)
Nearest(p) ==
  {f \in Find :
     /\ f.place = p
     /\ \E s \in DOMAIN scopes :
          /\ f \in scopes[s]
          /\ \A t \in DOMAIN scopes : t > s => \A g \in scopes[t] : g.place # p}

(* "container[key]", "container.emplace(key, ...)" and the like. *)
Insert(call, p) ==
  /\ \E f \in Nearest(p) : due' = due \cup {[call |-> call, var |-> f.var]}
  /\ UNCHANGED <<scopes, told>>

Next ==
  \/ Restart
  \/ \E b \in Ids : OpenBlock(b) \/ CloseBlock(b)
  \/ \E v \in Ids, p \in Places : DeclareFind(v, p)
  \/ \E call \in Ids, p \in Places : Insert(call, p)

Spec == Init /\ [][Next]_vars
=============================================================================
