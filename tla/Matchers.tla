------------------------------ MODULE Matchers ------------------------------
(***************************************************************************)
(* The algorithms that look at one expression or call at a time: Init      *)
(* chooses which one is fed.                                               *)
(***************************************************************************)
EXTENDS Integers, Sequences

CONSTANTS
  Tokens, MaxLength,                            \* see Identical
  Records, TryRecords, Args, MaxArgs, MaxCalls  \* see EmplaceDefaultValue

VARIABLES
  matcher,
  stmt1, stmt2, ignore_side_effects,
  m_has_try_emplace, reports, calls

ID == INSTANCE Identical
ED == INSTANCE EmplaceDefaultValue

ASSUME MatchersAssumption ==
  /\ ID!IdenticalAssumption
  /\ ED!EmplaceDefaultValueAssumption

ofIdentical == <<stmt1, stmt2, ignore_side_effects>>
ofEmplaceDefaultValue == <<m_has_try_emplace, reports, calls>>

vars == <<matcher, ofIdentical, ofEmplaceDefaultValue>>

-----------------------------------------------------------------------------

Init ==
  /\ matcher \in {"isIdenticalStmt", "EmplaceDefaultValue"}
  /\ ID!Init /\ ED!Init
  /\ matcher # "isIdenticalStmt" => ignore_side_effects

IdenticalNext ==
  /\ matcher = "isIdenticalStmt" /\ ID!Next
  /\ UNCHANGED <<matcher, ofEmplaceDefaultValue>>

EmplaceDefaultValueNext ==
  /\ matcher = "EmplaceDefaultValue" /\ ED!Next
  /\ UNCHANGED <<matcher, ofIdentical>>

Next == IdenticalNext \/ EmplaceDefaultValueNext

Spec == Init /\ [][Next]_vars

-----------------------------------------------------------------------------

(* isIdenticalStmt takes no two expressions for the same that differ. *)
IdenticalIsSound == matcher = "isIdenticalStmt" => ID!IdenticalIsSound

(* isIdenticalStmt finds expressions that are the same, if it knows them. *)
IdenticalIsComplete == matcher = "isIdenticalStmt" => ID!IdenticalIsComplete

(* EmplaceDefaultValueVisitor reports exactly the default values. *)
DefaultsAreReported == matcher = "EmplaceDefaultValue" => ED!DefaultsAreReported

(* The fix of EmplaceDefaultValueVisitor leaves a call of try_emplace. *)
FixCallsTryEmplace == matcher = "EmplaceDefaultValue" => ED!FixCallsTryEmplace

(* The fix of EmplaceDefaultValueVisitor keeps the key.  The code does not  *)
(* keep this: see the README.                                               *)
FixKeepsKey == matcher = "EmplaceDefaultValue" => ED!FixKeepsKey

=============================================================================
