------------------------------ MODULE Visitors ------------------------------
(***************************************************************************)
(* Six visitors, each alone on every AST of a few nodes: Init chooses which *)
(* one is enabled.  Visitors share no state, so that those that are        *)
(* disabled may rest.  Members of the same name and type share a variable.  *)
(* MoveStringStream, which has the fewest kinds of nodes, gets one more of  *)
(* them, and BadRand and LockGuardRelease, which have the most choices, one *)
(* less.                                                                    *)
(***************************************************************************)
EXTENDS Traversal

CONSTANTS
  FewNodes,   \* bound on the nodes of all but MoveStringStream
  Pointers    \* see LockGuardRelease

ASSUME VisitorsAssumption == FewNodes \in Nat \ {0}

VARIABLES
  visitor,
  reports, synthesized, m_ctor_body_stack, m_comp_stmt_stack,
  rand_comp_stmt_stack, m_rand_engns, m_cycle_depth, m_is_defining_seed, engines,
  m_curr_ctor_body, m_to_report, assigned,
  checks, m_last_assigned, declared, locals,
  m_all_references_to_string_streams, m_decl_refs_to_string_streams_on_str_calls,
  streams, uses,
  m_potential_mutex_not_unlocked, m_release_unique_shared_lock, done, pointer_calls, discarded,
  crashed, returned

BR == INSTANCE BadRand WITH
        MaxNodes <- FewNodes - 1, m_comp_stmt_stack <- rand_comp_stmt_stack
IM == INSTANCE InitMembers WITH MaxNodes <- FewNodes
MI == INSTANCE Miscellaneous WITH MaxNodes <- FewNodes
MS == INSTANCE MoveStringStream
LG == INSTANCE LockGuardRelease WITH MaxNodes <- FewNodes - 1
RV == INSTANCE ReturnValue WITH MaxNodes <- FewNodes

ofBadRand ==
  <<rand_comp_stmt_stack, m_rand_engns, m_cycle_depth, m_is_defining_seed, engines>>
ofInitMembers == <<m_curr_ctor_body, m_to_report, assigned>>
ofMiscellaneous == <<checks, m_last_assigned, declared, locals>>
ofMoveStringStream ==
  <<m_all_references_to_string_streams, m_decl_refs_to_string_streams_on_str_calls,
    streams, uses>>
ofLockGuardRelease ==
  <<m_potential_mutex_not_unlocked, m_release_unique_shared_lock, done,
    pointer_calls, discarded>>
ofReturnValue == <<crashed, returned>>

vars ==
  <<open, next, visitor, reports, synthesized, m_ctor_body_stack, m_comp_stmt_stack,
    ofBadRand, ofInitMembers, ofMiscellaneous, ofMoveStringStream, ofLockGuardRelease,
    ofReturnValue>>

-----------------------------------------------------------------------------

Init ==
  /\ visitor \in {"BadRand", "InitMembers", "Miscellaneous", "MoveStringStream",
                  "LockGuardRelease", "ReturnValue"}
  /\ BR!Init /\ IM!Init /\ MI!Init /\ MS!Init /\ LG!Init /\ RV!Init
  /\ visitor # "Miscellaneous" => checks = {}

BadRandNext ==
  /\ visitor = "BadRand" /\ BR!Next
  /\ UNCHANGED <<visitor, m_comp_stmt_stack, ofInitMembers, ofMiscellaneous,
                 ofMoveStringStream, ofLockGuardRelease, ofReturnValue>>

InitMembersNext ==
  /\ visitor = "InitMembers" /\ IM!Next
  /\ UNCHANGED <<visitor, m_ctor_body_stack, m_comp_stmt_stack, ofBadRand,
                 ofMiscellaneous, ofMoveStringStream, ofLockGuardRelease, ofReturnValue>>

MiscellaneousNext ==
  /\ visitor = "Miscellaneous" /\ MI!Next
  /\ UNCHANGED <<visitor, synthesized, ofBadRand, ofInitMembers, ofMoveStringStream,
                 ofLockGuardRelease, ofReturnValue>>

MoveStringStreamNext ==
  /\ visitor = "MoveStringStream" /\ MS!Next
  /\ UNCHANGED <<visitor, synthesized, m_ctor_body_stack, m_comp_stmt_stack, ofBadRand,
                 ofInitMembers, ofMiscellaneous, ofLockGuardRelease, ofReturnValue>>

LockGuardReleaseNext ==
  /\ visitor = "LockGuardRelease" /\ LG!Next
  /\ UNCHANGED <<visitor, synthesized, m_ctor_body_stack, m_comp_stmt_stack, ofBadRand,
                 ofInitMembers, ofMiscellaneous, ofMoveStringStream, ofReturnValue>>

ReturnValueNext ==
  /\ visitor = "ReturnValue" /\ RV!Next
  /\ UNCHANGED <<visitor, synthesized, m_ctor_body_stack, ofBadRand, ofInitMembers,
                 ofMiscellaneous, ofMoveStringStream, ofLockGuardRelease>>

Next ==
  \/ BadRandNext \/ InitMembersNext \/ MiscellaneousNext
  \/ MoveStringStreamNext \/ LockGuardReleaseNext \/ ReturnValueNext

Spec == Init /\ [][Next]_vars

-----------------------------------------------------------------------------

(* The members of every visitor have their types; among them are that no    *)
(* stack is popped below its bottom, that vectors are sorted as the code    *)
(* relies on, that no diagnostic is given twice, and that the maps of       *)
(* MoveStringStreamVisitor agree and never mix two declarations.            *)
VisitorsTypeOK ==
  /\ visitor = "BadRand" => BR!TypeOK
  /\ visitor = "InitMembers" => IM!TypeOK
  /\ visitor = "Miscellaneous" => MI!TypeOK
  /\ visitor = "MoveStringStream" => MS!TypeOK /\ MS!StrCallsAreReferences
  /\ visitor = "LockGuardRelease" => LG!TypeOK
  /\ visitor = "ReturnValue" => RV!TypeOK

(* The visitors know where they are: BadRandVisitor's m_cycle_depth is the  *)
(* number of open loops and its m_ctor_body_stack leads through the open    *)
(* constructors; InitMembersVisitor's m_curr_ctor_body never dangles;       *)
(* MiscellaneousVisitor's m_comp_stmt_stack is that of the open blocks;     *)
(* ReturnValueVisitor's stack holds the open functions that it follows.     *)
PositionsAreExact ==
  /\ visitor = "BadRand" => BR!DepthIsOpenLoops /\ BR!CtorsAreStacked
  /\ visitor = "InitMembers" => IM!CurrentBodyIsOpen
  /\ visitor = "Miscellaneous" => MI!BlocksAreStacked
  /\ visitor = "ReturnValue" => RV!StackIsOpenFunctions

(* BadRandVisitor computes a seed only inside a seed expression. *)
SeedFlagIsSound == visitor = "BadRand" => BR!SeedFlagIsSound

(* BadRandVisitor reports engines as one-shot when their block ends, and    *)
(* none that was moved from or used in a loop, unless by hidden code.       *)
OneShotsAreSound == [][visitor = "BadRand" => BR!OneShotsAreSound]_vars

(* InitMembersVisitor keeps nothing to report from one constructor to the   *)
(* next, and reports assignments in constructors only, none that computes   *)
(* with locals.                                                             *)
MembersAreInitializable ==
  visitor = "InitMembers" => IM!NothingIsLeftOver /\ IM!MembersAreInitializable

(* MiscellaneousVisitor keeps only locals last assigned to a field. *)
LastReferencesAreAssignments ==
  visitor = "Miscellaneous" => MI!LastReferencesAreAssignments

(* MoveStringStreamVisitor reports last references only, those of str(). *)
ReportsAreLastSeen == visitor = "MoveStringStream" => MS!ReportsAreLastSeen

(* LockGuardReleaseVisitor keeps exactly the variables that got a mutex     *)
(* without a later unlock(), as far as it is not in hidden code.            *)
PendingReleasesAreExact == visitor = "LockGuardRelease" => LG!PendingReleasesAreExact

(* LockGuardReleaseVisitor reports the results of release() that are thrown *)
(* away outside of hidden code, and the variables that it kept.             *)
LockedMutexesAreReported == visitor = "LockGuardRelease" => LG!LockedMutexesAreReported

(* ReturnValueVisitor reports no function that returns anything but *this   *)
(* in a return statement that is not hidden.                                *)
SelfCopiesAreCopies == visitor = "ReturnValue" => RV!SelfCopiesAreCopies

=============================================================================
