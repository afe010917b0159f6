------------------------------ MODULE BadRand -------------------------------
(***************************************************************************)
(* BadRandVisitor: what it remembers from one callback to the next, across *)
(* the declarations of a translation unit (its clear() does nothing).  The *)
(* body of a constructor shares the number of the constructor, which it    *)
(* follows in the traversal.  "hidden" is what shouldProcessExpr() or      *)
(* shouldProcessDecl() skips, in a macro or on a NOLINT line.              *)
(***************************************************************************)
EXTENDS Traversal, FiniteSets

VARIABLES
  m_rand_engns,        \* engines and the block that reports each
  m_comp_stmt_stack,   \* the open blocks, as the visitor records them
  m_ctor_body_stack,   \* the bodies of the open constructors
  m_cycle_depth,       \* how many loops are open
  m_is_defining_seed,  \* is the seed of an engine being computed
  reports,             \* diagnostics emitted
  engines,             \* history: the engines declared, see Engine
  synthesized          \* history: the bodies that the compiler wrote

blocks == <<m_comp_stmt_stack, m_ctor_body_stack>>
vars == <<open, next, m_rand_engns, blocks, m_cycle_depth, m_is_defining_seed,
          reports, engines, synthesized>>

(* "loop" is a for, range-for or while statement; "seed" the construction   *)
(* of an engine or a call of its seed(); "call" any other member call;      *)
(* "ctor" a constructor whose body is still to come; "try" a function-try   *)
(* block, the other form of a constructor's body.                           *)
Kinds == {"compound", "loop", "ctor", "try", "seed", "call"}

Messages == {"rand", "random_shuffle", "same-seed", "one-shot", "distribution",
             "slow-device"}

(* An engine declared: the block around it, and if code that is not hidden  *)
(* ever moved from it or used it in a loop.                                 *)
Engine == [decl : Nodes, block : Nodes \cup {Null}, busy : BOOLEAN]

Note(what, n) == reports \cup {[what |-> what, node |-> n]}

(* The innermost open block, or null. *)
IsInnermost(c) ==
  \/ c = Null /\ \A i \in 1..Len(open) : open[i].kind # "compound"
  \/ \E i \in 1..Len(open) :
       /\ open[i] = [id |-> c, kind |-> "compound"]
       /\ \A j \in (i + 1)..Len(open) : open[j].kind # "compound"

-----------------------------------------------------------------------------

Init ==
  /\ TraversalInit
  /\ m_rand_engns = {}
  /\ m_comp_stmt_stack = <<Null>>
  /\ m_ctor_body_stack = <<>>
  /\ m_cycle_depth = 0
  /\ m_is_defining_seed = FALSE
  /\ reports = {}
  /\ engines = {}
  /\ synthesized = {}

(* VisitCXXConstructorDecl of a constructor with a body; its parameters and *)
(* initialisers come before the body.                                       *)
EnterCtor ==
  /\ Enter("ctor")
  /\ m_ctor_body_stack' = Append(m_ctor_body_stack, next)
  /\ UNCHANGED <<m_rand_engns, m_comp_stmt_stack, m_cycle_depth, m_is_defining_seed,
                 reports, engines, synthesized>>

(* VisitCXXConstructorDecl of a defaulted constructor that was used before: *)
(* the body that the compiler gave it is not traversed.                     *)
VisitDefaultedCtor ==
  /\ VisitLeaf
  /\ m_ctor_body_stack' = Append(m_ctor_body_stack, next)
  /\ synthesized' = synthesized \cup {next}
  /\ UNCHANGED <<m_rand_engns, m_comp_stmt_stack, m_cycle_depth, m_is_defining_seed,
                 reports, engines>>

(* Faulty variant of VisitCtorDeclaration: doesThisDeclarationHaveABody is  *)
(* not asked.                                                               *)
VisitCtorDeclaration_Push ==
  /\ Visit
  /\ m_ctor_body_stack' = Append(m_ctor_body_stack, next)
  /\ UNCHANGED <<open, m_rand_engns, m_comp_stmt_stack, m_cycle_depth, m_is_defining_seed,
                 reports, engines, synthesized>>

(* VisitCXXConstructorDecl of a constructor without a body; all other       *)
(* callbacks that do nothing, those of hidden declarations and calls        *)
(* included, are like it.  The body of a hidden constructor is a block like *)
(* any other.                                                               *)
VisitCtorDeclaration ==
  /\ Visit
  /\ UNCHANGED <<open, m_rand_engns, blocks, m_cycle_depth, m_is_defining_seed,
                 reports, engines, synthesized>>

(* dataTraverseStmtPre of a constructor's body. *)
EnterCtorBody(kind) ==
  /\ open # <<>>
  /\ Top(open).kind = "ctor"
  /\ open' = Append(Pop(open), [id |-> Top(open).id, kind |-> kind])
  /\ m_comp_stmt_stack' = IF kind = "compound"
                            THEN Append(m_comp_stmt_stack, Top(open).id)
                            ELSE m_comp_stmt_stack
  /\ UNCHANGED <<next, m_rand_engns, m_ctor_body_stack, m_cycle_depth, m_is_defining_seed,
                 reports, engines, synthesized>>

(* dataTraverseStmtPre of any other block. *)
EnterCompound ==
  /\ Enter("compound")
  /\ m_comp_stmt_stack' = Append(m_comp_stmt_stack, next)
  /\ UNCHANGED <<m_rand_engns, m_ctor_body_stack, m_cycle_depth, m_is_defining_seed,
                 reports, engines, synthesized>>

EnterLoop ==
  /\ open # <<>>
  /\ Top(open).kind \in {"compound", "loop"}
  /\ Enter("loop")
  /\ m_cycle_depth' = m_cycle_depth + 1
  /\ UNCHANGED <<m_rand_engns, blocks, m_is_defining_seed, reports,
                 engines, synthesized>>

(* VisitCXXConstructExpr of an engine, seeded by default or by a literal if *)
(* "constant"; VisitCXXMemberCallExpr of seed() if not.                     *)
EnterSeed(constant) ==
  /\ Enter("seed")
  /\ m_is_defining_seed' = TRUE
  /\ reports' = IF constant THEN Note("same-seed", next) ELSE reports
  /\ UNCHANGED <<m_rand_engns, blocks, m_cycle_depth, engines, synthesized>>

(* VisitCXXMemberCallExpr of anything else. *)
EnterCall ==
  /\ Enter("call")
  /\ m_is_defining_seed' = FALSE
  /\ UNCHANGED <<m_rand_engns, blocks, m_cycle_depth, reports, engines, synthesized>>

(* The same of a hidden expression; the end of a seed does not depend on it.*)
EnterHidden(kind) ==
  /\ Enter(kind)
  /\ UNCHANGED <<m_rand_engns, blocks, m_cycle_depth, m_is_defining_seed, reports,
                 engines, synthesized>>

(* VisitVarDecl of an engine that is not a static local. *)
VisitVarDecl ==
  /\ Visit
  /\ IF m_ctor_body_stack = <<>>
       THEN /\ m_rand_engns' = m_rand_engns \cup
                 {[engn_decl |-> next, comp_stmt |-> Top(m_comp_stmt_stack)]}
            /\ \E c \in Nodes \cup {Null} :
                 IsInnermost(c) /\ engines' = engines \cup
                   {[decl |-> next, block |-> c, busy |-> FALSE]}
       ELSE UNCHANGED <<m_rand_engns, engines>>
  /\ UNCHANGED <<open, blocks, m_cycle_depth, m_is_defining_seed, reports, synthesized>>

(* The engines that the code being visited may name. *)
InScope == {e \in engines : e.block = Null \/ IsOpen(e.block)}

(* m_rand_engns.get<EngnDecl>().erase(decl). *)
EraseEngine(decl) == m_rand_engns' = {e \in m_rand_engns : e.engn_decl # decl}

(* The history of engines after decl is moved from or used. *)
MarkBusy(decl) ==
  engines' = {IF e.decl = decl THEN [e EXCEPT !.busy = TRUE] ELSE e : e \in engines}

(* VisitCallExpr of a function that is to be avoided. *)
VisitCallExpr(callee) ==
  /\ Visit
  /\ reports' = Note(callee, next)
  /\ UNCHANGED <<open, m_rand_engns, blocks, m_cycle_depth, m_is_defining_seed, engines,
                 synthesized>>

(* VisitCallExpr of std::move(engine). *)
VisitMove(decl, hidden) ==
  /\ Visit
  /\ IF hidden THEN UNCHANGED <<m_rand_engns, engines>>
     ELSE EraseEngine(decl) /\ MarkBusy(decl)
  /\ UNCHANGED <<open, blocks, m_cycle_depth, m_is_defining_seed, reports, synthesized>>

(* A use, inside of a loop or not. *)
Use(decl, hidden) ==
  IF ~hidden /\ InsideOf({"loop"}) THEN MarkBusy(decl) ELSE UNCHANGED engines

(* Faulty variant of VisitEngineCall: loops are not looked for. *)
VisitEngineCall_NoLoop(decl, distribution, hidden) ==
  /\ Visit
  /\ Use(decl, hidden)
  /\ reports' = IF hidden \/ distribution THEN reports ELSE Note("distribution", next)
  /\ UNCHANGED <<open, m_rand_engns, blocks, m_cycle_depth, m_is_defining_seed, synthesized>>

(* VisitCXXOperatorCallExpr of "distribution(engine)" or of "engine()". *)
VisitEngineCall(decl, distribution, hidden) ==
  /\ Visit
  /\ Use(decl, hidden)
  /\ IF ~hidden /\ m_cycle_depth > 0 THEN EraseEngine(decl) ELSE UNCHANGED m_rand_engns
  /\ reports' = IF hidden \/ distribution THEN reports ELSE Note("distribution", next)
  /\ UNCHANGED <<open, blocks, m_cycle_depth, m_is_defining_seed, synthesized>>

(* The same with a temporary engine, which cannot be in m_rand_engns. *)
VisitTemporaryCall ==
  /\ Visit
  /\ reports' = Note("one-shot", next)
  /\ UNCHANGED <<open, m_rand_engns, blocks, m_cycle_depth, m_is_defining_seed, engines,
                 synthesized>>

(* The same with a std::random_device. *)
VisitDeviceCall ==
  /\ Visit
  /\ reports' = IF m_is_defining_seed THEN reports ELSE Note("slow-device", next)
  /\ UNCHANGED <<open, m_rand_engns, blocks, m_cycle_depth, m_is_defining_seed, engines,
                 synthesized>>

-----------------------------------------------------------------------------

(* dataTraverseStmtPost. *)
IsCtorBody(stmt) == m_ctor_body_stack # <<>> /\ Top(m_ctor_body_stack) = stmt.id

(* Faulty variant of LeaveCtorBody: m_comp_stmt_stack is popped too. *)
LeaveCtorBody_PopBoth ==
  /\ LeaveStmt({"compound", "try"})
  /\ IsCtorBody(Top(open))
  /\ m_ctor_body_stack' = Pop(m_ctor_body_stack)
  /\ m_comp_stmt_stack' = Pop(m_comp_stmt_stack)
  /\ UNCHANGED <<m_rand_engns, m_cycle_depth, m_is_defining_seed, reports,
                 engines, synthesized>>

(* The first branch; it leaves m_comp_stmt_stack alone. *)
LeaveCtorBody ==
  /\ LeaveStmt({"compound", "try"})
  /\ IsCtorBody(Top(open))
  /\ m_ctor_body_stack' = Pop(m_ctor_body_stack)
  /\ UNCHANGED <<m_rand_engns, m_comp_stmt_stack, m_cycle_depth, m_is_defining_seed,
                 reports, engines, synthesized>>

(* Faulty variant of LeaveLoop: the depth is not decremented. *)
LeaveLoop_KeepDepth ==
  /\ LeaveStmt({"loop"})
  /\ UNCHANGED <<m_rand_engns, blocks, m_cycle_depth, m_is_defining_seed, reports,
                 engines, synthesized>>

LeaveLoop ==
  /\ LeaveStmt({"loop"})
  /\ m_cycle_depth' = m_cycle_depth - 1
  /\ UNCHANGED <<m_rand_engns, blocks, m_is_defining_seed, reports,
                 engines, synthesized>>

(* The block that is left reports its engines. *)
LeaveCompound ==
  /\ LeaveStmt({"compound"})
  /\ ~IsCtorBody(Top(open))
  /\ LET here == {e \in m_rand_engns : e.comp_stmt = Top(open).id}
     IN  /\ reports' = reports \cup
              {[what |-> "one-shot", node |-> e.engn_decl] : e \in here}
         /\ m_rand_engns' = m_rand_engns \ here
  /\ m_comp_stmt_stack' = Pop(m_comp_stmt_stack)
  /\ UNCHANGED <<m_ctor_body_stack, m_cycle_depth, m_is_defining_seed, engines,
                 synthesized>>

(* Faulty variant of LeaveSeed: the flag stays. *)
LeaveSeed_KeepFlag ==
  /\ LeaveStmt({"seed"})
  /\ UNCHANGED <<m_rand_engns, blocks, m_cycle_depth, m_is_defining_seed, reports,
                 engines, synthesized>>

LeaveSeed ==
  /\ LeaveStmt({"seed"})
  /\ m_is_defining_seed' = FALSE
  /\ UNCHANGED <<m_rand_engns, blocks, m_cycle_depth, reports, engines, synthesized>>

(* Any other statement, and a function-try block that was buried. *)
LeaveOther ==
  /\ LeaveStmt({"call", "try"})
  /\ ~IsCtorBody(Top(open))
  /\ UNCHANGED <<m_rand_engns, blocks, m_cycle_depth, m_is_defining_seed, reports,
                 engines, synthesized>>

Next ==
  \/ EnterCtor \/ VisitDefaultedCtor \/ VisitCtorDeclaration
  \/ \E kind \in {"compound", "try"} : EnterCtorBody(kind)
  \/ EnterCompound \/ EnterLoop \/ EnterCall
  \/ \E constant \in BOOLEAN : EnterSeed(constant)
  \/ \E kind \in {"seed", "call"} : EnterHidden(kind)
  \/ VisitVarDecl
  \/ \E callee \in {"rand", "random_shuffle"} : VisitCallExpr(callee)
  \/ \E e \in InScope, hidden \in BOOLEAN :
       \/ VisitMove(e.decl, hidden)
       \/ \E distribution \in BOOLEAN : VisitEngineCall(e.decl, distribution, hidden)
  \/ VisitTemporaryCall \/ VisitDeviceCall
  \/ LeaveCtorBody \/ LeaveLoop \/ LeaveCompound \/ LeaveSeed \/ LeaveOther

Spec == Init /\ [][Next]_vars

-----------------------------------------------------------------------------

(* The variables have their types; no engine is registered twice, and the   *)
(* null at the bottom of m_comp_stmt_stack is never popped.                 *)
TypeOK ==
  /\ TraversalTypeOK(Kinds)
  /\ m_rand_engns \subseteq [engn_decl : Nodes, comp_stmt : Nodes \cup {Null}]
  /\ m_comp_stmt_stack \in Seq(Nodes \cup {Null})
  /\ m_comp_stmt_stack # <<>>
  /\ m_ctor_body_stack \in Seq(Nodes)
  /\ m_cycle_depth \in Nat
  /\ m_is_defining_seed \in BOOLEAN
  /\ reports \subseteq [what : Messages, node : Nodes]
  /\ engines \subseteq Engine
  /\ synthesized \subseteq Nodes

OpenLoops == {i \in 1..Len(open) : open[i].kind = "loop"}

(* m_cycle_depth, an unsigned counter, is the number of open loops: the     *)
(* first branch of dataTraverseStmtPost never hides the end of a loop.      *)
DepthIsOpenLoops == m_cycle_depth = Cardinality(OpenLoops)

(* m_ctor_body_stack leads through the open constructors, so that it is     *)
(* empty again whenever none is open: a body left on it would silence the   *)
(* check for the rest of the translation unit.  Only a body that the        *)
(* compiler wrote stays, with those that it buries.                         *)
CtorsAreStacked ==
  /\ \A k \in 1..Len(m_ctor_body_stack) :
       IsOpen(m_ctor_body_stack[k]) \/
         \E l \in k..Len(m_ctor_body_stack) : m_ctor_body_stack[l] \in synthesized
  /\ \A k, l \in 1..Len(m_ctor_body_stack) :
       k < l => m_ctor_body_stack[k] < m_ctor_body_stack[l]
  /\ \A i \in 1..Len(open) :
       open[i].kind \in {"ctor", "try"} =>
         \E k \in 1..Len(m_ctor_body_stack) : m_ctor_body_stack[k] = open[i].id

(* A seed is being computed only inside a seed expression; so a call of a   *)
(* random_device outside of one is reported as slow unless it is hidden.    *)
SeedFlagIsSound ==
  m_is_defining_seed => \E i \in 1..Len(open) : open[i].kind = "seed"

OneShot(e) == [what |-> "one-shot", node |-> e.decl]

(* An engine that code which is not hidden moved from or used in a loop is  *)
(* not reported as one-shot, and an engine is reported when the block       *)
(* around its declaration is left, never at another time.                   *)
OneShotsAreSound ==
  \A e \in engines :
    OneShot(e) \in reports' \ reports =>
      /\ ~e.busy
      /\ e.block = Top(open).id /\ Len(open') < Len(open)

(* An engine of a block that is never moved from nor used in a loop, unless *)
(* by hidden code, is reported when the block ends ("one-shot usage of      *)
(* random engine in function", Checks.md).  The code does not keep this:    *)
(* see the README.                                                          *)
OneShotsAreReported ==
  \A e \in engines :
    e.block # Null /\ ~IsOpen(e.block) /\ ~e.busy => OneShot(e) \in reports

=============================================================================
