------------------------------- MODULE Plugin -------------------------------
(***************************************************************************)
(* The life of the plugin in one compilation: Action (ParseArgs,           *)
(* CreateASTConsumer), Consumer (HandleTopLevelDecl,                       *)
(* HandleTranslationUnit) and the two UnitedVisitors that hand every AST   *)
(* node to their enabled visitors.                                         *)
(*                                                                         *)
(* The compiler calls the plugin while it parses: one call per top-level   *)
(* declaration, then one for the whole translation unit.  What a visitor   *)
(* computes is left to the visitors' own modules; here it is only known    *)
(* whether a visitor holds an AST context and which callbacks it received. *)
(***************************************************************************)
EXTENDS Checks

CONSTANTS
  TopLevel,       \* visitors united in Consumer::TopLevelDeclUV
  Unit,           \* visitors united in Consumer::TranslationUnitUV
  CheckNamesOf,   \* Visitor::check_names
  Resetting,      \* visitors whose clear() resets the context
  WantsInstances, \* visitors whose shouldVisitTemplateInstantiations is true
  MaxDecls        \* bound on the top-level declarations handled

Visitors == TopLevel \cup Unit

ASSUME PluginAssumption ==
  /\ TopLevel \cap Unit = {}
  /\ CheckNamesOf \in [Visitors -> SUBSET Names]
  /\ Resetting \subseteq TopLevel
  /\ WantsInstances \subseteq Unit
  /\ MaxDecls \in Nat

VARIABLES
  stage,      \* what the compiler has the plugin do
  m_enabled,  \* visitors with VisitorBase::m_enabled
  m_context,  \* visitors whose VisitorBase::m_context is not null
  decls,      \* number of top-level declarations handled
  called,     \* history: <<visitor, is the node instantiated>> of callbacks
  printed     \* history: visitors whose printDiagnostic has run

pluginVars == <<stage, m_enabled, m_context, decls, called, printed>>
vars == <<configVars, pluginVars>>

Traversals == {"declaration", "unit"}
Stages == {"command line", "no plugin", "waiting", "done"} \cup Traversals

(* The UnitedVisitor that a traversal drives. *)
United == IF stage = "declaration" THEN TopLevel ELSE Unit

-----------------------------------------------------------------------------

(* Faulty variant of computeEnabled: all_of instead of any_of. *)
computeEnabled_AllOf(v) == \A c \in CheckNamesOf[v] : Level(c) # "Disabled"

(* VisitorBase::computeEnabled: one of the visitor's checks is enabled. *)
computeEnabled(v) == \E c \in CheckNamesOf[v] : Level(c) # "Disabled"

PluginInit ==
  /\ ConfigInit
  /\ stage = "command line"
  /\ m_enabled = {}
  /\ m_context = {}
  /\ decls = 0
  /\ called = {}
  /\ printed = {}

ReadCommandLine ==
  /\ stage = "command line"
  /\ ConfigNext
  /\ UNCHANGED pluginVars

(* Action::ParseArgs returns false: the compiler drops the plugin. *)
ParseArgsFails ==
  /\ stage = "command line"
  /\ parsing = "failed"
  /\ stage' = "no plugin"
  /\ UNCHANGED <<configVars, m_enabled, m_context, decls, called, printed>>

(* Action::CreateASTConsumer: the visitors are constructed. *)
CreateASTConsumer ==
  /\ stage = "command line"
  /\ parsing = "parsed"
  /\ stage' = "waiting"
  /\ m_enabled' = {v \in Visitors : computeEnabled(v)}
  /\ UNCHANGED <<configVars, m_context, decls, called, printed>>

(* Faulty variant of HandleTopLevelDecl: the context is set before clear(). *)
HandleTopLevelDecl_SetThenClear ==
  /\ stage = "waiting"
  /\ decls < MaxDecls
  /\ stage' = "declaration"
  /\ decls' = decls + 1
  /\ m_context' = (m_context \cup (TopLevel \cap m_enabled)) \ (Resetting \cap m_enabled)
  /\ UNCHANGED <<configVars, m_enabled, called, printed>>

(* Faulty variant of HandleTopLevelDecl: isEnabled() is not asked before    *)
(* setContext().                                                            *)
HandleTopLevelDecl_AllContexts ==
  /\ stage = "waiting"
  /\ decls < MaxDecls
  /\ stage' = "declaration"
  /\ decls' = decls + 1
  /\ m_context' = (m_context \ (Resetting \cap m_enabled)) \cup TopLevel
  /\ UNCHANGED <<configVars, m_enabled, called, printed>>

(* Consumer::HandleTopLevelDecl, up to TraverseDecl, for a declaration that *)
(* shouldProcessDecl accepts (another one is a stuttering step): clear(),   *)
(* then setContext, of every enabled visitor.                               *)
HandleTopLevelDecl ==
  /\ stage = "waiting"
  /\ decls < MaxDecls
  /\ stage' = "declaration"
  /\ decls' = decls + 1
  /\ m_context' = (m_context \ (Resetting \cap m_enabled)) \cup (TopLevel \cap m_enabled)
  /\ UNCHANGED <<configVars, m_enabled, called, printed>>

(* Consumer::HandleTranslationUnit, up to TraverseDecl; UnitedVisitor's     *)
(* isEnabled is always true, and nothing is cleared.                        *)
HandleTranslationUnit ==
  /\ stage = "waiting"
  /\ stage' = "unit"
  /\ m_context' = m_context \cup (Unit \cap m_enabled)
  /\ UNCHANGED <<configVars, m_enabled, decls, called, printed>>

(* Faulty variant of VisitNode: isEnabled() is not asked. *)
VisitNode_Everyone(instance) ==
  /\ stage \in Traversals
  /\ United \cap m_enabled # {}
  /\ instance => United \cap m_enabled \cap WantsInstances # {}
  /\ called' = called \cup (United \X {instance})
  /\ UNCHANGED <<configVars, stage, m_enabled, m_context, decls, printed>>

(* UnitedVisitor::Visit##type and dataTraverseStmtPre/Post for one node:    *)
(* every enabled visitor is called, without short-circuit.  With no enabled *)
(* visitor Visit##type is false and the traversal goes no further.  Nodes   *)
(* of an instantiated template are visited for all as soon as one enabled   *)
(* visitor wants them.                                                      *)
VisitNode(instance) ==
  /\ stage \in Traversals
  /\ United \cap m_enabled # {}
  /\ instance => United \cap m_enabled \cap WantsInstances # {}
  /\ called' = called \cup ((United \cap m_enabled) \X {instance})
  /\ UNCHANGED <<configVars, stage, m_enabled, m_context, decls, printed>>

(* The end of TraverseDecl, and printDiagnostic of the enabled visitors. *)
PrintDiagnostic ==
  /\ stage \in Traversals
  /\ stage' = IF stage = "unit" THEN "done" ELSE "waiting"
  /\ printed' = printed \cup (United \cap m_enabled)
  /\ UNCHANGED <<configVars, m_enabled, m_context, decls, called>>

PluginNext ==
  \/ ReadCommandLine
  \/ ParseArgsFails
  \/ CreateASTConsumer
  \/ HandleTopLevelDecl
  \/ HandleTranslationUnit
  \/ \E instance \in BOOLEAN : VisitNode(instance)
  \/ PrintDiagnostic

PluginSpec == PluginInit /\ [][PluginNext]_vars

-----------------------------------------------------------------------------

(* The variables have their types; a visitor that is not enabled is left    *)
(* alone: it gets no context and no callback, and prints nothing.           *)
PluginTypeOK ==
  /\ stage \in Stages
  /\ m_enabled \subseteq Visitors
  /\ m_context \subseteq m_enabled
  /\ decls \in 0..MaxDecls
  /\ called \subseteq m_enabled \X BOOLEAN
  /\ printed \subseteq m_enabled

(* While a declaration or the unit is traversed, every visitor that can be  *)
(* called holds the AST context its handlers dereference (getContext,       *)
(* getSM), although clear() takes it away between declarations.             *)
ContextDuringTraversal ==
  stage \in Traversals => United \cap m_enabled \subseteq m_context

(* What the command line asks of a check: its last mention, else the last   *)
(* "all", is a level other than "none".                                     *)
AskedFor(c) ==
  \E d \in Directive :
    /\ d.level # "Disabled"
    /\ IsLastAbout(c, d) \/ (~Mentioned(c) /\ IsLastAbout(All, d))

(* A visitor is called only if the command line asks for one of its checks, *)
(* however the directives are ordered and spread over arguments.            *)
OnlyAskedVisitorsRun ==
  \A v \in Visitors :
    (\E instance \in BOOLEAN : <<v, instance>> \in called) =>
      \E c \in CheckNamesOf[v] : AskedFor(c)

(* When the unit is done, every unit-wide visitor one of whose checks the   *)
(* command line asks for has printed its diagnostics.                       *)
AskedVisitorsPrint ==
  stage = "done" =>
    \A v \in Unit : (\E c \in CheckNamesOf[v] : AskedFor(c)) => v \in printed

=============================================================================
