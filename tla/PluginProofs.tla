---------------------------- MODULE PluginProofs ----------------------------
(* Theorems about the life of the plugin (module Plugin), for any visitors,  *)
(* any check names and any bounds.                                           *)
EXTENDS Plugin, ChecksProofs

(* The configuration keeps its invariant under the steps of the plugin. *)
ConfigInv == ConfigTypeOK /\ LogIsReplayed

LEMMA ConfigInvStep == ConfigInv /\ [PluginNext]_vars => ConfigInv'
<1>1. [PluginNext]_vars => [ConfigNext]_configVars
  BY DEF PluginNext, vars, ReadCommandLine, ParseArgsFails, CreateASTConsumer,
         HandleTopLevelDecl, HandleTranslationUnit, VisitNode, PrintDiagnostic
<1> QED
  BY <1>1, ConfigTypeStep, LogIsReplayedStep DEF ConfigInv

LEMMA ConfigInvCorrect == PluginSpec => []ConfigInv
<1>1. ConfigInit => ConfigTypeOK
  BY DEF ConfigInit, ConfigTypeOK, State
<1>2. ConfigInit => LogIsReplayed
  BY DEF ConfigInit, LogIsReplayed, Mentioned
<1>3. PluginInit => ConfigInv
  BY <1>1, <1>2 DEF PluginInit, ConfigInv
<1> QED
  BY <1>3, ConfigInvStep, PTL DEF PluginSpec

-----------------------------------------------------------------------------

(* The visitors that are enabled are those that computeEnabled() enabled,   *)
(* by a configuration that is not changed afterwards.                       *)
EnabledAsComputed ==
  m_enabled = IF stage \in {"command line", "no plugin"} THEN {}
              ELSE {v \in Visitors : computeEnabled(v)}

(* What has been printed when the unit is done. *)
UnitIsPrinted == stage = "done" => Unit \cap m_enabled \subseteq printed

PluginInv ==
  /\ PluginTypeOK
  /\ EnabledAsComputed
  /\ ContextDuringTraversal
  /\ UnitIsPrinted

LEMMA PluginInvInit == PluginInit => PluginInv
<1> SUFFICES ASSUME PluginInit
             PROVE  PluginInv
  OBVIOUS
<1>1. PluginTypeOK
  <2>1. stage \in Stages
    BY DEF PluginInit, Stages
  <2>2. decls \in 0..MaxDecls
    <3>1. decls = 0
      BY DEF PluginInit
    <3>2. MaxDecls \in Nat
      BY PluginAssumption
    <3> QED
      BY <3>1, <3>2
  <2>3. called \subseteq m_enabled \X BOOLEAN
    BY DEF PluginInit
  <2>4. m_enabled \subseteq Visitors /\ m_context \subseteq m_enabled
    BY DEF PluginInit
  <2>5. printed \subseteq m_enabled
    BY DEF PluginInit
  <2> QED
    BY <2>1, <2>2, <2>3, <2>4, <2>5 DEF PluginTypeOK
<1>2. EnabledAsComputed
  BY DEF PluginInit, EnabledAsComputed
<1>3. ContextDuringTraversal
  BY DEF PluginInit, ContextDuringTraversal
<1>4. UnitIsPrinted
  BY DEF PluginInit, UnitIsPrinted
<1> QED
  BY <1>1, <1>2, <1>3, <1>4 DEF PluginInv

(* A step that leaves the configuration alone leaves alone what it enables. *)
LEMMA SameConfigSameEnabled ==
  ASSUME UNCHANGED configVars
  PROVE  {v \in Visitors : computeEnabled(v)}' = {v \in Visitors : computeEnabled(v)}
  BY DEF configVars, computeEnabled, Level, Visitors

LEMMA PluginInvStep == PluginInv /\ [PluginNext]_vars => PluginInv'
<1> SUFFICES ASSUME PluginInv, [PluginNext]_vars
             PROVE  PluginInv'
  OBVIOUS
<1> USE DEF PluginInv
<1>1. CASE ReadCommandLine
  BY <1>1 DEF ReadCommandLine, pluginVars, PluginTypeOK, EnabledAsComputed,
              ContextDuringTraversal, UnitIsPrinted, United
<1>2. CASE ParseArgsFails
  BY <1>2 DEF ParseArgsFails, PluginTypeOK, EnabledAsComputed,
              ContextDuringTraversal, UnitIsPrinted, United, Stages, Traversals
<1>3. CASE CreateASTConsumer
  <2>1. m_enabled = {}
    BY <1>3 DEF CreateASTConsumer, EnabledAsComputed
  <2>2. EnabledAsComputed'
    BY <1>3, SameConfigSameEnabled DEF CreateASTConsumer, EnabledAsComputed
  <2>3. PluginTypeOK'
    BY <1>3, <2>1 DEF CreateASTConsumer, PluginTypeOK, Stages
  <2> QED
    BY <1>3, <2>2, <2>3 DEF CreateASTConsumer, ContextDuringTraversal, UnitIsPrinted, Traversals
<1>4. CASE HandleTopLevelDecl
  <2>1. EnabledAsComputed'
    BY <1>4, SameConfigSameEnabled DEF HandleTopLevelDecl, EnabledAsComputed
  <2>2. PluginTypeOK'
    BY <1>4, PluginAssumption DEF HandleTopLevelDecl, PluginTypeOK, Stages, Traversals
  <2>3. ContextDuringTraversal'
    BY <1>4 DEF HandleTopLevelDecl, ContextDuringTraversal, United
  <2> QED
    BY <1>4, <2>1, <2>2, <2>3 DEF HandleTopLevelDecl, UnitIsPrinted
<1>5. CASE HandleTranslationUnit
  <2>1. EnabledAsComputed'
    BY <1>5, SameConfigSameEnabled DEF HandleTranslationUnit, EnabledAsComputed
  <2>2. PluginTypeOK'
    BY <1>5 DEF HandleTranslationUnit, PluginTypeOK, Stages, Traversals
  <2>3. ContextDuringTraversal'
    BY <1>5 DEF HandleTranslationUnit, ContextDuringTraversal, United
  <2> QED
    BY <1>5, <2>1, <2>2, <2>3 DEF HandleTranslationUnit, UnitIsPrinted
<1>6. ASSUME NEW instance \in BOOLEAN, VisitNode(instance)
      PROVE  PluginInv'
  <2>1. EnabledAsComputed'
    BY <1>6, SameConfigSameEnabled DEF VisitNode, EnabledAsComputed
  <2>2. PluginTypeOK'
    BY <1>6 DEF VisitNode, PluginTypeOK
  <2>3. ContextDuringTraversal'
    BY <1>6 DEF VisitNode, ContextDuringTraversal, United
  <2> QED
    BY <1>6, <2>1, <2>2, <2>3 DEF VisitNode, UnitIsPrinted
<1>7. CASE PrintDiagnostic
  <2>1. EnabledAsComputed'
    BY <1>7, SameConfigSameEnabled DEF PrintDiagnostic, EnabledAsComputed, Traversals
  <2>2. PluginTypeOK'
    BY <1>7 DEF PrintDiagnostic, PluginTypeOK, Stages
  <2>3. ContextDuringTraversal'
    BY <1>7 DEF PrintDiagnostic, ContextDuringTraversal, Traversals
  <2>4. UnitIsPrinted'
    BY <1>7 DEF PrintDiagnostic, UnitIsPrinted, United
  <2> QED
    BY <2>1, <2>2, <2>3, <2>4
<1>8. CASE UNCHANGED vars
  <2>1. EnabledAsComputed'
    BY <1>8, SameConfigSameEnabled DEF vars, pluginVars, EnabledAsComputed
  <2> QED
    BY <1>8, <2>1 DEF vars, pluginVars, PluginTypeOK, ContextDuringTraversal,
                      UnitIsPrinted, United
<1> QED
  BY <1>1, <1>2, <1>3, <1>4, <1>5, <1>6, <1>7, <1>8 DEF PluginNext

LEMMA PluginInvCorrect == PluginSpec => []PluginInv
  BY PluginInvInit, PluginInvStep, PTL DEF PluginSpec

-----------------------------------------------------------------------------

(* A visitor that is not enabled gets neither context nor callbacks. *)
THEOREM PluginTypeCorrect == PluginSpec => []PluginTypeOK
<1>1. PluginInv => PluginTypeOK
  BY DEF PluginInv
<1> QED
  BY <1>1, PluginInvCorrect, PTL

(* No handler runs without the AST context that it dereferences. *)
THEOREM ContextIsAlwaysSet == PluginSpec => []ContextDuringTraversal
<1>1. PluginInv => ContextDuringTraversal
  BY DEF PluginInv
<1> QED
  BY <1>1, PluginInvCorrect, PTL

(* A name has one last mention. *)
LEMMA LastIsUnique ==
  ASSUME log \in Seq(Directive), NEW n, NEW d, NEW e, IsLastAbout(n, d), IsLastAbout(n, e)
  PROVE  d = e
<1>1. PICK i \in 1..Len(log) :
        log[i] = d /\ d.check = n /\ \A j \in 1..Len(log) : log[j].check = n => j <= i
  BY DEF IsLastAbout
<1>2. PICK k \in 1..Len(log) :
        log[k] = e /\ e.check = n /\ \A j \in 1..Len(log) : log[j].check = n => j <= k
  BY DEF IsLastAbout
<1>3. i \in Int /\ k \in Int /\ i <= k /\ k <= i
  BY <1>1, <1>2
<1> QED
  BY <1>1, <1>2, <1>3

LEMMA LastIsMentioned ==
  ASSUME NEW n, NEW d, IsLastAbout(n, d)
  PROVE  Mentioned(n)
  BY DEF IsLastAbout, Mentioned

(* The level in force says what the command line asks for. *)
LEMMA EnabledIsAsked ==
  ASSUME ConfigInv, NEW c \in Names
  PROVE  Level(c) # "Disabled" <=> AskedFor(c)
<1> USE DEF ConfigInv, ConfigTypeOK
<1>1. LastMentionWins
  BY DEF LogIsReplayed, LastMentionWins, Level
<1>2. ASSUME NEW d \in Directive, IsLastAbout(c, d), Level(c) = d.level
      PROVE  Level(c) # "Disabled" <=> AskedFor(c)
  BY <1>2, LastIsUnique, LastIsMentioned DEF AskedFor
<1>3. ASSUME ~Mentioned(c), NEW d \in Directive, IsLastAbout(All, d), Level(c) = d.level
      PROVE  Level(c) # "Disabled" <=> AskedFor(c)
  BY <1>3, LastIsUnique, LastIsMentioned DEF AskedFor
<1>4. ASSUME ~Mentioned(c), ~Mentioned(All), Level(c) = "Disabled"
      PROVE  Level(c) # "Disabled" <=> AskedFor(c)
  BY <1>4, LastIsMentioned DEF AskedFor
<1> QED
  BY <1>1, <1>2, <1>3, <1>4 DEF LastMentionWins

(* Only visitors that the command line asks for are called, whatever the    *)
(* order of its directives.                                                 *)
THEOREM OnlyAskedVisitorsEverRun == PluginSpec => []OnlyAskedVisitorsRun
<1>1. ConfigInv /\ PluginInv => OnlyAskedVisitorsRun
  <2> SUFFICES ASSUME ConfigInv, PluginInv, NEW v \in Visitors,
                      NEW instance \in BOOLEAN, <<v, instance>> \in called
               PROVE  \E c \in CheckNamesOf[v] : AskedFor(c)
    BY DEF OnlyAskedVisitorsRun
  <2>1. v \in m_enabled
    BY DEF PluginInv, PluginTypeOK
  <2>2. PICK c \in CheckNamesOf[v] : Level(c) # "Disabled"
    BY <2>1 DEF PluginInv, EnabledAsComputed, computeEnabled
  <2>3. c \in Names
    BY <2>2, PluginAssumption
  <2> QED
    BY <2>2, <2>3, EnabledIsAsked
<1> QED
  BY <1>1, ConfigInvCorrect, PluginInvCorrect, PTL

(* Every visitor of the unit that the command line asks for has printed its *)
(* diagnostics when the unit is done.                                       *)
THEOREM AskedVisitorsAlwaysPrint == PluginSpec => []AskedVisitorsPrint
<1>1. ConfigInv /\ PluginInv => AskedVisitorsPrint
  <2> SUFFICES ASSUME ConfigInv, PluginInv, stage = "done", NEW v \in Unit,
                      NEW c \in CheckNamesOf[v], AskedFor(c)
               PROVE  v \in printed
    BY DEF AskedVisitorsPrint
  <2>1. v \in Visitors /\ c \in Names
    BY PluginAssumption DEF Visitors
  <2>2. computeEnabled(v)
    BY <2>1, EnabledIsAsked DEF computeEnabled
  <2>3. v \in m_enabled
    BY <2>1, <2>2 DEF PluginInv, EnabledAsComputed
  <2> QED
    BY <2>3 DEF PluginInv, UnitIsPrinted
<1> QED
  BY <1>1, ConfigInvCorrect, PluginInvCorrect, PTL

=============================================================================
