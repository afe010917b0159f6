SPECIFICATION PluginSpec
CONSTANTS
  Names <- MCNames
  All = "all"
  MaxDirectives = 3
  TopLevel <- MCTopLevel
  Unit <- MCUnit
  CheckNamesOf <- MCCheckNamesOf
  Resetting <- MCResetting
  WantsInstances <- MCWantsInstances
  MaxDecls = 2
INVARIANTS
  ConfigTypeOK
  LastMentionWins
  PluginTypeOK
  ContextDuringTraversal
  OnlyAskedVisitorsRun
  AskedVisitorsPrint
CHECK_DEADLOCK FALSE
