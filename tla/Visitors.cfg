SPECIFICATION Spec
CONSTANTS
  MaxNodes = 7
  FewNodes = 6
  Pointers = {p, q}
INVARIANTS
  VisitorsTypeOK
  PositionsAreExact
  SeedFlagIsSound
  MembersAreInitializable
  LastReferencesAreAssignments
  ReportsAreLastSeen
  PendingReleasesAreExact
  LockedMutexesAreReported
  SelfCopiesAreCopies
PROPERTIES
  OneShotsAreSound
CHECK_DEADLOCK FALSE
