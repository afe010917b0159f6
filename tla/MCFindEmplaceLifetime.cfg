SPECIFICATION FairSpec
CONSTANTS
  p1 = p1
  p2 = p2
  Places <- MCPlaces
  NoPlace = NoPlace
  Calls <- MCCalls
  EnabledChecks = {"find-emplace", "try_emplace-instead-emplace"}
  MaxNodes = 5
PROPERTIES
  MatchedIteratorsExist
