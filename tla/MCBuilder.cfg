SPECIFICATION Spec
CONSTANTS
  Choices <- MCChoices
  MaxAdded = 5
  Options <- MCOptions
  OptionLists <- MCOptionLists
  DefaultMarker = "REDACTED"
  Compiles <- MCCompiles
  Groups <- MCGroups
  maxMatchLen <- MCMaxMatchLen
  Matches <- MCMatches
  asciiLower <- MCLower
  WordSize = 2
  hitWords = 2
  MaxStates = 9
INVARIANTS
  TypeOK
  NoRuleMatchesAReplacement
  CapIsTheLastAskedFor
PROPERTIES
  BuildKeepsEveryRule
  BuildDecides
