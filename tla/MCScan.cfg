SPECIFICATION ScanSpec
CONSTANTS
  Bytes <- MCBytes
  AnchorLists <- MCAnchorLists
  MaxStates = 12
  RuleCount = 3
  Texts <- MCTexts
INVARIANTS
  TypeOK
  TrieIsExact
  MovesToLongestSuffix
  OutputsAreSuffixes
  EachStateOnce
  RulesAreExact
  HitsAreOccurrences
  HitsInOrder
