SPECIFICATION BytesSpec
CONSTANTS
  Lists <- MCLists
  TextLen = 3
  ListLength = 4
  RuleCount = 3
  Layouts <- MCLayouts
  Replacement <- MCReplacement
INVARIANTS
  TypeOK
  LeftmostLongest
  InOrderApart
  TextIsWhole
  AppendsWhatRedactReturns
  SourceSurvives
