SPECIFICATION FairSpec
CONSTANTS
  Inputs <- Texts
  Length <- TextLength
  Rules <- MCRules
  Windowed <- MCWindowed
  Active <- MCActive
  Hits <- MCHits
  FindAll <- MCFindAll
  Valid <- MCValid
  Candidates <- MCCandidates
  Window <- MCWindow
  EdgeGuard = 1
  Context = 1
  MaxMatches <- NoCap
  Blocks <- LocalBlocks
  BlockCount = 4
  Patterns <- LocalPatterns
INVARIANTS
  TypeOK
  WindowsSeparate
  WindowsHoldHits
  CoveredIsExact
  NeverAtEdge
PROPERTIES
  ImplementsFullSearch
  Terminates
