SPECIFICATION Spec
CONSTANTS
  Inputs <- Texts
  Length <- TextLength
  Rules <- MCRules
  Windowed <- MCWindowed
  Active <- MCActive
  Hits <- MCHits
  FindAll <- MCFindAll
  Valid <- MCValid
  Candidates <- MCCandidates
  Window <- MCWindow
  EdgeGuard = 1
  Context = 1
  MaxMatches <- NoCap
  Blocks <- RefusedBlocks
  BlockCount = 4
  Patterns <- PairPatterns
INVARIANTS
  ContainsAgreesWithFind
