SPECIFICATION Spec
CONSTANTS
  Inputs <- Texts
  Length <- TextLength
  Rules <- MCRules
  Windowed <- MCWindowed
  Active <- MCActive
  Hits <- MCHits
  FindAll <- MCFindAll
  Valid <- MCValid
  Candidates <- MCCandidates
  Window <- MCWindow
  EdgeGuard = 1
  Context = 1
  MaxMatches = 1
  Blocks <- LocalBlocks
  BlockCount = 4
  Patterns <- WordPatterns
INVARIANTS
  CapIsPerCall
