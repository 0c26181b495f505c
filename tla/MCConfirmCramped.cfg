SPECIFICATION FairSpec
CONSTANTS
  Inputs <- Texts
  Length <- TextLength
  Rules <- MCRules
  Windowed <- MCWindowed
  Active <- MCActive
  Hits <- MCHits
  FindAll <- MCFindAll
  Valid <- MCValid
  Window <- MCWindow
  EdgeGuard = 1
  MaxMatches <- NoCap
  Blocks <- CrampedBlocks
  BlockCount = 4
  Patterns <- CrampedPatterns
INVARIANTS
  AllOrNothing
