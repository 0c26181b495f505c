SPECIFICATION SettleSpec
CONSTANTS
  Inputs <- MCInputs
  Rules <- MCRules
  Relevant <- MCRelevant
  Secrets <- MCSecrets
  Capped = FALSE
  Replacement <- MCReplacement
  MinDigits = 3
  Blocks <- FuzzBlocks
  BlockCount = 5
  RuleSet <- CutRules
INVARIANTS
  ReplacementsStay
