SPECIFICATION Spec
CONSTANTS
  windowCap = 8
  MaxSize = 7
  Runes <- PlainRunes
  Ranges <- MCRanges
  Repeats <- MCRepeats
  FoldOrbit <- MCFoldOrbit
INVARIANTS
  BoundHolds
  BoundIsTight
CHECK_DEADLOCK FALSE
