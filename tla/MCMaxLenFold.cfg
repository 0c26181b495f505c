SPECIFICATION Spec
CONSTANTS
  windowCap = 8
  MaxSize = 5
  Runes <- WithKelvin
  Ranges <- MCRanges
  Repeats <- MCRepeats
  FoldOrbit <- MCFoldOrbit
INVARIANTS
  BoundHolds
