\* Four PEs (two rounds), one element per block.
CONSTANTS
  N = 4
  NE = 1
SPECIFICATION Spec
INVARIANTS
  TransposeCorrect
