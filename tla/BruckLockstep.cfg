\* Team sizes 1..16 with one element per block, and power-of-two teams with
\* several elements per block.
CONSTANTS
  Cases <- PassCases
SPECIFICATION Spec
INVARIANTS
  LockstepIsTranspose
  FcollectIsConcat
