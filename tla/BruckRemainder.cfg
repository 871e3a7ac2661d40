\* A team of three PEs, not a power of two, with two elements per block:
\* the last round sends a partial region.
CONSTANTS
  Cases <- ThreeByTwo
SPECIFICATION Spec
INVARIANTS
  LockstepIsTranspose
