\* Three PEs, two segments, one call: both phases of the ring, a neighbour
\* running up to a segment ahead, and the reuse of pSync[round] across
\* segments with a new wait_val.
CONSTANTS
  N = 3
  NSeg = 2
  NCalls = 1
  Team = {0, 1, 2}
SPECIFICATION Spec
INVARIANTS
  TypeOK
PROPERTIES
  AllCallsReturn
  AllreduceRefinement
