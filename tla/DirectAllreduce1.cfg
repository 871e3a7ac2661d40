\* Three PEs, one to_all call each, over an out-of-order transport.
CONSTANTS
  N = 3
  NCalls = 1
SPECIFICATION Spec
INVARIANTS
  TypeOK
  SyncAtBaseline
PROPERTIES
  AllCallsReturn
  AllreduceRefinement
