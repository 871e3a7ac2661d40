\* Four PEs in two clusters of two, one call of gcen or of the broadcast
\* family (broadcast takes the pull path at four PEs): every completion
\* order of the operations, both counter levels of gcen, leaders and members.
CONSTANTS
  N = 4
  NCalls = 1
  Variants = {"gcen", "alltoall_broadcast", "broadcast"}
  Root = 0
SPECIFICATION Spec
INVARIANTS
  TypeOK
  ResultAtReturn
  BuffersReleasedAtReturn
  SyncAtBaseline
PROPERTIES
  BarrierRefinement
  AllCallsReturn
