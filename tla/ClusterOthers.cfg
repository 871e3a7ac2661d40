\* Four PEs, one call of gcen2, fcollect_gcen or fcollect_gcen2: the
\* cluster counter overlapped with step 1, and internal_sync over the
\* cluster and over each ring group.
CONSTANTS
  N = 4
  NCalls = 1
  Variants = {"gcen2", "fcollect_gcen", "fcollect_gcen2", "fcollect_broadcast"}
  Root = 0
SPECIFICATION Spec
INVARIANTS
  ResultAtReturn
  SyncAtBaseline
PROPERTIES
  AllCallsReturn
