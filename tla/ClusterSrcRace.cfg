\* Four PEs, one call of gcen2 or fcollect_gcen: the cluster amo_add goes
\* out with the step-1 gets, before the quiet that completes them.
CONSTANTS
  N = 4
  NCalls = 1
  Variants = {"gcen2", "fcollect_gcen"}
  Root = 0
SPECIFICATION Spec
INVARIANTS
  BuffersReleasedAtReturn
