\* Two PEs: an amo_set racing an amo_cas or amo_add on the same word.
CONSTANTS
  p1 = p1
  p2 = p2
  p3 = p3
  PEs <- MCPEs2
  W = 2
  OpKinds = {"set", "cas", "add"}
SPECIFICATION Spec
INVARIANTS
  SerialOutcome
