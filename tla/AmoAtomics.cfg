\* Three PEs, each issuing one amo_set, amo_cas or amo_add on a one-bit
\* word, on the IPC or the queue-pair path, from either initial value.
CONSTANTS
  p1 = p1
  p2 = p2
  p3 = p3
  PEs <- MCPEs3
  W = 1
  OpKinds = {"set", "cas", "add"}
SPECIFICATION Spec
INVARIANTS
  SetsSerialOutcome
PROPERTIES
  AllCallsReturn
