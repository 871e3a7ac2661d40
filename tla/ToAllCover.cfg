\* The same scaled sizes with pSync large enough for the ring on every
\* num_pes, so only the direct and ring branches are taken.
CONSTANTS
  MinWrk = 4
  SyncSize = 8
  Chunk = 4
  NumPes = {2, 3}
  NReduce = {1, 2, 3, 4, 5, 6, 7, 8, 9, 10, 11, 12, 13, 14, 15, 16, 17, 18, 19, 20}
SPECIFICATION Spec
INVARIANTS
  ReducesEveryElement
