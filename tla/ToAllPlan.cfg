\* Scaled sizes: MIN_WRKDATA 4, SYNC_SIZE 6, ring chunk 4.  num_pes 4 makes
\* the ring need 8 pSync slots, so all three branches of to_all are taken.
CONSTANTS
  MinWrk = 4
  SyncSize = 6
  Chunk = 4
  NumPes = {2, 3, 4}
  NReduce = {1, 2, 3, 4, 5, 6, 7, 8, 9, 10, 11, 12, 13, 14, 15, 16, 17, 18, 19, 20, 21, 22, 23, 24, 25, 26, 27, 28, 29, 30}
SPECIFICATION Spec
INVARIANTS
  ScratchInBounds
