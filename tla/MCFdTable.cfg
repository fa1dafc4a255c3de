SPECIFICATION FdSpec
CONSTANTS
  Task = {1, 2}
  Init1 = 1
  MAX_OPENED = 3
  PIPES = 1
  RING_BUFFER_SIZE = 1
INVARIANTS FdInv WriteCntIsLiveWriters
PROPERTIES FailureLeavesNothing
