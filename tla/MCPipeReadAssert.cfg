SPECIFICATION PipeSpec
CONSTANTS
  Task = {1, 2, 3}
  Boot = 1
  WaitList = {"wait_read", "wait_write"}
  TIC_MAX = 0
  Reader = {2}
  Writer = {3}
  Counter = {}
  READ_LEN = 3
  WRITE_LEN = 2
  READS = 1
  WRITES = 2
  RING_BUFFER_SIZE = 4
  CNT_MOD = 4
INVARIANT
  ReadMovesExactly
