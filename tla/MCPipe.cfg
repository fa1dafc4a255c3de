SPECIFICATION PipeSpec
CONSTANTS
  Task = {1, 2, 3, 4}
  Boot = 1
  WaitList = {"wait_read", "wait_write"}
  TIC_MAX = 1
  Reader = {2}
  Writer = {3, 4}
  Counter = {2}
  READ_LEN = 3
  WRITE_LEN = 2
  READS = 3
  WRITES = 2
  RING_BUFFER_SIZE = 4
  CNT_MOD = 4
INVARIANTS PipeInv ReaderGetsNextBytes ShortReadOnlyAtEnd
PROPERTIES PipeUsesScheduler
