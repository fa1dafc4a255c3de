SPECIFICATION BytesSpec
CONSTANTS
  RING_BUFFER_SIZE = 3
  Byte = {0, 1}
  MAX_BUF = 4
  ZERO = 0
  PAGE_SIZE = 3
  FILE_LEN = 7
  MAX_LEN = 12
  Offsets = {0, 3, 9}
  Makers = {"elf", "mmap"}
  fa = fa
  fb = fb
  File = {fa, fb}
  d1 = d1
  d2 = d2
  DFile = {d1, d2}
  Flags <- MCFlags
  SECTOR = 2
  CLUSTER_SIZE = 4
  TOTAL_CLUSTERS = 3
  HALF = 2
  InitialSize <- MCInitialSize
  InitialChain <- MCInitialChain
  INITIAL_HINT = 4
  MAX_FILE_SIZE = 5
  Lens = {3, 4}
  MAX_WRITES = 2
  MAX_RESTARTS = 1
INVARIANTS RingInv FilePageInv FatInv PowerLossLeavesVolumeSound
PROPERTIES ImplementsFifo ImplementsFiles
