SPECIFICATION MmSpec
CONSTANTS
  PAGE_SIZE = 2
  Proc = {1, 2}
  First = 1
  Load <- mc_Load
  USER_HEAP = 2
  MMAP_TOP = 12
  USER_STACK = 14
  USER_SPACE_END = 16
  Requests <- mc_Requests
  Hints = {8, 9, 10, 12}
  Brks = {0, 5, 7, 9}
  Touched = {8}
INVARIANTS MmInv PageTableMatchesTrees
PROPERTIES ReadsSurvive
