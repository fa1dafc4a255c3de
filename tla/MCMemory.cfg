SPECIFICATION MemorySpec
CONSTANTS
  PG_CNT = 7
  MAX_ORDER = 3
  order2pages <- mc_order2pages
  DMA_PAGES = {2, 3}
  MAX_ARCS = 2
  MAX_DMA = 2
  Page = {1, 2}
  Child = {"c1", "c2"}
  Value = {0, 1}
  Absent = Absent
  PAGE_SIZE = 1
  Boot = boot
  User = {u1, u2, u3}
  Space = {s1, s2, s3, s4, s5}
  Kernel = kernel
  f1 = f1
  f2 = f2
  text = text
  File = {f1, f2, text}
  Elf = {f1, f2}
  FilePages <- mc_FilePages
  KMAP_START = 8
  KMAP_END = 12
  Nothing = nobody
SYMMETRY UserSymmetry
INVARIANTS BuddyInv PagesInv CowInv
  InstalledSpaceIsAlive UserRunsOnItsSpace LoaderReadsItsFile KmapInv
PROPERTIES ImplementsPageFrames PagesUseBuddy FirstWriteCopiesSnapshot
