SPECIFICATION TreeSpec
CONSTANTS
  top = top
  dir = dir
  fa = fa
  fc = fc
  Entry = {top, dir, fa, fc}
  Root = top
  IsDir = {top, dir}
  DirOf <- mc_DirOf
  Missing = missing
  Up = up
  Holder = {h1, h2}
  Inode = {1, 2, 3, 4, 5, 6, 7, 8}
  MAX_LISTED = 4
  MAX_DEPTH = 3
  User = {u1, u2}
  Kernel = kernel
  ROOT = 5
  FANOUT = 2
  UserRoot = {0, 1}
  BootBig = {1, 2}
  DevPage <- mc_DevPage
  UserProbe <- mc_UserProbe
  KernProbe <- mc_KernProbe
  Table = {1, 2, 3, 4, 5, 6, 7, 8}
  Frame = {101}
  Perm <- mc_Perm
  Order = {1}
SYMMETRY TreeSymmetry
INVARIANTS InodeInv PtInv StaleNeverWrong
PROPERTIES NoneDiedNoneDoubled ImplementsSpaces
