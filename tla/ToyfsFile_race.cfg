SPECIFICATION Spec
CONSTANTS
  Threads = {t1, t2}
  NoThread = NoThread
  Files = {f1, f2, f3}
  NPages = 1
  PageSize = 2
  NBlocks = 6
  Per <- MCPer
  Values = {1}
  Ranges <- AllRanges
  Ops = {"write", "trunc", "clonefile"}
  MaxRef = 3
INVARIANT LiveRefcnt
SYMMETRY Symmetry
