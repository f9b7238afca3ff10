SPECIFICATION Spec
CONSTANTS
  Threads = {t1}
  NoThread = NoThread
  Files = {f1, f2}
  NPages = 2
  PageSize = 1
  NBlocks = 6
  Per <- TightPer
  Values = {1}
  Ranges <- AllRanges
  Ops = {"write", "falloc", "punch", "zero", "collapse", "trunc", "clonefile", "clonerange", "mmap"}
  MaxRef = 3
INVARIANTS RefsCovered PoolExact
PROPERTIES LostByCowOnly ClonesIndependent
SYMMETRY Symmetry
