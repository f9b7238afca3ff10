SPECIFICATION SlabSpec
CONSTANTS
  Parts = {"pages", "slab"}
  Threads = {t1}
  NoThread = NoThread
  Owners = {o1, o2}
  ChunkPages = 4
  MaxPages = 5
  BlockSizes = {1, 2, 4}
  NeedMlock = FALSE
  WeakGet = TRUE
  SlabThreads = {t1, t2}
  NSlabs = 2
  SlabPages = {p1}
  NFreeWant = 1
INVARIANT BlocksSafe
PROPERTIES FailsOnlyWhenFull SlabCallsEnd
CHECK_DEADLOCK FALSE
