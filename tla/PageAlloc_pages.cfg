SPECIFICATION PagesSpec
CONSTANTS
  Parts = {"pages"}
  Threads = {t1, t2}
  NoThread = NoThread
  Owners = {o1, o2}
  ChunkPages = 2
  MaxPages = 5
  BlockSizes = {1}
  NeedMlock = TRUE
  WeakGet = FALSE
  SlabThreads = {t1, t2}
  NSlabs = 2
  SlabPages = {p1}
  NFreeWant = 1
INVARIANTS PagesExclusive PagesAccounted
PROPERTIES CallsEnd Refinement
