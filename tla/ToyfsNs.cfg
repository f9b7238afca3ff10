CONSTANTS
  n1 = n1
  n2 = n2
  n3 = n3
  Names <- MCNames
  Nde <- MCNde
  Inos = {1, 2, 3}
  NSlots = 2
  Threads = {t1, t2}
  Root = 1
  NPages = 4
  InoPerPage = 2
  Kinds = {"dir", "lnk32", "longlnk"}
  MaxHeld = 2
  BufSize = 3
  ScanDirs = {1}
  XattrInos = {2}
  MaxFfree = 2
SPECIFICATION Spec
SYMMETRY Symmetry
INVARIANTS NlinkExact PoolConserved InodesKept DirConsistent ReaddirRight
PROPERTIES NameSpaceSpec 
CHECK_DEADLOCK FALSE
