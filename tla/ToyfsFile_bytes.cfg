SPECIFICATION Spec
CONSTANTS
  Threads = {t1}
  NoThread = NoThread
  Files = {f1, f2}
  NPages = 2
  PageSize = 2
  NBlocks = 4
  Per <- MCPer
  Values = {1}
  Ranges <- AllRanges
  Ops = {"write", "falloc", "punch", "trunc", "clonefile"}
  MaxRef = 2
PROPERTIES NothingElseChanges EffectOnReturn
SYMMETRY Symmetry
