SPECIFICATION Spec
CONSTANTS
  Zis = {z1, z2}
  Chans = {c1, c2}
  Vectors <- MCVectors
  MaxGets = 2
  MaxHandles = 2
  Sent = {"fallocate"}
  IomMax = 4
  Words <- MCWords
  IomVals = {7, 8}
  SizeLists <- MCSizeLists
  MaxRmem = 1
  Libs <- MCLibs
  BufLens = {2, 4}
  DbgTokens = 4
  DbgPlaces = {"p1", "p2"}
  DbgLines = {"1", "2"}
  MaxPhrases = 3
  MapPages = 4
  MapPageSize = 2
  FieMax = {1, 2, 3}
INVARIANTS CmdCallsSafe CmdGetsBalanced CmdInodesMatch IomSafe MdRight DbgRight LayoutExact
SYMMETRY Symmetry
