SPECIFICATION Spec
CONSTANTS
  Sbs = {s1, s2}
  NLibs = 2
  WantPages = TRUE
  Hosts = {"main", "mounter", "zt"}
INVARIANTS MountsSafe SignalsContained
PROPERTIES PrivateClean Answered ProcessEnds
CHECK_DEADLOCK FALSE
