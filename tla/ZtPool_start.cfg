SPECIFICATION FairSpec
CONSTANTS
  NChans = 1
  NCpus = 3
  Online = {0, 2}
  FailPoints = {"calloc", "create", "open", "zinit", "mmap", "buff"}
INVARIANTS WaitsForAll UpMeansServing MemorySafe
PROPERTY CallsEnd
