SPECIFICATION Spec
CONSTANTS
  NChans = 2
  NCpus = 1
  Online = {0}
  FailPoints = {}
INVARIANT WaitsForAll
