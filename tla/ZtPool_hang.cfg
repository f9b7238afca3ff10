SPECIFICATION FairSpec
CONSTANTS
  NChans = 1
  NCpus = 2
  Online = {0, 1}
  FailPoints = {"open"}
PROPERTY StopCleansUp
