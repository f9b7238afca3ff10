SPECIFICATION Spec
CONSTANTS
  Threads = {t1, t2}
  NoThread = NoThread
  NSlabs = 2
  Pages = {p1, p2}
  NClasses = 2
  PerPage <- MCPerPage
  NFreeWant = 2
SYMMETRY Symmetry
INVARIANTS ElementsSafe PagesSafe CountsExact CpuNotStale
CHECK_DEADLOCK FALSE
