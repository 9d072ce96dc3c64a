SPECIFICATION Spec
CONSTANTS
  Producers = {p1, p2}
  Consumer = c
  nitems = 3
  NBUFF = 2
INVARIANTS
  NoErrorReported
CHECK_DEADLOCK FALSE
