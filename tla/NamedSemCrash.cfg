SPECIFICATION Spec
CONSTANTS
  Instances = {a, b}
  None = None
  Programs = {"prodcons1"}
  nitems = 3
  NBUFF = 2
INVARIANTS
  NoErrorReported
CHECK_DEADLOCK FALSE
