SPECIFICATION FairSpec
CONSTANTS
  Instances = {a, b}
  None = None
  Programs = {"prodcons1", "prodcons2", "mycat2"}
  nitems = 3
  NBUFF = 2
INVARIANTS
  TypeOK
  AloneIsRight
  NoNameLeft
PROPERTIES
  AloneEnds
CHECK_DEADLOCK FALSE
