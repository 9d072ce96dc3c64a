SPECIFICATION FairSpec
CONSTANTS
  Producers = {p1, p2}
  Consumers = {c1, c2}
  nitems = 3
  NBUFF = 2
INVARIANTS
  TypeOK
  NoErrorReported
  SlotsConserved
PROPERTIES
  ImplementsFifo
  Termination
