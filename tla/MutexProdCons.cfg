SPECIFICATION FairSpec
CONSTANTS
  Producers = {p1, p2, p3}
  nitems = 4
  Programs = {"prodcons1", "prodcons2", "prodcons6"}
INVARIANTS
  TypeOK
  UnlockedReadIsSafe
  ReadyIsStored
PROPERTIES
  Termination
