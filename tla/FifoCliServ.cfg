SPECIFICATION FairSpec
CONSTANTS
  Clients = {c1, c2, c3}
  None = None
  Newline = Newline
  Junk = Junk
  Kinds = {"file", "missing", "part", "bogus", "nofifo"}
  Odd = {c3}
  MayCrash = {c1}
  MaxRuns = 2
  MAXLINE = 3
  FileLen = 2
  PipeCap = 1
INVARIANTS
  TypeOK
  NoEndOfFile
  OneAnswer
  WaitsForTheCaller
PROPERTIES
  ServedUnlessDisturbed
CHECK_DEADLOCK FALSE
