SPECIFICATION FairSpec
CONSTANTS
  Programs = {"fifo", "mainpipe", "pipe", "fduplex", "stream"}
  FileLen = 3
  PipeCap = 2
INVARIANTS
  TypeOK
  AnswerIsWhole
PROPERTIES
  EverybodyEnds
CHECK_DEADLOCK FALSE
