SPECIFICATION MCSpec
CONSTANTS
  Processes = {l1, l2, l3}
  Programs = {"lockmain", "onedaemon", "test3"}
  nloop = 3
  PidLength <- PidLengths
  ShortPid = l1
  MaxCrashes = 1
  Counters = {p1, p2}
  Servers = {s1, s2}
  None = None
  CounterPrograms = {"client1", "incr", "incr3"}
  increments = 3
  Clients = {c1, c2}
  NMESG = 2
  messages = 2
  Values = 3
INVARIANTS
  TypesOK
  NoIncrementLost
  EveryMessageCounts
  SafeInTurn
  OneDaemon
  SignalsAreKept
PROPERTIES
  EverybodyStops
CHECK_DEADLOCK FALSE
