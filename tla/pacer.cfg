SPECIFICATION FairSpec
CONSTANTS
  file = file
  udp = udp
  Threads = {file, udp}
  interval_nanos = 2
  MaxStart = 3
  MaxTime = 9
INVARIANTS
  SlotsAreSpaced
  RateIsBounded
PROPERTY
  EveryCallReturns
CHECK_DEADLOCK FALSE
