SPECIFICATION FairSpec
CONSTANTS
  b1 = b1
  b2 = b2
  b3 = b3
  b4 = b4
  s1 = s1
  s2 = s2
  None = None
  Broker <- Three
  Starter <- OneShell
  Stopper <- OtherShell
  OneAtATime = FALSE
  Service <- LastBroker
  Slow <- FirstBroker
  Crasher <- Nobody
CHECK_DEADLOCK FALSE
PROPERTIES
  EveryCommandEnds
  StartsConverge
