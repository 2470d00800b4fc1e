SPECIFICATION Spec
CONSTANTS
  b1 = b1
  b2 = b2
  b3 = b3
  b4 = b4
  s1 = s1
  s2 = s2
  None = None
  Broker <- Three
  Starter <- Shells
  Stopper <- Nobody
  OneAtATime = FALSE
  Service <- Nobody
  Slow <- Nobody
  Crasher <- Nobody
CHECK_DEADLOCK FALSE
INVARIANTS
  OneBroker
