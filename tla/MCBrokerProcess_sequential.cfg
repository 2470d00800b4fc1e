SPECIFICATION Spec
CONSTANTS
  b1 = b1
  b2 = b2
  b3 = b3
  b4 = b4
  s1 = s1
  s2 = s2
  None = None
  Broker <- Four
  Starter <- Shells
  Stopper <- Shells
  OneAtATime = TRUE
  Service <- Nobody
  Slow <- Nobody
  Crasher <- Four
CHECK_DEADLOCK FALSE
INVARIANTS
  TypeOK
  ServingIsReachable
  PidfileNamesBroker
  LeftoversAreHarmless
PROPERTIES
  StopTellsTheTruth
SYMMETRY Symmetry
