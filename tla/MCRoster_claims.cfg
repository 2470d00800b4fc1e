SPECIFICATION Spec
CONSTANTS
  w1 = w1
  w2 = w2
  w3 = w3
  p1 = p1
  p2 = p2
  m1 = m1
  m2 = m2
  lo = lo
  hi = hi
  Anon = Anon
  NoOwner = NoOwner
  NoPid = NoPid
  NoModel = NoModel
  Handle <- ThreeHandles
  Pid <- Pids
  Model <- OneModel
  Effort <- OneEffort
  PidReuse = FALSE
PROPERTIES
  ClaimsSurviveOwner
