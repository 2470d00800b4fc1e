SPECIFICATION Spec
CONSTANTS
  c1 = c1
  c2 = c2
  c3 = c3
  Call <- Two
  Dawdler <- Dawdlers
  MaxRestart = 1
CHECK_DEADLOCK FALSE
INVARIANTS
  ZeroMeansDone
