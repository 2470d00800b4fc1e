SPECIFICATION FairSpec
CONSTANTS
  h1 = h1
  h2 = h2
  c1 = c1
  c2 = c2
  Handle <- TwoHandles
  Conn <- TwoConns
  handleOf <- AllOnOne
  Staller <- TwoConns
  Large <- FirstMsg
  HasOutq <- FirstConn
  MaxMsg = 3
INVARIANTS
  TypeOK
  NothingLost
  ReadOnce
  NoSleepOnMail
  LapseNeedsStall
  FifoWithoutOverlap
PROPERTIES
  KeepsPromise
  EveryRecvEnds
  InterruptedMailReturns
  MailIsTaken
CHECK_DEADLOCK FALSE
