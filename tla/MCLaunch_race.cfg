SPECIFICATION FairSpec
CONSTANTS
  l1 = l1
  l2 = l2
  l3 = l3
  p1 = p1
  p2 = p2
  p3 = p3
  dispatcher = dispatcher
  entry1 = entry1
  entry2 = entry2
  name1 = name1
  NoPid = NoPid
  NoOwner = NoOwner
  NoModel = NoModel
  Anon = Anon
  Launcher <- Three
  Mapping <- Entries
  Base <- Bases
  Pid <- Pids
  mappingOf <- Mixed
  baseOf <- SameBase
  pidOf <- OwnPid
  parentPid <- Nested
  MaxAttempt = 2
  MaxRestart = 1
CHECK_DEADLOCK FALSE
INVARIANTS
  TypeOK
  OneSessionPerName
  RosterLeadsToSession
  RefusedOnlyByNamesake
PROPERTIES
  EveryLaunchEnds
