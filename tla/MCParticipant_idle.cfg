SPECIFICATION Spec
CONSTANTS
  aKimi = aKimi
  bKimi = bKimi
  kimiMax = kimiMax
  bang = bang
  max = max
  claude = claude
  maxLauncher = maxLauncher
  s1 = s1
  s3 = s3
  s4 = s4
  kimi = kimi
  g1 = g1
  g2 = g2
  t1 = t1
  t2 = t2
  Model <- Models
  Effort <- Efforts
  Launcher <- Launchers
  Short <- Shorts
  Word <- Words
  shortOf <- ShortOf
  wordsOf <- WordsOf
  NoEffort = NoEffort
  NoLauncher = NoLauncher
  Missing = Missing
  NoEntry = NoEntry
  NoModel = NoModel
  Machinery = Machinery
  Failure = Failure
  NoText = NoText
  NoSession = NoSession
  Installed <- Launchers
  Text <- Texts
  Goal <- Goals
  Task <- Tasks
  Output = Output
  Self = Self
  Other = Other
  otherLog <- Other_s_log
  Version <- Versions
  Service <- Downgraded
  Plain <- Simplest
  MaxEvent = 2
  room <- Room
CHECK_DEADLOCK FALSE
INVARIANTS
  IdleMeansFinished
