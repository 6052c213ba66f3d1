CONSTANTS
  Proc = {1, 2, 3, 4, 5, 6}
  Torn = torn
  Word = 16
  Setups <- SetupSet
  Daemon = {"a", "b", "c"}
  Inode = {1, 2, 3}
  Day = 2
  LastTick = 4
  Changes = 4
  Repeats = {TRUE, FALSE}
  Texts <- TextSet
SPECIFICATION FairSpec
CHECK_DEADLOCK FALSE
INVARIANT CountExact
INVARIANT OneChildPerKind
INVARIANT OneDaemon
INVARIANT ScheduledAsWritten
PROPERTY ImplementsLock
PROPERTY ChildrenSettle
