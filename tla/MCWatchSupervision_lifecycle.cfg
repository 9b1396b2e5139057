CONSTANTS
  Procs = {"watch", "http"}
  Threads = {"main", "worker"}
  Users <- MCUsers
  Schema <- MCSchema
  Created = {0, 3}
  None = None
  Watchers = {"watch"}
  Main = "main"
  Heartbeat = 1
  MaxAge = 4
  LockWait = 1
  JoinWait = 0
SPECIFICATION FairSpec
INVARIANTS TypeOK MigratedOnce NoUseBeforeSchema HealthMeansWatched NoFalseAlarm
PROPERTIES DeadThreadEndsProcess Recovers
