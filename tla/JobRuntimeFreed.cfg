CONSTANTS
  rebalance = rebalance
  heartbeat = heartbeat
  portfolio = portfolio
  NoKey = NoKey
  Keys = {portfolio}
  LockKey <- MCLockKey
  Procs = {p1}
  Execs = {e1, e2}
  Jobs = {rebalance, heartbeat}
  Timed = {heartbeat}
  TTL = 1
  HttpReporting = FALSE
  HostDrains = FALSE
  MaxClock = 1
  MaxFaults = 0
  MaxCrashes = 1
SPECIFICATION FairSpec
CHECK_DEADLOCK FALSE
PROPERTY ScopeIsFreed
