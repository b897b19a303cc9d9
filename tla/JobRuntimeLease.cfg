CONSTANTS
  rebalance = rebalance
  heartbeat = heartbeat
  portfolio = portfolio
  NoKey = NoKey
  Keys = {portfolio}
  LockKey <- MCLockKey
  Procs = {p1, p2}
  Execs = {e1, e2, e3}
  Jobs = {rebalance}
  Timed = {}
  TTL = 1
  HttpReporting = FALSE
  HostDrains = TRUE
  MaxClock = 1
  MaxFaults = 0
  MaxCrashes = 1
SPECIFICATION Spec
SYMMETRY MCSymmetry
CHECK_DEADLOCK FALSE
INVARIANT ScopeExclusion
INVARIANT LeaseExclusion
INVARIANT OncePerWindow
