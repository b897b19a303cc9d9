CONSTANTS
  rebalance = rebalance
  heartbeat = heartbeat
  portfolio = portfolio
  NoKey = NoKey
  Keys = {portfolio}
  LockKey <- MCLockKey
  Procs = {p1}
  Execs = {e1, e2}
  Jobs = {rebalance, heartbeat}
  Timed = {heartbeat}
  TTL = 2
  HttpReporting = TRUE
  HostDrains = FALSE
  MaxClock = 1
  MaxFaults = 2
  MaxCrashes = 1
SPECIFICATION Spec
SYMMETRY MCSymmetry
CHECK_DEADLOCK FALSE
INVARIANT EngineTellsWhatRuns
PROPERTY OutcomeIsFinal
