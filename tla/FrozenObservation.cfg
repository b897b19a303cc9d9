CONSTANTS
  boot = boot
  cliStart = cliStart
  lane = lane
  job = job
  cliEvaluate = cliEvaluate
  cliStop = cliStop
  frozen = frozen
  other = other
  Starts = {boot, cliStart}
  Lanes = {lane}
  Evaluations = {job, cliEvaluate}
  Interrupts = {cliStop}
  EngineStart = boot
  EngineJob = job
  Identities = {frozen, other}
  IdentityOf <- MCIdentityOf
  Pairs = {1}
  Quiet <- MCQuiet
  Duration = 1
  Horizons = {1}
  Grace = 1
  StaleAfter = 0
  MaxClock = 2
  MaxCommands = 1
  MaxCrashes = 1
SPECIFICATION FairSpec
CHECK_DEADLOCK FALSE
INVARIANTS EvidenceIsFrozen TradesAreFrozen EndMatchesStatus DelayIsNotMissing
PROPERTIES OutcomesAreFinal OutcomesAreFilled ExperimentCloses
