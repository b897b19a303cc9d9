CONSTANTS
  main = main
  btc = btc
  eth = eth
  r1 = r1
  r2 = r2
  r3 = r3
  r4 = r4
  paperKrw = paperKrw
  Portfolios = {main}
  Assets = {btc}
  Identities = {paperKrw}
  IntentIds <- MCIntentIds
  Quantities <- MCAmounts
  Prices <- MCAmounts
  Fees <- MCAmounts
  Deposits <- MCAmounts
  Times <- MCTimes
  Account = main
  Identity = paperKrw
  InitialCash = 10000
  Levels = {100, 50}
  MaximumPositions = 2
  InvestedPercent = 90
  AssetPercent = 50
  MinimumOrderNotional = 150
  RebalancePercent = 1
  FeePercent = 2
  SlippagePercent = 1
  RequiredConfirmations = 2
  Cooldown = 2
  MaximumHolding = 3
  DayLength = 4
  SellWeightPercent = 100
  TurnoverPercent = 100
  DailyFeePercent = 50
  LossPercent = 10
  JobExecutes = TRUE
  Deadline = 7
  Runs = {r1, r2, r3, r4}
  ClientAsOf = {}
  MaxClock = 6
  MaxCrashes = 1
SPECIFICATION Spec
SYMMETRY MCSymmetry
CHECK_DEADLOCK FALSE
INVARIANTS EntryIsConfirmed CooldownHolds
