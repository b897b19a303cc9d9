SPECIFICATION MCSpec
CONSTANTS
    None = None
    Raised = Raised
    Decisions = {1, 2}
    HashRank <- MCHashRank
    Minutes <- MCMinutes
    Grace = 0
    Interval = 3
    DayOf <- MCDayOf
    Cohorts <- MCCohorts
    Contexts <- MCContexts
    Settlements <- MCSettlements
    Trades <- MCTrades
    Equities = {11}
    Thresholds <- MCThresholds
    StartingEquity = 10
    MaxTime = 8
    Absent = Absent
    MaxClock = 3
    MaxStreamed = 1
    MaxCaptureFaults = 1
    MaxDecisions = 1
    Quarter = 1
    Hour = 2
    ChangeGap = 1
    ClockSkew = 1
    MarkAge = 1
    PriceAge = 1
    OverlayAge = 1
    Lookback = 2
    Cooldown = 1
    MaximumCooldown = 2
    BasisAnswers = {"rate", "limited"}
    OfficialBasis = TRUE
    Markets <- MCMarkets
    Liquidated <- MCLiquidated
    Prices = {101}
    MaxDelay = 1
    Candles <- MCCandles
    LogShare <- MCLogShare
INVARIANTS
    ReportIsFixed OutageSellsNothing SelectionIsExplained PoliciesSurvive NothingLeaks
    OverlayIsPointInTime
CHECK_DEADLOCK FALSE
