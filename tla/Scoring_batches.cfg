SPECIFICATION ScoringSpec
CONSTANTS
    Metric = {"temperature"}
    Tracked = {"temperature"}
    NoValue = NoValue
    MaximumGap = 1
    WindowSize = 3
    MinimumWindow = 2
    MinimumHistory = 3
    Low <- MCLow
    High <- MCHigh
    StuckTolerance <- MCStuck
    NoiseLimit <- MCNoise
    RateLimit <- MCRate
    Value <- MCValue
    Odd <- MCOdd
    Code = {"MODEL_NOT_READY", "MODEL_STALE"}
    ReplayDelay = 2
    MaxRows = 3
    MaxBatchRows = 2
    ContextRows = 3
    MaxFailures = 1
    MaxHours = 1
INVARIANT ScoringInv
INVARIANT ScoredFromHistory
INVARIANT AlarmsFollowNewest
PROPERTY EveryRowJudged
CHECK_DEADLOCK FALSE
