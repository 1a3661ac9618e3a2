SPECIFICATION Spec
CONSTANTS
    Version = {w1, w2}
    Trainer = {t1, t2}
    None = None
    RowCounts = {70, 100, 105}
    MinimumRows = 50
    MaxAge = 1
    MaxClock = 3
    MaxTrainings = 2
    MaxFaults = 2
INVARIANT StoreInv
INVARIANT TrainedLoads
PROPERTY ViewSettles
CHECK_DEADLOCK FALSE
