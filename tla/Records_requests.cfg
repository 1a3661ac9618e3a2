SPECIFICATION Spec
CONSTANTS
    User = {admin, operator}
    Admin = {admin}
    TokenLife = 1
    MaxClock = 1
    Thread = {t1, t2}
    Sensor = {temperature, current}
    Coefficients = {c1, c2}
    DefaultCoefficients = c0
    Status = {scheduled, completed}
    Day = {1, 2}
    MaxRequests = 3
    MaxFailures = 1
    MaxLogins = 2
SYMMETRY RecordSymmetry
INVARIANT RecordsInv
INVARIANT ChainUnbroken
INVARIANT DueAfterWork
PROPERTY AnswerIsStored
CHECK_DEADLOCK FALSE
