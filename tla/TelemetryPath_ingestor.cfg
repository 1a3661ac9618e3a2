SPECIFICATION PathSpec
CONSTANTS
    Task = {aggregation, health}
    NoTask = NoTask
    HealthTask = health
    Reservation = 2
    MaxHighWater = 4
    MaxResets = 1
    MaxReadErrors = 1
    OfflineAfter = 0
    MaxMessages = 3
    MaxInFlight = 1
    MaxTrouble = 1
INVARIANT PathInv
INVARIANT GatewayNeverCollides
PROPERTY ListensAgain
PROPERTY SilentGoesOffline
CHECK_DEADLOCK FALSE
