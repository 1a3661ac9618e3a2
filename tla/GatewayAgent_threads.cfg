SPECIFICATION Spec
CONSTANTS
    on1 = on1
    on2 = on2
    off1 = off1
    bad1 = bad1
    Command <- MCCommand
    Class <- MCClass
    Expires <- MCExpires
    None = None
    Timeout = 1
    TelemetryPeriod = 2
    MaxClock = 3
    MaxFaults = 1
INVARIANT AgentInv
INVARIANT NumbersAreFresh
PROPERTY ReturnsToOff
CHECK_DEADLOCK FALSE
