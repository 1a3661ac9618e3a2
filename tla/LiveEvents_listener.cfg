SPECIFICATION LiveSpec
CONSTANTS
    User = {u1}
    Admin = {}
    TokenLife = 1
    MaxClock = 1
    Client = {c1, c2}
    None = None
    MaxEvents = 3
    MaxFaults = 2
INVARIANT LiveInv
INVARIANT EventsArrive
PROPERTY ListenerReturns
