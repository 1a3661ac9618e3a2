SPECIFICATION FairSpec
CONSTANTS
    Command = {1, 2}
    Form <- MCSwitching
    NoCommand = NoCommand
    QueueLength = 1
    LockAfter = 3
    MaxDeliveries = 2
    MaxBoots = 4
INVARIANT EnergizedIsTimed
INVARIANT RelayOffInRebootLoop
INVARIANT OffAcknowledgedWhenOff
PROPERTY RelayReturnsToOff
