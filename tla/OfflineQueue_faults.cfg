SPECIFICATION Spec
CONSTANTS
    Capacity = 2
    LiveCapacity = 1
    GenModulus = 3
    MaxSequence = 4
    MaxCrashes = 2
    MaxNvsErrors = 2
INVARIANT MemoryMatchesFlash
INVARIANT LossIsReported
INVARIANT NamedSlotsArePresent
INVARIANT OvertakenOnlyWhenFull
