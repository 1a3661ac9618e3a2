SPECIFICATION FairSpec
CONSTANTS
    Capacity = 2
    LiveCapacity = 1
    GenModulus = 3
    MaxSequence = 5
    MaxCrashes = 1
    MaxNvsErrors = 0
PROPERTY DurableFifo
PROPERTY QueueDrains
