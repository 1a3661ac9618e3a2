SPECIFICATION Spec
CONSTANTS
    Command = {c1, c2}
    NoCommand = NoCommand
    MaxDeliveries = 2
    MaxAcks = 2
SYMMETRY MCSymmetry
INVARIANT CompletedMeansApplied
INVARIANT RefusedMeansNotApplied
INVARIANT AnswerKeptOrMarked
CHECK_DEADLOCK FALSE
