SPECIFICATION Spec
CONSTANTS
    Seqs = {s1, s2, s3}
    NoSeq = none
    Depth = 2
    SequenceMax = 3
    ScanBudget = 125472
    MaxTokens = 2
    MaxNow = 2
    LeaveMidStep = FALSE
    CommitFaults = FALSE
INVARIANT
    BatchInv
PROPERTY
    StepIsAtomic
CHECK_DEADLOCK FALSE
