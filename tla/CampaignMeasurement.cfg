SPECIFICATION FairSpec
CONSTANTS
    w1 = w1
    w2 = w2
    turn = turn
    measure = measure
    i1 = i1
    i2 = i2
    r1 = r1
    r2 = r2
    e1 = e1
    e2 = e2
    NoWorker = NoWorker
    NoResult = NoResult
    Workers <- MCWorkers
    Keys <- MeasureOnly
    Repeatable <- MCRepeatable
    Inputs <- OneInput
    Results <- MCResults
    Evidence <- OneEvidence
    MaximumAttempts = 2
    RowBound = 3
INVARIANT StableResult
PROPERTY StepTerminates
