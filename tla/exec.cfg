SPECIFICATION FairSpec
CONSTANTS
    MaxAttempts = 2
    PipeSize = 1
    Input = 2
    MaxOutput = 2
INVARIANTS TypeOK NothingCutOff
PROPERTIES NobodyBlocks CallReturns
