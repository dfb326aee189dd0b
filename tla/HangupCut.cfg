SPECIFICATION FairSpec
CONSTANTS
    MaxTurns = 2
    Confs <- CutConfs
INVARIANTS TeardownNeverCut
CHECK_DEADLOCK FALSE
