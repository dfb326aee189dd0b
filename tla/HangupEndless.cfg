SPECIFICATION FairSpec
CONSTANTS
    MaxTurns = 2
    Confs <- EndlessConfs
PROPERTIES EveryHangupEnds
CHECK_DEADLOCK FALSE
