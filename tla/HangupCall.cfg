SPECIFICATION FairSpec
CONSTANTS
    MaxTurns = 2
    Confs <- CallConfs
INVARIANTS TypeOK StoppedOnce RescuedStaysOnTheLine WindowOnlyInGoodbye
PROPERTIES CommittedDisconnectFinishes OnlyDeadlineCutsGoodbye HangupEnds
CHECK_DEADLOCK FALSE
