\* PipelineBargeIn
SPECIFICATION SafetySpec
CONSTANTS
    speech = speech
    dtmf = dtmf
    Transcriber = speech
    Handlers = {speech, dtmf}
    MaxSeq = 3
    MaxFrames = 1
    MaxInterims = 1
    SettleCanFire = TRUE
    StaleFrames = TRUE
    NullFinal = FALSE
    Eager = FALSE
INVARIANTS
    TypeOK
    SpokenTextIsRecorded
    RecordedWasSpoken
    NoOrphanWithoutEager
    UtteranceOnce
PROPERTIES
    NeverBackToOlderTurn
    BargeInSilences
    RecordSpec
\* The call falls silent once the bounds are used up.
CHECK_DEADLOCK FALSE
