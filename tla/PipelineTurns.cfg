\* PipelineTurns
SPECIFICATION FinalsSpec
CONSTANTS
    speech = speech
    dtmf = dtmf
    Transcriber = speech
    Handlers = {speech, dtmf}
    MaxSeq = 2
    MaxFrames = 1
    MaxInterims = 0
    SettleCanFire = FALSE
    StaleFrames = FALSE
    NullFinal = TRUE
    Eager = FALSE
PROPERTIES
    AnsweredEventually
    PipelineFlagClears
\* The call falls silent once the bounds are used up.
CHECK_DEADLOCK FALSE
