\* PipelineRetracted
SPECIFICATION Spec
CONSTANTS
    speech = speech
    dtmf = dtmf
    Transcriber = speech
    Handlers = {speech}
    MaxSeq = 1
    MaxFrames = 1
    MaxInterims = 0
    SettleCanFire = TRUE
    StaleFrames = TRUE
    NullFinal = TRUE
    Eager = TRUE
PROPERTIES
    RetractedNeverSpoken
\* The call falls silent once the bounds are used up.
CHECK_DEADLOCK FALSE
