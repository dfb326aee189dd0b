\* PipelineOrphan
SPECIFICATION Spec
CONSTANTS
    speech = speech
    dtmf = dtmf
    Transcriber = speech
    Handlers = {speech}
    MaxSeq = 2
    MaxFrames = 0
    MaxInterims = 0
    SettleCanFire = TRUE
    StaleFrames = TRUE
    NullFinal = TRUE
    Eager = TRUE
INVARIANTS
    NoOrphanGeneration
\* The call falls silent once the bounds are used up.
CHECK_DEADLOCK FALSE
