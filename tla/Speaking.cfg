SPECIFICATION SpeakSpec
CONSTANTS
    Engines = {"elevenlabs", "elevenlabsV3", "cartesia", "deepgram", "sarvam", "smallest",
               "rime", "maya", "pixa", "soniox", "kalpa"}
    MaxTurn = 2
    Pairs = {1}
    EndTexts = {FALSE}
    MaxLost = 1
    MaxFails = 1
CHECK_DEADLOCK FALSE
INVARIANTS
    SpeakTypeOK
    OwnAudio
    OwnEnd
    NotMuted
    SpokenOnce
    UtterancesApart
    LabelsOfValidTurns
    TurnEnds
    UndisturbedTurnEnds
PROPERTIES
    SendersFinish
