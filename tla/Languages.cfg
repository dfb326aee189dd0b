SPECIFICATION LanguagesSpec
CONSTANTS
  EarLabels = {"en", "hi", "ta"}
  VoiceLabels = {"en", "hi"}
  FirstLabel = "en"
  Flows = {"llm", "deadjudge", "legacy"}
  MaxTurns = 2
  MaxSegments = 2
  MaxDeaths = 1
  MaxReconnects = 1
  LidProviders = {"soniox", "sarvam"}
  LidCap = 2
  LidQueue = 1
  MaxDrops = 2
  MaxHeard = 2
CHECK_DEADLOCK FALSE
INVARIANTS LanguagesTypeOK OneLanguage VoicesInOrder OldLanguageHeld EveryUtteranceOnce
PROPERTIES StaleDecisionDropped SwitchProgress DetectorProgress
