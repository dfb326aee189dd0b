SPECIFICATION SttSpec
CONSTANTS
  Providers = {"nova", "flux", "soniox", "gemini", "elevenlabs", "pixa", "sarvam", "assemblyai", "smallest", "gladia", "openai", "azure", "google", "deepgramHttp", "assemblyaiHttp", "sarvamHttp"}
  MaxUtt = 2
  MaxRuns = 2
  MaxWire = 2
CHECK_DEADLOCK FALSE
INVARIANTS SttTypeOK ClosedOnceAndLast OneWatchdog
PROPERTIES LateFinalNotRepeated TranscriberProgress
