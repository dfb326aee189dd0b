-------------------------- MODULE TurnTranscribers --------------------------
(***************************************************************************)
(* The transcribers that end a turn themselves and watch over it: Deepgram *)
(* Nova and Flux, Soniox, Gemini, ElevenLabs and Pixa.  Each provider's    *)
(* receiver is an operator from a message to a Result of Transcriber, its  *)
(* watchdog and its coroutines are actions.                                *)
(***************************************************************************)
EXTENDS Transcriber

---------------------------------------------------------------------------
\* Deepgram, Nova models.

\* deepgram_connect: one attempt, every failure is a ConnectionError.
DeepgramConnect == {"open", "refused"}

\* Results: an interim for any words; is_final words join final_transcript;
\* speech_final sends it unless the turn was sent, and clears the turn inline.
NovaResults(m) ==
    LET said == [turn EXCEPT !.flag = FALSE, !.open = TRUE, !.interim = {m.utt},
                             !.clock = TRUE, !.sent = FALSE]
        final == IF m.kind = "partial" THEN said.final ELSE said.final \cup {m.utt}
    IN IF m.kind = "endpoint"
       THEN Result([said EXCEPT !.open = FALSE, !.interim = {}, !.final = {}, !.sent = TRUE],
                   [Interim EXCEPT !.words = final])
       ELSE Result([said EXCEPT !.final = final], Interim)

\* UtteranceEnd: sends what speech_final has not, or reports the end of speech.
NovaUtteranceEnd ==
    LET over == [turn EXCEPT !.open = FALSE, !.interim = {}, !.final = {}]
    IN IF ~turn.sent /\ turn.final # {}
       THEN Result([over EXCEPT !.sent = TRUE], Words(turn.final))
       ELSE Result([over EXCEPT !.flag = FALSE], Ended)

\* SpeechStarted only marks the turn as pending; Metadata changes no turn.
NovaReceiver(m) ==
    CASE m.kind = "started" ->
            Result([turn EXCEPT !.flag = ~turn.open \/ @, !.sent = FALSE], Silent)
      [] m.kind = "ended" -> NovaUtteranceEnd
      [] OTHER -> NovaResults(m)

\* _reset_turn_state
DeepgramReset == [NoTurn EXCEPT !.sent = TRUE]

\* _force_finalize_utterance: the final words, else the last interim.
Forced(t) == IF t.final # {} THEN t.final ELSE t.interim
\* (mutant) only final words are released
NovaForceFinalOnly == Release(turn.final # {} /\ turn.clock /\ ~turn.sent,
                              turn.final, Words(turn.final), DeepgramReset)
NovaForce == Release(turn.final \cup turn.interim # {} /\ turn.clock /\ ~turn.sent,
                     Forced(turn), Words(Forced(turn)), DeepgramReset)

\* monitor_utterance_timeout, past interim_timeout
NovaWatchdog == stt = "nova" /\ NovaForce /\ UNCHANGED stt

---------------------------------------------------------------------------
\* Deepgram, Flux models.

\* StartOfTurn opens a turn, forgets the words of the one before and shows its
\* own first words, which the service always sends with it.
FluxStartOfTurn(m) ==
    Result([turn EXCEPT !.open = TRUE, !.interim = {m.utt}, !.sent = FALSE, !.final = {},
                        !.clock = TRUE], Interim)

FluxUpdate(m) == Result([turn EXCEPT !.interim = {m.utt}, !.clock = TRUE], Interim)

\* EagerEndOfTurn holds the words as pending; nothing is sent yet.
FluxEager(m) == Result([turn EXCEPT !.flag = TRUE, !.clock = TRUE], Silent)

\* EndOfTurn: the words go out unless this turn's were sent; the turn resets
\* either way.  An end without words only resets (and retracts an eager turn).
FluxEndOfTurn(m) ==
    Result(DeepgramReset, IF m.kind = "endpoint" /\ ~turn.sent THEN Words({m.utt}) ELSE Silent)

FluxReceiver(m) ==
    CASE m.kind = "started" -> FluxStartOfTurn(m)
      [] m.kind = "partial" -> FluxUpdate(m)
      [] m.kind = "eager"   -> FluxEager(m)
      [] m.kind = "resumed" -> Result([turn EXCEPT !.flag = FALSE], Silent)
      [] OTHER              -> FluxEndOfTurn(m)

\* _release_stuck_flux_turn: an eager transcript is retracted, the words that
\* were seen go out, a turn without any reports the end of speech.
FluxRelease ==
    IF Forced(turn) # {} THEN Release(turn.clock, Forced(turn), Words(Forced(turn)), DeepgramReset)
    ELSE Release(turn.clock, {}, Ended, DeepgramReset)

\* monitor_flux_turn_timeout with _flux_turn_is_stalled
FluxWatchdog == stt = "flux" /\ FluxRelease /\ UNCHANGED stt

\* (mutant) the finally block forgets the watchdog
DeepgramTranscribeKeepsDog ==
    /\ stt \in {"nova", "flux"} /\ UNCHANGED stt
    /\ \/ Dial(DeepgramConnect, TRUE, TRUE, TRUE, 1)
       \/ stt = "nova" /\ Stream(NovaReceiver, link.dogs)
       \/ stt = "flux" /\ Stream(FluxReceiver, link.dogs)

DeepgramTranscribe ==
    /\ stt \in {"nova", "flux"} /\ UNCHANGED stt
    /\ \/ Dial(DeepgramConnect, TRUE, TRUE, TRUE, 1)
       \/ stt = "nova" /\ Stream(NovaReceiver, 0)
       \/ stt = "flux" /\ Stream(FluxReceiver, 0)

\* The end of the stream sends CloseStream; the socket's closing comes back.
DeepgramSender ==
    /\ stt \in {"nova", "flux"} /\ UNCHANGED stt
    /\ LastPacket(FALSE) \/ SendFails
DeepgramHeartbeat == stt \in {"nova", "flux"} /\ BeatFails /\ UNCHANGED stt
DeepgramToggle == stt \in {"nova", "flux"} /\ Toggle(0) /\ UNCHANGED stt
DeepgramCleanup == stt \in {"nova", "flux"} /\ CleanUp(link.on, TRUE) /\ UNCHANGED stt

---------------------------------------------------------------------------
\* Soniox

SonioxConnect == {"open", "refused"}
\* _start_turn on the first content of a turn
SonioxStart == IF turn.open THEN turn ELSE [turn EXCEPT !.open = TRUE, !.sent = FALSE,
                                                        !.final = {}, !.interim = {}]
SonioxReset == [NoTurn EXCEPT !.sent = TRUE]

\* A token message: final and non-final text make the running interim; the
\* endpoint token, with text or alone, sends the final text or reports the end
\* of speech.
SonioxReceiver(m) ==
    LET t == [SonioxStart EXCEPT !.clock = TRUE, !.interim = turn.final \cup {m.utt},
                 !.final = @ \cup (IF m.kind = "partial" THEN {} ELSE {m.utt})]
    IN CASE m.kind = "error" -> Fail(turn)
         [] m.kind = "last" -> Stop(turn, Silent)
         [] m.kind = "endpoint" -> Result(SonioxReset, [Interim EXCEPT !.words = t.final])
         [] m.kind = "ended" ->
               Result(SonioxReset, IF turn.final # {} /\ ~turn.sent THEN Words(turn.final)
                                   ELSE Ended)
         [] OTHER -> Result(t, Interim)

SonioxWatchdog ==
    /\ stt = "soniox" /\ UNCHANGED stt
    /\ Release(turn.clock /\ ~turn.sent /\ Forced(turn) # {}, Forced(turn), Words(Forced(turn)),
               SonioxReset)

\* The finally block cancels the sender and leaves the watchdog running.
SonioxTranscribe ==
    /\ stt = "soniox" /\ UNCHANGED stt
    /\ Dial(SonioxConnect, FALSE, TRUE, TRUE, 1) \/ Stream(SonioxReceiver, link.dogs)
SonioxSender == stt = "soniox" /\ (LastPacket(FALSE) \/ SendFails) /\ UNCHANGED stt
\* Only the newest watchdog is known by name.
SonioxToggle == stt = "soniox" /\ Toggle(IF link.dogs > 1 THEN 1 ELSE 0) /\ UNCHANGED stt
SonioxCleanup == stt = "soniox" /\ CleanUp(FALSE, TRUE) /\ UNCHANGED stt

---------------------------------------------------------------------------
\* Gemini Live

\* Every failure of the socket or the setup frame is a ConnectionError.
GeminiConnect == {"open", "refused"}
GeminiStart == IF turn.open THEN turn ELSE [NoTurn EXCEPT !.open = TRUE]
GeminiReset == [NoTurn EXCEPT !.sent = TRUE]

\* interimInputTranscription, inputTranscription, and generationComplete as the
\* backstop of an utterance with partials only.
GeminiReceiver(m) ==
    CASE m.kind = "partial" ->
            Result([GeminiStart EXCEPT !.interim = {m.utt}, !.clock = TRUE], Interim)
      [] m.kind = "endpoint" ->
            IF ~GeminiStart.sent THEN Result(GeminiReset, Words(GeminiStart.final \cup {m.utt}))
            ELSE Result([GeminiStart EXCEPT !.final = @ \cup {m.utt}], Silent)
      [] m.kind = "ended" ->
            IF Forced(turn) # {} /\ ~turn.sent THEN Result(GeminiReset, Words(Forced(turn)))
            ELSE IF turn.open THEN Result(GeminiReset, Ended) ELSE Result(turn, Silent)
      [] OTHER -> Fail(turn)

\* One watchdog serves every session of the task.
GeminiWatchdog ==
    /\ stt = "gemini" /\ UNCHANGED stt
    /\ Release(turn.clock /\ ~turn.sent /\ Forced(turn) # {}, Forced(turn), Words(Forced(turn)),
               GeminiReset)

\* _flush_pending_final: a session that ends in the middle of a turn does not
\* lose its partial.
GeminiFlush ==
    IF turn.open /\ ~turn.sent /\ Forced(turn) # {}
    THEN turn' = GeminiReset /\ heard' = Hear(heard, Words(Forced(turn)))
    ELSE UNCHANGED <<turn, heard>>

\* The Live API caps a session: unless the stream is over or an error was
\* stored, transcribe() dials again within the same task.
GeminiRotate ==
    /\ link.task = "drained" /\ link.on /\ ~link.eos /\ ~link.error
    /\ link' = [link EXCEPT !.task = "dialing", !.ws = "none", !.pump = FALSE]
    /\ GeminiFlush /\ wire' = << >> /\ svc' = [svc EXCEPT !.stage = "quiet"]

\* A session that cannot be opened ends the task without a toggle.
GeminiRefused ==
    /\ link.task = "dialing"
    /\ link' = [link EXCEPT !.task = "done", !.error = TRUE, !.dogs = 0]
    /\ heard' = Hear(heard, Closed)
    /\ UNCHANGED <<turn, wire, svc>>

\* (mutant) the finally block forgets the watchdog
GeminiFinallyKeepsDog == (~link.on \/ link.eos \/ link.error) /\ Finally(link.dogs)
GeminiFinally == (~link.on \/ link.eos \/ link.error) /\ Finally(0)

\* A dropped socket stores no error; another exception does.
GeminiRunsDry ==
    /\ link.task = "streaming" /\ link.ws = "lost" /\ wire = << >>
    /\ link' = [link EXCEPT !.task = "drained"]
    /\ UNCHANGED <<turn, wire, svc, heard>>

GeminiTranscribe ==
    /\ stt = "gemini" /\ UNCHANGED stt
    /\ \/ "open" \in GeminiConnect /\ Dial({"open"}, FALSE, link.dogs = 0, TRUE, 1)
       \/ "refused" \in GeminiConnect /\ GeminiRefused
       \/ Receive(GeminiReceiver) \/ GeminiRunsDry \/ GeminiRotate \/ GeminiFinally
GeminiSender == stt = "gemini" /\ (LastPacket(TRUE) \/ SendFails) /\ UNCHANGED stt
GeminiToggle == stt = "gemini" /\ Toggle(0) /\ UNCHANGED stt
GeminiCleanup == stt = "gemini" /\ CleanUp(FALSE, TRUE) /\ UNCHANGED stt

---------------------------------------------------------------------------
\* ElevenLabs

ElevenLabsConnect == {"open", "refused"}
\* _reset_turn_state leaves the turn unsent, so that a commit with no partial
\* before it is still delivered.
ElevenLabsReset == NoTurn

ElevenLabsPartial(m) ==
    Result([turn EXCEPT !.open = TRUE, !.interim = {m.utt}, !.clock = TRUE, !.final = {m.utt},
                        !.sent = FALSE], Interim)

\* committed_transcript, or its variant with timestamps
ElevenLabsCommitted(m) ==
    IF turn.sent THEN Result(turn, Silent) ELSE Result(ElevenLabsReset, Words({m.utt}))

\* unaccepted_terms ends the receiver; the other errors are only logged.
ElevenLabsReceiver(m) ==
    CASE m.kind = "partial" -> ElevenLabsPartial(m)
      [] m.kind = "endpoint" -> ElevenLabsCommitted(m)
      [] OTHER -> Stop(turn, Silent)

\* A forced turn stays marked as sent: its late commit is not a second turn.
\* (mutant) a forced turn is not marked as sent
ElevenLabsForceUnmarked ==
    Release(turn.clock /\ ~turn.sent /\ Forced(turn) # {}, Forced(turn), Words(Forced(turn)),
            ElevenLabsReset)
ElevenLabsForce ==
    Release(turn.clock /\ ~turn.sent /\ Forced(turn) # {}, Forced(turn), Words(Forced(turn)),
            [ElevenLabsReset EXCEPT !.sent = TRUE])
ElevenLabsWatchdog == stt = "elevenlabs" /\ ElevenLabsForce /\ UNCHANGED stt

\* A failed connect is not recorded as connection_error.
ElevenLabsTranscribe ==
    /\ stt = "elevenlabs" /\ UNCHANGED stt
    /\ Dial(ElevenLabsConnect, FALSE, TRUE, link.error, 1) \/ Stream(ElevenLabsReceiver, 0)
\* The first packet names the turn with its request id.
ElevenLabsSender ==
    /\ stt = "elevenlabs" /\ UNCHANGED stt
    /\ LastPacket(TRUE) \/ SendFails
ElevenLabsToggle == stt = "elevenlabs" /\ Toggle(0) /\ UNCHANGED stt
ElevenLabsCleanup == stt = "elevenlabs" /\ CleanUp(link.on, TRUE) /\ UNCHANGED stt

---------------------------------------------------------------------------
\* Pixa

\* Three attempts; a timeout or a refused key is final.
PixaConnect == {"open", "refused"} \cup (IF link.tries < 2 THEN {"again"} ELSE {})
PixaReset == [NoTurn EXCEPT !.open = TRUE, !.sent = TRUE]

\* Every result is an interim; is_final makes it the transcript.
PixaReceiver(m) ==
    IF m.kind = "endpoint" THEN Result(PixaReset, [Interim EXCEPT !.words = {m.utt}])
    ELSE Result([turn EXCEPT !.final = {m.utt}, !.clock = TRUE], Interim)

PixaForce == Release(turn.clock /\ turn.final # {} /\ ~turn.sent, turn.final, Words(turn.final),
                     PixaReset)
PixaWatchdog == stt = "pixa" /\ PixaForce /\ UNCHANGED stt

PixaTranscribe ==
    /\ stt = "pixa" /\ UNCHANGED stt
    /\ Dial(PixaConnect, TRUE, TRUE, link.error, 1) \/ Stream(PixaReceiver, 0)
PixaSender == stt = "pixa" /\ (LastPacket(FALSE) \/ SendFails) /\ UNCHANGED stt
PixaHeartbeat == stt = "pixa" /\ BeatFails /\ UNCHANGED stt
PixaToggle == stt = "pixa" /\ Toggle(0) /\ UNCHANGED stt
PixaCleanup == stt = "pixa" /\ CleanUp(link.on, TRUE) /\ UNCHANGED stt

TurnTranscribe ==
    DeepgramTranscribe \/ SonioxTranscribe \/ GeminiTranscribe \/ ElevenLabsTranscribe
    \/ PixaTranscribe
TurnWatchdog ==
    NovaWatchdog \/ FluxWatchdog \/ SonioxWatchdog \/ GeminiWatchdog \/ ElevenLabsWatchdog
    \/ PixaWatchdog
TurnSender ==
    DeepgramSender \/ SonioxSender \/ GeminiSender \/ ElevenLabsSender \/ PixaSender
    \/ DeepgramHeartbeat \/ PixaHeartbeat
TurnStops ==
    \/ DeepgramToggle \/ SonioxToggle \/ GeminiToggle \/ ElevenLabsToggle \/ PixaToggle
    \/ DeepgramCleanup \/ SonioxCleanup \/ GeminiCleanup \/ ElevenLabsCleanup \/ PixaCleanup
=============================================================================
