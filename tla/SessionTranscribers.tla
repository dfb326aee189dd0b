------------------------ MODULE SessionTranscribers ------------------------
(***************************************************************************)
(* The transcribers whose service closes the session with a message of its *)
(* own (Sarvam, AssemblyAI, Smallest, Gladia), OpenAI Realtime, whose      *)
(* sender decides the turns, the two that run on a vendor's SDK (Azure and *)
(* Google), and the plain HTTP mode of Deepgram, AssemblyAI and Sarvam.    *)
(***************************************************************************)
EXTENDS Transcriber

\* (mutant) one attempt too many
FourTries == {"open", "refused"} \cup (IF link.tries < 3 THEN {"again"} ELSE {})
ThreeTries == {"open", "refused"} \cup (IF link.tries < 2 THEN {"again"} ELSE {})

---------------------------------------------------------------------------
\* Sarvam

\* A timeout, a refused key and an unknown endpoint are final.
SarvamConnect == ThreeTries

\* A transcript of recognised words: the interim and the transcript together.
SarvamData(m) == Result([turn EXCEPT !.final = @ \cup {m.utt}],
                        [Interim EXCEPT !.words = {m.utt}])

\* START_SPEECH opens a turn; END_SPEECH closes its latency entry.
SarvamVad(m) ==
    IF m.kind = "started" THEN Result([NoTurn EXCEPT !.open = TRUE], Silent)
    ELSE Result([turn EXCEPT !.open = FALSE], Ended)

\* An error message is stored and the receiver reads on.
SarvamReceiver(m) ==
    CASE m.kind = "endpoint" -> SarvamData(m)
      [] m.kind \in {"started", "ended"} -> SarvamVad(m)
      [] m.kind = "last" -> Stop(turn, Closed)
      [] OTHER -> [Result(turn, Silent) EXCEPT !.error = TRUE]

SarvamTranscribe ==
    /\ stt = "sarvam" /\ UNCHANGED stt
    /\ Dial(SarvamConnect, TRUE, FALSE, TRUE, 1) \/ Stream(SarvamReceiver, 0)
SarvamSender == stt = "sarvam" /\ (LastPacket(TRUE) \/ SendFails) /\ UNCHANGED stt
SarvamHeartbeat == stt = "sarvam" /\ BeatFails /\ UNCHANGED stt
SarvamToggle == stt = "sarvam" /\ Toggle(0) /\ UNCHANGED stt
\* The closed packet is queued before the finally block: a cancelled task sends none.
SarvamCleanup == stt = "sarvam" /\ CleanUp(link.on, FALSE) /\ UNCHANGED stt

---------------------------------------------------------------------------
\* AssemblyAI

AssemblyAIConnect == {"open", "refused"}

\* Turn: interims until end_of_turn, whose words are the transcript.
AssemblyAITurn(m) ==
    IF m.kind = "endpoint" THEN Result([turn EXCEPT !.open = FALSE, !.interim = {}], Words({m.utt}))
    ELSE Result([turn EXCEPT !.open = TRUE, !.interim = {m.utt}], Interim)

\* Termination queues a closed packet of its own; an error is only reported.
AssemblyAIReceiver(m) ==
    CASE m.kind \in {"partial", "endpoint"} -> AssemblyAITurn(m)
      [] m.kind = "last" -> Stop(turn, Closed)
      [] OTHER -> Result(turn, Silent)

AssemblyAITranscribe ==
    /\ stt = "assemblyai" /\ UNCHANGED stt
    /\ Dial(AssemblyAIConnect, TRUE, FALSE, link.error, 1) \/ Stream(AssemblyAIReceiver, 0)
AssemblyAISender == stt = "assemblyai" /\ (LastPacket(FALSE) \/ SendFails) /\ UNCHANGED stt
AssemblyAIHeartbeat == stt = "assemblyai" /\ BeatFails /\ UNCHANGED stt
AssemblyAIToggle == stt = "assemblyai" /\ Toggle(0) /\ UNCHANGED stt
AssemblyAICleanup == stt = "assemblyai" /\ CleanUp(link.on, TRUE) /\ UNCHANGED stt

---------------------------------------------------------------------------
\* Smallest

SmallestConnect == ThreeTries
SmallestReset == [NoTurn EXCEPT !.sent = TRUE]

\* A final segment is sent by itself and marks the turn as sent, which nothing
\* but the first packet of the call takes back; is_last ends the session.
SmallestReceiver(m) ==
    CASE m.kind = "partial" -> Result([turn EXCEPT !.interim = {m.utt}, !.clock = TRUE], Interim)
      [] m.kind = "endpoint" ->
            Result([turn EXCEPT !.final = @ \cup {m.utt}, !.clock = TRUE, !.sent = TRUE,
                                !.interim = {}], Words({m.utt}))
      [] OTHER -> Stop(turn, Closed)

\* _force_finalize_utterance: the accumulated text, else the last interim.
SmallestForced == IF turn.final # {} THEN turn.final ELSE turn.interim
SmallestForce == Release(turn.clock /\ ~turn.sent /\ SmallestForced # {}, SmallestForced,
                         Words(SmallestForced), SmallestReset)
SmallestWatchdog == stt = "smallest" /\ SmallestForce /\ UNCHANGED stt

SmallestTranscribe ==
    /\ stt = "smallest" /\ UNCHANGED stt
    /\ Dial(SmallestConnect, TRUE, TRUE, link.error, 1) \/ Stream(SmallestReceiver, 0)
SmallestSender == stt = "smallest" /\ (LastPacket(TRUE) \/ SendFails) /\ UNCHANGED stt
SmallestHeartbeat == stt = "smallest" /\ BeatFails /\ UNCHANGED stt
SmallestToggle == stt = "smallest" /\ Toggle(0) /\ UNCHANGED stt
SmallestCleanup == stt = "smallest" /\ CleanUp(link.on, TRUE) /\ UNCHANGED stt

---------------------------------------------------------------------------
\* Gladia

\* A session by HTTP, then its websocket; an HTTP refusal is final.
GladiaSession == {"session", "refused"}
GladiaConnect == IF "session" \in GladiaSession THEN ThreeTries ELSE {"refused"}
GladiaReset == [NoTurn EXCEPT !.sent = TRUE]

\* A transcript is the turn's whether or not the turn was sent.
GladiaTranscript(m) ==
    IF m.kind = "endpoint" THEN Result(GladiaReset, Words({m.utt}))
    ELSE Result([turn EXCEPT !.interim = {m.utt}, !.clock = TRUE], Interim)

\* speech_begin opens the turn; speech_end and errors leave it alone.
GladiaReceiver(m) ==
    CASE m.kind \in {"partial", "endpoint"} -> GladiaTranscript(m)
      [] m.kind = "started" ->
            Result([turn EXCEPT !.open = TRUE, !.interim = {}, !.sent = FALSE], Silent)
      [] m.kind = "last" -> Stop(turn, Closed)
      [] OTHER -> Result(turn, Silent)

GladiaForce == Release(turn.clock /\ ~turn.sent /\ turn.final \cup turn.interim # {},
                       turn.interim, Words(turn.interim), GladiaReset)
GladiaWatchdog == stt = "gladia" /\ GladiaForce /\ UNCHANGED stt

GladiaTranscribe ==
    /\ stt = "gladia" /\ UNCHANGED stt
    /\ Dial(GladiaConnect, TRUE, TRUE, FALSE, 1) \/ Stream(GladiaReceiver, 0)
GladiaSender == stt = "gladia" /\ (LastPacket(TRUE) \/ SendFails) /\ UNCHANGED stt
GladiaHeartbeat == stt = "gladia" /\ BeatFails /\ UNCHANGED stt
GladiaToggle == stt = "gladia" /\ Toggle(0) /\ UNCHANGED stt
GladiaCleanup == stt = "gladia" /\ CleanUp(link.on, TRUE) /\ UNCHANGED stt

---------------------------------------------------------------------------
\* OpenAI Realtime.  The sender's own voice detection (or the service's, whose
\* messages change the turn in the same way) starts and commits the turns: the
\* model's "started" and "ended" stand for both.

OpenAIConnect == {"open", "refused"}

\* _reset_turn_state spares a turn that has begun in the meantime.
OpenAIReset == IF turn.open THEN [turn EXCEPT !.flag = FALSE] ELSE [NoTurn EXCEPT !.sent = TRUE]

\* The start of speech, seen by the sender or the service.
OpenAIStart == [NoTurn EXCEPT !.open = TRUE]

\* _commit_turn: the end of speech is reported and the transcript awaited.
OpenAICommit == Result([turn EXCEPT !.open = FALSE, !.flag = TRUE], Ended)

\* An empty transcript resets nothing; a failure resets and reports itself.
OpenAIReceiver(m) ==
    CASE m.kind = "started" -> Result(OpenAIStart, Silent)
      [] m.kind = "ended" -> OpenAICommit
      [] m.kind = "partial" -> Result([turn EXCEPT !.interim = {m.utt}], Interim)
      [] m.kind = "endpoint" -> Result(OpenAIReset, Words({m.utt}))
      [] m.kind = "blank" -> Result(turn, Silent)
      [] OTHER -> Result(OpenAIReset, Silent)

\* monitor_utterance_timeout gives the committed turn up; it sends nothing.
OpenAIWatchdog ==
    /\ stt = "openai" /\ UNCHANGED stt
    /\ Release(turn.flag /\ ~turn.sent, {}, Silent, OpenAIReset)

\* A failed connect queues its closed packet and the finally block another.
OpenAITranscribe ==
    /\ stt = "openai" /\ UNCHANGED stt
    /\ Dial(OpenAIConnect, TRUE, TRUE, TRUE, 2) \/ Stream(OpenAIReceiver, 0)
\* The end of the stream commits what was appended, waits for the last
\* transcript for five seconds and closes the socket.
OpenAISender == stt = "openai" /\ (LastPacket(TRUE) \/ SendFails) /\ UNCHANGED stt
OpenAIHeartbeat == stt = "openai" /\ BeatFails /\ UNCHANGED stt
OpenAIToggle == stt = "openai" /\ Toggle(0) /\ UNCHANGED stt
OpenAICleanup == stt = "openai" /\ CleanUp(link.on, TRUE) /\ UNCHANGED stt

---------------------------------------------------------------------------
\* Azure.  There is no transcription task: the SDK's threads post the handlers
\* to the event loop, so task stands for the recogniser's session.

\* run(): the pump of the last connection is cancelled, its recogniser
\* released, a new one started.  A failure queues the closed packet itself.
AzureRun ==
    /\ link.task = "dialing"
    /\ \/ Opened(FALSE, FALSE)
       \/ /\ link' = [link EXCEPT !.task = "done", !.error = TRUE, !.pump = FALSE]
          /\ heard' = Hear(heard, Closed) /\ UNCHANGED turn
    /\ UNCHANGED <<wire, svc>>

AzureReceiver(m) ==
    IF m.kind = "partial" THEN Result([turn EXCEPT !.open = TRUE, !.interim = {m.utt}], Interim)
    ELSE Result(NoTurn, Words({m.utt}))

\* canceled_handler, then session_stopped_handler: the session is over and the
\* closed packet goes out; the pump stays with the dead stream.
AzureCanceled ==
    /\ link.task = "streaming" /\ link.ws = "lost" /\ wire = << >>
    /\ \E e \in BOOLEAN : link' = [link EXCEPT !.task = "drained", !.error = @ \/ e]
    /\ UNCHANGED <<turn, wire, svc, heard>>
AzureSessionStopped ==
    /\ link.task = "drained"
    /\ link' = [link EXCEPT !.task = "done"]
    /\ heard' = Hear(heard, Closed) /\ UNCHANGED <<turn, wire, svc>>

AzureTranscribe ==
    /\ stt = "azure" /\ UNCHANGED stt
    /\ AzureRun \/ Take(AzureReceiver, FALSE) \/ AzureCanceled \/ AzureSessionStopped
AzureSender == stt = "azure" /\ LastPacket(TRUE) /\ UNCHANGED stt
AzureToggle == stt = "azure" /\ Toggle(0) /\ UNCHANGED stt
AzureCleanup == stt = "azure" /\ CleanUp(link.on, link.task # "dialing") /\ UNCHANGED stt

---------------------------------------------------------------------------
\* Google.  A thread runs the gRPC stream; the task is the pump that feeds it,
\* which outlives the stream.

GoogleRun == /\ link.task = "dialing" /\ Opened(FALSE, FALSE) /\ UNCHANGED <<wire, svc>>
GoogleReceiver(m) ==
    IF m.kind = "partial" THEN Result([turn EXCEPT !.interim = {m.utt}], Interim)
    ELSE Result(NoTurn, Words({m.utt}))

\* The stream ends, raises or met a response with _running false: the thread
\* queues the closed packet and exits.
GoogleStreamEnds ==
    /\ link.task = "drained" \/ (link.task = "streaming" /\ link.ws = "lost" /\ wire = << >>)
    /\ \E e \in BOOLEAN : link' = [link EXCEPT !.task = "done", !.ws = "none", !.error = @ \/ e]
    /\ heard' = Hear(heard, Closed) /\ wire' = << >> /\ UNCHANGED <<turn, svc>>

GoogleTranscribe ==
    /\ stt = "google" /\ UNCHANGED stt
    /\ GoogleRun \/ Receive(GoogleReceiver) \/ GoogleStreamEnds
GoogleSender == stt = "google" /\ LastPacket(TRUE) /\ UNCHANGED stt
GoogleToggle == stt = "google" /\ Toggle(0) /\ UNCHANGED stt
GoogleCleanup == stt = "google" /\ CleanUp(FALSE, link.task # "dialing") /\ UNCHANGED stt

---------------------------------------------------------------------------
\* The HTTP mode: each clip of the input queue is one request.

\* sender and _get_http_transcription: a response is the transcript.
HttpTranscript ==
    /\ link.task = "streaming" /\ link.pump /\ svc.utt < MaxUtt
    /\ svc' = [svc EXCEPT !.utt = @ + 1]
    /\ heard' = Hear(heard, Words({svc.utt + 1}))
    /\ link' = [link EXCEPT !.tries = 0]
    /\ UNCHANGED <<turn, wire>>

\* A failed request ends the task of Deepgram and AssemblyAI.
HttpFails ==
    /\ link.task = "streaming" /\ link.pump /\ svc.utt < MaxUtt
    /\ link' = [link EXCEPT !.task = "drained", !.error = TRUE, !.on = FALSE]
    /\ UNCHANGED <<turn, wire, svc, heard>>

\* Sarvam keeps the buffered audio and gives up at the third failure in a row.
SarvamHttpFails ==
    /\ link.task = "streaming" /\ link.pump /\ svc.utt < MaxUtt
    /\ link' = IF link.tries = 2 THEN [link EXCEPT !.task = "drained"]
               ELSE [link EXCEPT !.tries = @ + 1]
    /\ UNCHANGED <<turn, wire, svc, heard>>

\* The end of the stream ends the sender, and with it the task.
HttpEndOfStream ==
    /\ link.task = "streaming" /\ link.pump /\ ~link.eos
    /\ link' = [link EXCEPT !.task = "drained", !.pump = FALSE, !.eos = TRUE]
    /\ UNCHANGED <<turn, wire, svc, heard>>

HttpConnects == /\ link.task = "dialing" /\ Opened(FALSE, FALSE) /\ UNCHANGED <<wire, svc>>
HttpTranscribe ==
    /\ stt \in {"deepgramHttp", "assemblyaiHttp", "sarvamHttp"} /\ UNCHANGED stt
    /\ \/ HttpConnects \/ HttpTranscript \/ HttpEndOfStream \/ Finally(0)
       \/ stt = "sarvamHttp" /\ SarvamHttpFails
       \/ stt # "sarvamHttp" /\ HttpFails

SessionTranscribe ==
    SarvamTranscribe \/ AssemblyAITranscribe \/ SmallestTranscribe \/ GladiaTranscribe
    \/ OpenAITranscribe \/ AzureTranscribe \/ GoogleTranscribe \/ HttpTranscribe
SessionWatchdog == SmallestWatchdog \/ GladiaWatchdog \/ OpenAIWatchdog
SessionSender ==
    \/ SarvamSender \/ AssemblyAISender \/ SmallestSender \/ GladiaSender \/ OpenAISender
    \/ AzureSender \/ GoogleSender
    \/ SarvamHeartbeat \/ AssemblyAIHeartbeat \/ SmallestHeartbeat \/ GladiaHeartbeat
    \/ OpenAIHeartbeat
SessionStops ==
    \/ SarvamToggle \/ AssemblyAIToggle \/ SmallestToggle \/ GladiaToggle \/ OpenAIToggle
    \/ AzureToggle \/ GoogleToggle
    \/ SarvamCleanup \/ AssemblyAICleanup \/ SmallestCleanup \/ GladiaCleanup \/ OpenAICleanup
    \/ AzureCleanup \/ GoogleCleanup
=============================================================================
