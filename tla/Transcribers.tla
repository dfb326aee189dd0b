---------------------------- MODULE Transcribers ----------------------------
(***************************************************************************)
(* All the speech-to-text connections of src/bolna/transcriber, one at a   *)
(* time against its service, and what the listener of the call may expect  *)
(* of the packets they queue (task_manager.py, _listen_transcriber).       *)
(***************************************************************************)
EXTENDS TurnTranscribers, SessionTranscribers

SttNext ==
    \/ ServiceSpeaks \/ ServiceForgets \/ ServiceDrops
    \/ Run /\ UNCHANGED stt
    \/ TurnTranscribe \/ TurnWatchdog \/ TurnSender \/ TurnStops
    \/ SessionTranscribe \/ SessionWatchdog \/ SessionSender \/ SessionStops

\* The event loop gives every ready coroutine a turn; the service owes nothing.
SttFairness ==
    WF_sttVars(TurnTranscribe) /\ WF_sttVars(TurnWatchdog) /\ WF_sttVars(SessionTranscribe)

SttSpec == SttInit /\ [][SttNext]_sttVars /\ SttFairness

---------------------------------------------------------------------------
SttTypeOK ==
    /\ stt \in Providers
    /\ link \in [task : {"idle", "dialing", "streaming", "drained", "done", "gone"},
             on : BOOLEAN,
             ws : {"none", "open", "lost"}, error : BOOLEAN, pump : BOOLEAN, beat : BOOLEAN,
             dogs : 0..2, tries : 0..2, runs : 0..MaxRuns, eos : BOOLEAN]
    /\ turn \in [open : BOOLEAN, sent : BOOLEAN, final : SUBSET Utt, interim : SUBSET Utt,
                 clock : BOOLEAN, flag : BOOLEAN]
    /\ \A i \in DOMAIN wire : wire[i].utt \in 0..MaxUtt
    /\ svc.utt \in 0..MaxUtt
    /\ heard.closes \in 0..2 /\ heard.times \in [Utt -> 0..2] /\ heard.forced \subseteq Utt

\* The words a watchdog delivered for a stuck turn are not delivered a second
\* time when the provider's own end of that turn arrives late.  (Flux and
\* ElevenLabs keep the turn marked as sent for this.)
LateFinalNotRepeated ==
    [][\A u \in heard.forced :
         stt \in {"flux", "elevenlabs"} => (heard.times[u])' <= heard.times[u]]_sttVars

\* A run of a connection reports its end once, since the listener starts a
\* reconnect at every closed packet, and no transcript follows that packet,
\* whoever was about to send one: the receiver, the watchdog or a second run's
\* leftovers.  (Providers with a session-end message of their own and OpenAI's
\* failed connect queue a second packet; Soniox's watchdog outlives its run.)
ClosedOnceAndLast ==
    /\ stt \notin {"sarvam", "assemblyai", "smallest", "gladia", "openai"} => heard.closes <= 1
    /\ stt # "soniox" => ~heard.late

\* A reconnect never leaves two watchdogs on one turn (Soniox's can).
OneWatchdog == stt # "soniox" => link.dogs <= 1

\* An interim that made the call hold its reply is followed by a transcript, a
\* report of the end of speech or the end of the connection, also when the
\* service never says another word.  (Flux drops the end of a turn that it had
\* released and whose words went on, the watchdogs of the others can be latched.)
InterimResolved ==
    (stt \in {"nova", "soniox", "gemini", "elevenlabs"} /\ heard.hanging)
        ~> ~heard.hanging

\* A connection whose socket is lost tells the listener, dials again itself
\* (Gemini) or was cleaned up: the call is never left with a dead transcriber.
LostIsReported ==
    (link.task = "streaming" /\ link.ws = "lost")
        ~> (heard.closes > 0 \/ link.task \in {"gone", "dialing"})
\* Whoever waits for this transcriber goes on: no interim hangs, no loss is silent.
TranscriberProgress == InterimResolved /\ LostIsReported
=============================================================================
