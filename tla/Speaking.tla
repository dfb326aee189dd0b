------------------------------ MODULE Speaking ------------------------------
(***************************************************************************)
(* The synthesizers of src/bolna/synthesizer, one at a time behind the     *)
(* call's listener (task_manager.py, __listen_synthesizer).                *)
(***************************************************************************)
EXTENDS StreamSynthesizers, KalpaSynthesizer

SpeakInit == SynInit(IF tts = "kalpa" THEN KalpaOwn ELSE StreamOwn)

Calls == StartTurn \/ Retire \/ Invalidate

Same(last) == own
Pushes ==
    \/ tts = "elevenlabs"   /\ Push(TRUE, ElevenPush, 0)
    \/ tts = "cartesia"     /\ Push(TRUE, CartesiaPush, 0)
    \/ tts \in {"deepgram", "sarvam", "smallest", "maya"} /\ Push(TRUE, Same, 0)
    \/ tts = "rime"         /\ Push(TRUE, RimePush, 0)
    \/ tts = "pixa"         /\ Push(FALSE, PixaPush, 0)
    \/ tts = "soniox"       /\ Push(TRUE, SonioxPush, 0)
    \/ tts = "elevenlabsV3" /\ Push(TRUE, V3Push, 0)
    \/ tts = "kalpa"        /\ Push(TRUE, KalpaPush, own.igen)

Interrupts ==
    \/ ElevenInterrupt \/ CartesiaInterrupt \/ DeepgramInterrupt \/ RimeInterrupt
    \/ MayaInterrupt \/ PixaInterrupt \/ SonioxInterrupt \/ V3Interrupt \/ KalpaInterrupt
    \/ PlainInterrupt("sarvam") \/ PlainInterrupt("smallest")

Sending(i) ==
    \/ tts # "kalpa" /\ Runnable(i) /\ Waits(i, IF tts = "pixa" THEN link.ws = "open" ELSE Connected)
    \/ tts # "kalpa" /\ Runnable(i)
          /\ Drops(i, tts = "maya" \/ (tts \in {"elevenlabs", "elevenlabsV3", "rime", "deepgram"}
                                       /\ senders[i].text))
    \/ tts = "elevenlabs"   /\ ElevenSend(i)
    \/ tts = "cartesia"     /\ CartesiaSend(i)
    \/ tts = "deepgram"     /\ DeepgramSend(i)
    \/ tts = "sarvam"       /\ SarvamSend(i)
    \/ tts = "smallest"     /\ SmallestSend(i)
    \/ tts = "rime"         /\ RimeSend(i)
    \/ tts = "maya"         /\ MayaSend(i)
    \/ tts = "pixa"         /\ PixaSend(i)
    \/ tts = "soniox"       /\ SonioxSend(i)
    \/ tts = "elevenlabsV3" /\ V3Send(i)
    \/ tts = "kalpa"        /\ KalpaStarts(i)

Slots == tts = "kalpa" /\ (KalpaSends \/ SlotFree \/ SlotTimesOut)

Receives(more) ==
    \/ ElevenReceive(more) \/ CartesiaReceive(more) \/ RimeReceive(more) \/ MayaReceive(more)
    \/ PixaReceive(more) \/ SonioxReceive(more) \/ V3Receive(more) \/ KalpaReceive(more)
    \/ PlainReceive("deepgram", more) \/ PlainReceive("sarvam", more)
    \/ PlainReceive("smallest", more)

Ending ==
    \/ SarvamMeetsEnd \/ SonioxMeetsEnd \/ V3MeetsEnd \/ KalpaMeetsEnd
    \/ tts \notin {"sarvam", "soniox", "elevenlabsV3", "kalpa"} /\ GenerateEnds
    \/ tts # "soniox" /\ GivesUp

Dials ==
    \/ ElevenDial \/ CartesiaDial \/ DeepgramDial \/ SarvamDial \/ SmallestDial \/ RimeDial
    \/ MayaDial \/ PixaDial \/ SonioxDial \/ V3Dial \/ KalpaDial

SpeakNext ==
    \/ Calls \/ Pushes \/ Interrupts
    \/ \E i \in DOMAIN senders : Sending(i)
    \/ Slots
    \/ Render \/ ServiceFails
    \/ \E more \in BOOLEAN : Receives(more)
    \/ Ending \/ Lose \/ Dials

\* The sender tasks are scheduled, the receiver reads on or meets the end of its
\* socket, and monitor_connection dials again.  Nothing is asked of the call or of the
\* service.
SpeakFairness ==
    /\ WF_synVars(\E i \in DOMAIN senders : Sending(i)) /\ WF_synVars(Slots)
    /\ WF_synVars(Receives(FALSE) \/ Ending) /\ WF_synVars(Dials)

SpeakSpec == SpeakInit /\ [][SpeakNext]_synVars /\ SpeakFairness

---------------------------------------------------------------------------
SpeakTypeOK ==
    /\ tts \in Engines
    /\ pipe.turn \in 0..MaxTurn /\ pipe.ids \subseteq Turns /\ pipe.left \in 0..2
    /\ base.q \in Seq(Turns) /\ base.meta \in 0..MaxTurn /\ base.sock \in 0..link.n
    /\ link.ws \in {"none", "open", "closing", "closed", "dying"} /\ link.tries \in 0..MaxFails
    /\ \A i \in DOMAIN senders : senders[i].turn \in Turns /\ senders[i].part \in Parts
    /\ \A i \in DOMAIN wire : wire[i].turn \in 0..MaxTurn
    /\ \A t \in Turns : said.parts[t] \subseteq Parts

---------------------------------------------------------------------------
\* What the call may rely on.  `told`: every turn that was dropped was dropped by an
\* interruption the synthesizer was told of; `alone`: and no turn started while
\* another was valid.  (The labels of turns that overlap are shared out by position.)
Told == ~pipe.silent
Alone == Told /\ ~pipe.overlap
\* Of Kalpa also: nothing was sent past an error that was not yet read.
Calm == Told /\ (tts = "kalpa" => ~own.crossed)
\* And the receiver met the end of every socket before it was replaced.
Met == Calm /\ ~link.unmet

\* Kalpa: of a turn that was barged in on, nothing is played as another turn's.
OwnAudio == Calm => ~said.foreign

\* Kalpa: a turn is never completed by the end of one that was barged in on.
OwnEnd == Told => ~said.clipped

\* Kalpa and both ElevenLabs: a turn is not silenced by the labels of a retired one.
NotMuted == (Told /\ (tts = "elevenlabs" => ~own.kept)) => ~said.mute

\* Kalpa: what the caller heard is not sent again when a socket is replaced, unless
\* its replacement overtook the receiver: then nobody marks the half-heard turn dead
\* and the whole of it is sent again.
SpokenOnce == Met => ~said.again

\* Kalpa: the text of a turn never joins what another turn left in the buffer.
UtterancesApart == Calm => ~said.mixed

\* Kalpa and ElevenLabs v3: while a turn is open no label of a retired one is queued.
LabelsOfValidTurns ==
    (tts \in {"kalpa", "elevenlabsV3"} /\ Told /\ base.open /\ ~pipe.cut) =>
        \A k \in DOMAIN base.q : base.q[k] \in pipe.ids

\* Nothing is left to send or to read, and the newest turn still waits for its end.  (A
\* connection_error ends the call instead, but only with the next frame.)
Quiet ==
    /\ senders = << >> /\ wire = << >> /\ link.ws = "open"
    /\ tts = "kalpa" => own.svc.buf = << >> /\ ~own.svc.flushed
Unended == /\ Quiet /\ pipe.turn \in pipe.ids \ said.ended /\ pipe.left = 0
           /\ ~pipe.over /\ ~pipe.cut /\ ~base.error

\* Kalpa and ElevenLabs v3, as long as no socket is lost: a turn that follows barged-in
\* ones gets its end; of Kalpa no audio comes behind an end.
TurnEnds ==
    (tts \in {"kalpa", "elevenlabsV3"} /\ link.lost = 0 /\ Alone)
        => ~Unended /\ (tts = "kalpa" => ~said.late)

\* Every provider but Rime: a turn that nothing disturbed gets its end, from Sarvam and
\* Kalpa even if its socket is lost, unless the replacement overtook the receiver; and
\* but for Smallest, and Sarvam when it lost a socket, no audio comes behind that end.
UndisturbedTurnEnds ==
    (tts # "rime" /\ pipe.ids = 1..pipe.turn /\ ~pipe.overlap /\ ~said.order /\ ~link.forgot)
        => /\ (link.lost = 0 \/ (tts \in LossSettlers /\ ~link.unmet)) => ~Unended
           /\ (tts # "smallest" /\ (link.lost = 0 \/ tts # "sarvam")) => ~said.late

\* Every sender task ends: no push waits for ever for a socket, for the lock or for a
\* slot, whatever is lost on the way.
SendersFinish == (senders # << >>) ~> (senders = << >> \/ pipe.over)
=============================================================================
