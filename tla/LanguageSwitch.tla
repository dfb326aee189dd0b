--------------------------- MODULE LanguageSwitch ---------------------------
(***************************************************************************)
(* A multilingual call changes its language.  Two pools hold one           *)
(* transcriber and one synthesizer per language (transcriber_pool.py,      *)
(* synthesizer_pool.py); an unbiased detector listens along; decisions of  *)
(* a judge LLM (task_manager.py, language_switcher.py) or, in the legacy   *)
(* flow, a tool call of the agent and the detector's own heuristic flip    *)
(* both pools.  All of it runs on one event loop: an action is the code    *)
(* between two awaits, and every lock is a field of its own.               *)
(***************************************************************************)
EXTENDS Integers, FiniteSets, Sequences

CONSTANTS
    EarLabels,     \* languages with a transcriber
    VoiceLabels,   \* languages with a synthesizer
    FirstLabel,    \* the language of the call's start
    Flows,         \* subset of {"llm", "deadjudge", "legacy"}
    MaxTurns,      \* user turns of the call
    MaxSegments,   \* segments the detector recognises
    MaxDeaths,     \* connections that die
    MaxReconnects  \* _MAX_RECONNECTS_PER_CALL

ASSUME SwitchAssumption ==
    /\ FirstLabel \in EarLabels \cap VoiceLabels /\ "none" \notin VoiceLabels
    /\ MaxTurns \in Nat /\ MaxSegments \in Nat /\ MaxDeaths \in Nat /\ MaxReconnects \in Nat

VARIABLES
    flow,      \* how this call switches languages
    language,  \* TaskManager.language
    ear,       \* TranscriberPool
    voice,     \* SynthesizerPool
    det,       \* the detector's buffer
    judge,     \* the decisions under way, and language_switch_lock
    gate,      \* lid_playback_gate
    reply,     \* the reply whose audio the output loop holds or sends
    call       \* the call and the transcriber listener

switchVars == <<flow, language, ear, voice, det, judge, gate, reply, call>>


Turns == 1..MaxTurns
Decisions == {<<"turn", n>> : n \in Turns} \cup {<<"idle", 0>>}
Tool == <<"tool", 0>>
Unasked == <<"auto", 0>>
Switchers == Decisions \cup {Tool, Unasked}
Listener == <<"listener", 0>>
Nobody == <<"nobody", 0>>
Labels == EarLabels \cup VoiceLabels

\* A task that may switch: where it is, the language it was started for, its
\* target, whether the hold it armed is still owed (it has neither run out nor
\* been opened by another's switch), and whether it lands in the
\* middle of a tool call.
NoTask == [at |-> "idle", spawn |-> FirstLabel, target |-> FirstLabel, armed |-> FALSE,
           quiet |-> FALSE]
NoGate == [on |-> FALSE, seq |-> 0, task |-> Nobody, due |-> FALSE]

SwitchInit ==
    /\ flow \in Flows
    /\ language = FirstLabel
    /\ ear = [active |-> FirstLabel, up |-> [l \in EarLabels |-> TRUE], lock |-> Nobody,
              tries |-> 0, ended |-> FALSE]
    /\ voice = [active |-> FirstLabel, gen |-> FirstLabel, lock |-> Nobody, waits |-> << >>,
                running |-> [l \in VoiceLabels |-> IF l = FirstLabel THEN 1 ELSE 0],
                queue |-> << >>]
    /\ det = [heard |-> {}, segments |-> 0]
    /\ judge = [task |-> [t \in Switchers |-> NoTask], lock |-> Nobody]
    /\ gate = NoGate
    /\ reply = [seq |-> 0, live |-> FALSE, frames |-> 0, kept |-> FALSE, leaked |-> FALSE]
    /\ call = [state |-> "on", turns |-> 0, tools |-> 0, closed |-> 0, listener |-> "on",
               leg |-> FirstLabel, deaths |-> 0]

At(t) == judge.task[t].at
Target(t) == judge.task[t].target
Move(t, place) == [judge EXCEPT !.task[t].at = place]
\* _should_ignore_transcriber_input and conversation_ended
Ending == call.state # "on"
\* The task returns or raises; language_switch_lock is released on the way out.
Done(t) == [judge EXCEPT !.task[t] = NoTask, !.lock = IF @ = t THEN Nobody ELSE @]

---------------------------------------------------------------------------
\* The detector and the turns.

\* The detector hears a segment in some language (_accumulate).
DetectorHears ==
    /\ call.state # "over" /\ det.segments < MaxSegments
    /\ \E l \in EarLabels : det' = [heard |-> det.heard \cup {l}, segments |-> det.segments + 1]
    /\ UNCHANGED <<flow, language, ear, voice, judge, gate, reply, call>>

\* __detector_language_mismatch, __buffered_language_evidence: a segment in
\* another language that both pools support.
Mismatch == (det.heard \ {language}) \cap EarLabels \cap VoiceLabels # {}

\* __arm_lid_playback_gate
ArmedGate(t) == [on |-> TRUE, seq |-> t[2], task |-> t, due |-> FALSE]

\* A user turn: its reply is generated, and _spawn_language_switch_decision
\* starts a decision and holds the reply's audio when the detector disagrees.
NewTurn ==
    /\ ~Ending /\ call.listener = "on" /\ ear.up[ear.active] /\ call.turns < MaxTurns
    /\ call' = [call EXCEPT !.turns = @ + 1]
    /\ reply' = [seq |-> call.turns + 1, live |-> TRUE, frames |-> 1, kept |-> FALSE,
                 leaked |-> FALSE]
    /\ LET t == <<"turn", call.turns + 1>>
       IN IF flow = "legacy" THEN UNCHANGED <<judge, gate>>
          ELSE /\ judge' = [judge EXCEPT !.task[t] = [NoTask EXCEPT
                               !.at = "spawned", !.spawn = language, !.armed = Mismatch]]
               /\ gate' = IF Mismatch THEN ArmedGate(t) ELSE gate
    /\ UNCHANGED <<flow, language, ear, voice, det>>

\* __lid_idle_watcher: speech in another language has gone idle in the buffer
\* and no turn has drained it.
IdleWatcher ==
    /\ flow # "legacy" /\ ~Ending /\ At(<<"idle", 0>>) = "idle"
    /\ det.heard \ {language} # {}
    /\ judge' = [judge EXCEPT !.task[<<"idle", 0>>] = [NoTask EXCEPT
                    !.at = "spawned", !.spawn = language]]
    /\ UNCHANGED <<flow, language, ear, voice, det, gate, reply, call>>

---------------------------------------------------------------------------
\* handle_language_switch and __run_language_switch, from await to await.

\* The buffer is drained; a gate whose task is over is released, and a mismatch
\* that arrived after the spawn arms it now.  (The watcher has no sequence id
\* to hold.)
Drain(t) ==
    IF det.heard = {} THEN judge' = Done(t) /\ UNCHANGED <<det, gate>>
    ELSE LET held == IF gate.on /\ At(gate.task) = "idle" THEN NoGate ELSE gate
             arms == ~held.on /\ Mismatch /\ t[1] = "turn"
         IN /\ det' = [det EXCEPT !.heard = {}]
            /\ gate' = IF arms THEN ArmedGate(t) ELSE held
            /\ judge' = [judge EXCEPT !.lock = t, !.task[t].at = "deciding",
                                      !.task[t].armed = @ \/ arms]

\* (mutant) the language of the spawn is not compared
EnterStale(t) ==
    /\ At(t) = "spawned" /\ t \in Decisions /\ judge.lock = Nobody
    /\ IF Ending
       THEN judge' = Done(t) /\ UNCHANGED <<det, gate>>
       ELSE \/ Drain(t)
            \/ /\ t[1] = "turn" /\ judge' = [Move(t, "settling") EXCEPT !.lock = t]
               /\ UNCHANGED <<det, gate>>
    /\ UNCHANGED <<flow, language, ear, voice, reply, call>>

\* With the lock: nothing is decided for a call that ends or for a language
\* that is no longer the active one; a turn's decision may wait for the
\* detector's tail.
Enter(t) ==
    /\ At(t) = "spawned" /\ t \in Decisions /\ judge.lock = Nobody
    /\ IF Ending \/ judge.task[t].spawn # language
       THEN judge' = Done(t) /\ UNCHANGED <<det, gate>>
       ELSE \/ Drain(t)
            \/ /\ t[1] = "turn" /\ judge' = [Move(t, "settling") EXCEPT !.lock = t]
               /\ UNCHANGED <<det, gate>>
    /\ UNCHANGED <<flow, language, ear, voice, reply, call>>

Settled(t) ==
    /\ At(t) = "settling" /\ Drain(t)
    /\ UNCHANGED <<flow, language, ear, voice, reply, call>>

\* decide() answers, fails or runs into its timeout; the answer passes the
\* confidence, substance and readout gates or not.
JudgeStays(t) ==
    /\ At(t) = "deciding"
    /\ judge' = Done(t)
    /\ UNCHANGED <<flow, language, ear, voice, det, gate, reply, call>>

\* (mutant) the gate opens before the reply is cut off
JudgeSwitchesEarly(t) ==
    /\ At(t) = "deciding" /\ flow = "llm" /\ ~Ending
    /\ \E l \in (EarLabels \cap VoiceLabels) \ {language}, tool \in BOOLEAN :
          /\ judge' = [judge EXCEPT !.task[t].at = IF ~tool /\ reply.live THEN "truncating" ELSE "ear",
                                    !.task[t].target = l, !.task[t].quiet = tool]
          /\ reply' = [reply EXCEPT !.kept = @ \/ tool]
    /\ gate' = NoGate
    /\ UNCHANGED <<flow, language, ear, voice, det, call>>

\* A target that passed: a tool call in flight keeps its audio ("this reply is
\* meant to keep playing", whoever armed the gate); otherwise a reply in flight
\* is cut off first, and the gate keeps holding until it is.
JudgeSwitches(t) ==
    /\ At(t) = "deciding" /\ flow = "llm" /\ ~Ending
    /\ \E l \in (EarLabels \cap VoiceLabels) \ {language}, tool \in BOOLEAN :
          LET cuts == ~tool /\ reply.live
          IN /\ judge' = [judge EXCEPT !.task[t].at = IF cuts THEN "truncating" ELSE "ear",
                                       !.task[t].target = l, !.task[t].quiet = tool]
             /\ gate' = IF cuts THEN gate ELSE NoGate
             /\ reply' = [reply EXCEPT !.kept = @ \/ tool]
    /\ UNCHANGED <<flow, language, ear, voice, det, call>>

\* __cleanup_downstream_tasks has invalidated every sequence; then the gap of
\* silence, during which the call may end.
Truncated(t) ==
    /\ At(t) = "truncating"
    /\ reply' = [reply EXCEPT !.live = FALSE]
    /\ gate' = NoGate
    /\ judge' = Move(t, "gap")
    /\ UNCHANGED <<flow, language, ear, voice, det, call>>

\* The gap is over: the gate is opened, whoever armed it meanwhile, and the hold
\* that a later turn armed during the gap is owed no more.
Unowed(tasks) == [u \in Switchers |-> [tasks[u] EXCEPT !.armed = @ /\ u # gate.task]]

Gap(t) ==
    /\ At(t) = "gap"
    /\ IF Ending THEN judge' = Done(t) /\ UNCHANGED gate
       ELSE /\ gate' = NoGate
            /\ judge' = [judge EXCEPT !.task = Unowed(Move(t, "ear").task)]
    /\ UNCHANGED <<flow, language, ear, voice, det, reply, call>>

---------------------------------------------------------------------------
\* switch_language: the transcriber first, then the voice, then the rest.  A
\* lock that is free suspends nobody.

\* TaskManager.language, and what each caller of switch_language does next: the
\* tool drops the detector's buffer where a detector decides, a decision goes on
\* to its handoff line.
Flip(t) ==
    /\ language' = Target(t)
    /\ judge' = IF t \in Decisions /\ ~judge.task[t].quiet THEN Move(t, "handoff") ELSE Done(t)
    /\ det' = IF t = Tool /\ flow = "deadjudge" THEN [det EXCEPT !.heard = {}] ELSE det

WithoutOne(running, l) == IF l = "none" THEN running ELSE [running EXCEPT ![l] = @ - 1]

\* SynthesizerPool.switch: the old generator is cancelled and awaited; rest are
\* those who go on waiting for the lock.
VoiceSwitch(t, rest) ==
    LET l == Target(t)
    IN CASE l = voice.active -> Flip(t) /\ voice' = [voice EXCEPT !.waits = rest]
         [] l # voice.active /\ l \notin VoiceLabels ->
               /\ judge' = Done(t) /\ voice' = [voice EXCEPT !.waits = rest]
               /\ UNCHANGED <<language, det>>
         [] OTHER ->
               /\ voice' = [voice EXCEPT !.waits = rest, !.lock = t, !.gen = "none",
                                         !.running = WithoutOne(@, voice.gen)]
               /\ judge' = Move(t, "voiceRun") /\ UNCHANGED <<language, det>>

\* (mutant) without synthesizer_pool's lock
ThenVoiceUnlocked(t) == VoiceSwitch(t, voice.waits)
\* (A lock goes to whoever waits for it first.)
ThenVoice(t) ==
    IF voice.lock = Nobody /\ voice.waits = << >> THEN VoiceSwitch(t, << >>)
    ELSE /\ judge' = Move(t, "voice") /\ voice' = [voice EXCEPT !.waits = Append(@, t)]
         /\ UNCHANGED <<language, det>>

\* TranscriberPool.switch; a leg that is down is run first, which may raise.
EarTake(t) ==
    /\ At(t) = "ear" /\ ear.lock = Nobody
    /\ LET l == Target(t)
       IN IF l \notin EarLabels
          THEN judge' = Done(t) /\ UNCHANGED <<ear, language, det, voice>>
          ELSE IF l # ear.active /\ ~ear.up[l] /\ ~ear.ended
          THEN /\ judge' = Move(t, "earRun") /\ ear' = [ear EXCEPT !.lock = t]
               /\ UNCHANGED <<language, det, voice>>
          ELSE ThenVoice(t) /\ ear' = [ear EXCEPT !.active = l]
    /\ UNCHANGED <<flow, gate, reply, call>>

EarRun(t) ==
    /\ At(t) = "earRun"
    /\ \/ /\ ear' = [ear EXCEPT !.up[Target(t)] = TRUE, !.active = Target(t), !.lock = Nobody]
          /\ ThenVoice(t)
       \/ /\ ear' = [ear EXCEPT !.lock = Nobody]
          /\ judge' = Done(t) /\ UNCHANGED <<language, det, voice>>
    /\ UNCHANGED <<flow, gate, reply, call>>

VoiceTake(t) ==
    /\ voice.waits # << >> /\ Head(voice.waits) = t /\ voice.lock = Nobody
    /\ VoiceSwitch(t, Tail(voice.waits))
    /\ UNCHANGED <<flow, ear, gate, reply, call>>

\* (mutant) no sentinel ends the old language's audio
VoiceRunNoSentinel(t) ==
    /\ At(t) = "voiceRun"
    /\ voice' = [voice EXCEPT !.active = Target(t), !.gen = Target(t), !.lock = Nobody,
                              !.running[Target(t)] = @ + 1]
    /\ Flip(t)
    /\ UNCHANGED <<flow, ear, gate, reply, call>>
VoiceRun(t) ==
    /\ At(t) = "voiceRun"
    /\ voice' = [voice EXCEPT !.active = Target(t), !.gen = Target(t), !.lock = Nobody,
                              !.running[Target(t)] = @ + 1, !.queue = Append(@, "switch")]
    /\ Flip(t)
    /\ UNCHANGED <<flow, ear, gate, reply, call>>

\* The handoff line is spoken, the turn corrected, the lock released, and the
\* follow-up answers in the new language unless the call is ending.
Handoff(t) ==
    /\ At(t) = "handoff"
    /\ judge' = Done(t)
    /\ reply' = IF Ending THEN reply
                ELSE [seq |-> 0, live |-> TRUE, frames |-> 1, kept |-> FALSE, leaked |-> FALSE]
    /\ UNCHANGED <<flow, language, ear, voice, det, gate, call>>

---------------------------------------------------------------------------
\* The other two who switch.

\* The agent's switch_language tool offers the labels of either pool.
ToolCalled ==
    /\ flow \in {"deadjudge", "legacy"} /\ ~Ending /\ At(Tool) = "idle" /\ call.tools < call.turns
    /\ \E l \in Labels \ {language} :
          judge' = [judge EXCEPT !.task[Tool] = [NoTask EXCEPT !.at = "spawned", !.target = l]]
    /\ call' = [call EXCEPT !.tools = @ + 1]
    /\ UNCHANGED <<flow, language, ear, voice, det, gate, reply>>

\* Past the playback wait.  Where decisions run too, the flip takes their lock.
ToolEnters ==
    /\ At(Tool) = "spawned"
    /\ flow = "deadjudge" => judge.lock = Nobody
    /\ judge' = IF flow = "legacy" THEN Move(Tool, "ear")
                ELSE IF Target(Tool) = language THEN Done(Tool)
                ELSE [Move(Tool, "ear") EXCEPT !.lock = Tool]
    /\ UNCHANGED <<flow, language, ear, voice, det, gate, reply, call>>

\* _handle_lid_signal: enough detections in a row switch by themselves.
AutoSwitch ==
    /\ flow = "legacy" /\ call.state # "over" /\ At(Unasked) = "idle"
    /\ \E l \in (det.heard \cap EarLabels) \ {ear.active} :
          /\ judge' = [judge EXCEPT !.task[Unasked] = [NoTask EXCEPT !.at = "ear", !.target = l]]
          /\ det' = [det EXCEPT !.heard = @ \ {l}]
    /\ UNCHANGED <<flow, language, ear, voice, gate, reply, call>>

SwitchStep ==
    \/ \E t \in Decisions : Enter(t) \/ Settled(t) \/ JudgeStays(t) \/ JudgeSwitches(t)
                            \/ Truncated(t) \/ Gap(t) \/ Handoff(t)
    \/ \E t \in Switchers : EarTake(t) \/ EarRun(t) \/ VoiceTake(t) \/ VoiceRun(t)
    \/ ToolEnters

---------------------------------------------------------------------------
\* The output loop.

\* (mutant) the hold has no end of its own
HoldsForever == gate.on /\ gate.seq = reply.seq
\* __lid_playback_gate_holds
Holds ==
    /\ gate.on /\ gate.seq = reply.seq
    /\ ~Ending /\ At(gate.task) # "idle" /\ ~gate.due

GateExpires ==
    /\ gate.on /\ ~gate.due
    /\ gate' = [gate EXCEPT !.due = TRUE]
    /\ judge' = [judge EXCEPT !.task[gate.task].armed = FALSE]
    /\ UNCHANGED <<flow, language, ear, voice, det, reply, call>>

\* The hold owed to the reply: its decision has armed the gate, is still open
\* and within its time, no switch of an earlier turn has opened the gate at the
\* end of its gap, and no tool call keeps the reply.
Owed ==
    /\ ~Ending /\ ~reply.kept
    /\ \E t \in Decisions : t[2] = reply.seq /\ t[1] = "turn" /\ judge.task[t].armed
                            /\ At(t) \in {"spawned", "settling", "deciding", "truncating"}

SendFrame ==
    /\ reply.live /\ reply.frames > 0 /\ ~Holds
    /\ reply' = [reply EXCEPT !.frames = @ - 1, !.leaked = @ \/ Owed]
    /\ gate' = IF gate.on /\ gate.seq = reply.seq THEN NoGate ELSE gate
    /\ UNCHANGED <<flow, language, ear, voice, det, judge, call>>

\* A running _run_generate queues audio; generate() yields it, and returns at
\* the sentinel of a switch.
VoiceSpeaks ==
    /\ Len(voice.queue) < 2
    /\ \E l \in VoiceLabels : voice.running[l] > 0
                              /\ voice' = [voice EXCEPT !.queue = Append(@, l)]
    /\ UNCHANGED <<flow, language, ear, det, judge, gate, reply, call>>

VoiceHeard ==
    /\ voice.queue # << >>
    /\ voice' = [voice EXCEPT !.queue = Tail(@)]
    /\ UNCHANGED <<flow, language, ear, det, judge, gate, reply, call>>

---------------------------------------------------------------------------
\* The connections of the transcriber pool and the call's listener.

LegDies ==
    /\ call.deaths < MaxDeaths
    /\ \E l \in EarLabels : ear.up[l] /\ ear' = [ear EXCEPT !.up[l] = FALSE]
    /\ call' = [call EXCEPT !.deaths = @ + 1, !.closed = @ + 1]
    /\ UNCHANGED <<flow, language, voice, det, judge, gate, reply>>

\* The end-of-stream packet of the caller's leg: the active transcriber closes.
EndOfStream ==
    /\ ~ear.ended
    /\ ear' = [ear EXCEPT !.ended = TRUE, !.up[ear.active] = FALSE]
    /\ call' = [call EXCEPT !.closed = @ + 1]
    /\ UNCHANGED <<flow, language, voice, det, judge, gate, reply>>

\* A closed packet: a standby's is passed over; the active one's is the call's
\* end or a reconnect, for which the listener waits at the switch lock.
ClosedPacket ==
    /\ call.listener = "on" /\ call.closed > 0
    /\ call' = [call EXCEPT !.closed = @ - 1,
                            !.listener = IF ear.up[ear.active] THEN @
                                         ELSE IF Ending THEN "gone" ELSE "waiting",
                            !.state = IF ~ear.up[ear.active] /\ Ending THEN "over" ELSE @]
    /\ UNCHANGED <<flow, language, ear, voice, det, judge, gate, reply>>

\* reconnect_active
Reconnect ==
    /\ call.listener = "waiting" /\ ear.lock = Nobody
    /\ IF ear.ended \/ ear.tries >= MaxReconnects
       THEN /\ call' = [call EXCEPT !.listener = "gone", !.state = "over"]
            /\ UNCHANGED ear
       ELSE /\ call' = [call EXCEPT !.listener = "reviving", !.leg = ear.active]
            /\ ear' = [ear EXCEPT !.lock = Listener]
    /\ UNCHANGED <<flow, language, voice, det, judge, gate, reply>>

Reconnected ==
    /\ call.listener = "reviving"
    /\ \/ /\ call' = [call EXCEPT !.listener = "on"]
          /\ ear' = [ear EXCEPT !.up[call.leg] = TRUE, !.tries = @ + 1, !.lock = Nobody]
       \/ /\ call' = [call EXCEPT !.listener = "gone", !.state = "over"]
          /\ ear' = [ear EXCEPT !.lock = Nobody]
    /\ UNCHANGED <<flow, language, voice, det, judge, gate, reply>>

\* The goodbye is under way, and then the conversation is over.
CallEnds ==
    /\ call.state # "over"
    /\ call' = [call EXCEPT !.state = IF @ = "on" THEN "ending" ELSE "over"]
    /\ UNCHANGED <<flow, language, ear, voice, det, judge, gate, reply>>

DecideStep ==
    \/ DetectorHears \/ NewTurn \/ IdleWatcher \/ ToolCalled \/ AutoSwitch
    \/ SwitchStep \/ GateExpires \/ SendFrame \/ CallEnds
VoiceStep == VoiceSpeaks \/ VoiceHeard
LegStep == LegDies \/ EndOfStream \/ ClosedPacket \/ Reconnect \/ Reconnected

SwitchNext == DecideStep \/ VoiceStep \/ LegStep

\* Coroutines that are ready run, awaits with a timeout come back, the polls of
\* the output loop and the idle watcher come round.
SwitchersFair ==
    /\ \A t \in Switchers : WF_switchVars(EarTake(t) \/ EarRun(t) \/ VoiceTake(t) \/ VoiceRun(t))
    /\ \A t \in Decisions : SF_switchVars(Enter(t))
    /\ \A t \in Decisions : WF_switchVars(Settled(t) \/ JudgeStays(t) \/ Truncated(t) \/ Gap(t)
                                          \/ Handoff(t))
    /\ SF_switchVars(ToolEnters) /\ WF_switchVars(IdleWatcher)
ListenerFair == WF_switchVars(ClosedPacket \/ Reconnected) /\ SF_switchVars(Reconnect)
SwitchFairness == SwitchersFair /\ ListenerFair /\ WF_switchVars(SendFrame)

SwitchSpec == SwitchInit /\ [][SwitchNext]_switchVars /\ SwitchFairness

---------------------------------------------------------------------------
SwitchTypeOK ==
    /\ flow \in Flows /\ language \in Labels
    /\ ear.active \in EarLabels /\ ear.up \in [EarLabels -> BOOLEAN]
    /\ ear.lock \in Switchers \cup {Listener, Nobody} /\ ear.tries \in 0..MaxReconnects
    /\ voice.active \in VoiceLabels /\ voice.gen \in VoiceLabels \cup {"none"}
    /\ voice.lock \in Switchers \cup {Nobody} /\ voice.waits \in Seq(Switchers)
    /\ voice.running \in [VoiceLabels -> 0..2]
    /\ det.heard \subseteq EarLabels
    /\ judge.lock \in Switchers \cup {Nobody}
    /\ \A t \in Switchers : judge.task[t].spawn \in Labels /\ judge.task[t].target \in Labels
    /\ gate.task \in Decisions \cup {Nobody} /\ gate.seq \in 0..MaxTurns
    /\ reply.seq \in 0..MaxTurns
    /\ call.state \in {"on", "ending", "over"}
    /\ call.listener \in {"on", "waiting", "reviving", "gone"} /\ call.leg \in EarLabels

Switching == \E t \in Switchers : At(t) \in {"earRun", "voice", "voiceRun"}

\* Whenever no switch is under way the synthesizer speaks the language of the
\* prompts, and the transcriber is in that language too or in one for which there
\* is no voice (then SynthesizerPool.switch refused what TranscriberPool.switch
\* had done): never in another language that could be spoken.
OneLanguage ==
    ~Switching => /\ voice.active = language
                  /\ ear.active \in {language} \cup (EarLabels \ VoiceLabels)

\* One generator feeds the pool's queue (two would read one websocket), and
\* behind the last switch sentinel there is only audio of the active voice.
VoicesInOrder ==
    /\ \A l, m \in VoiceLabels : voice.running[l] > 0 /\ voice.running[m] > 0 => l = m
    /\ \A l \in VoiceLabels : voice.running[l] <= 1
    /\ \A i \in DOMAIN voice.queue :
           (\A j \in i..Len(voice.queue) : voice.queue[j] # "switch")
               => voice.queue[i] = voice.active \/ voice.lock # Nobody

\* From the mismatch that armed the hold to the cut none of the reply's audio
\* is sent in the old language, through the gates of other turns, unless the
\* hold ran out, the call is ending, a tool call keeps the reply, or the hold
\* was armed in the gap of silence of an earlier turn's switch: that switch opens
\* the gate at the end of its gap, though the later turn is still undecided.
OldLanguageHeld == ~reply.leaked

\* A decision made for one language never replaces another.
StaleDecisionDropped ==
    [][language' # language =>
         \A t \in Decisions : At(t) # "handoff" /\ judge'.task[t].at = "handoff"
                                 => judge.task[t].spawn = language]_switchVars

\* Held audio is played or dropped at last.
HeldAudioMoves == (reply.live /\ reply.frames > 0 /\ Holds) ~> ~(reply.live /\ reply.frames > 0 /\ Holds)

\* Speech in another language that only the detector understood is put to the
\* judge, unless the call ends or the language becomes that one.
ForeignSpeechJudged ==
    (flow # "legacy" /\ det.heard \ {language} # {}) ~> (Ending \/ det.heard \ {language} = {})

\* The call is never left with a dead active transcriber, except that its stream
\* has ended: then no reconnect is tried any more and the hangup is on its way.
DeafnessEnds ==
    (~ear.up[ear.active] /\ ~ear.ended)
        ~> (ear.up[ear.active] \/ ear.ended \/ call.state = "over")
SwitchProgress == HeldAudioMoves /\ ForeignSpeechJudged /\ DeafnessEnds
=============================================================================
