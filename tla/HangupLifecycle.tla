--------------------------- MODULE HangupLifecycle ---------------------------
(***************************************************************************)
(* How a bolna call is brought to its end: the tasks of one TaskManager    *)
(* that decide to hang up, say goodbye, tear the call down, or call it     *)
(* off because the caller spoke again.                                     *)
(*                                                                         *)
(*   turn       _run_llm_task: may run the end_call tool or the hangup     *)
(*              check, and may hang up inside itself                       *)
(*   detached   the process_call_hangup task that end_call spawns          *)
(*   watchdog   __check_for_completion: inactivity, the call_terminate     *)
(*              cap, the deadline of a goodbye                             *)
(*   voicemail  VoicemailHandler._background_check                         *)
(*   observer   agent_hangup_observer: the goodbye was played              *)
(*   component  a transcriber or synthesizer that failed                   *)
(*   speech, keypad   what the caller says and dials                       *)
(*                                                                         *)
(* A procedure (process_call_hangup, __process_end_of_conversation) runs   *)
(* inside the task that calls it, so a program counter belongs to a task   *)
(* and cancelling a task abandons whatever procedure it is suspended in.   *)
(* Code between two awaits is one action. Elapsed time is a choice: any    *)
(* timeout may fire at any tick.                                           *)
(***************************************************************************)
EXTENDS Naturals, FiniteSets

CONSTANTS
    MaxTurns,        \* bound on the turns of one call
    Confs            \* the agents and callers a run considers

Conf == [interruptible : BOOLEAN,  \* interruptible_hangup_message
         text : BOOLEAN,           \* call_hangup_message is configured
         endCall : BOOLEAN,        \* end_call_primary, else the hangup check
         voicemail : BOOLEAN,      \* voicemail detection is enabled
         cap : BOOLEAN,            \* call_terminate > 0
         inactivity : BOOLEAN,     \* hang_conversation_after > 0
         prompts : BOOLEAN,        \* repeat_after_silence_seconds is set
         lossy : BOOLEAN,          \* the carrier may lose a mark
         overlap : BOOLEAN,        \* the caller speaks over the agent
         digits : BOOLEAN]         \* the caller dials

ASSUME LifecycleAssumption ==
    /\ MaxTurns \in Nat \ {0}
    /\ Confs \subseteq Conf

Turns == 1..MaxTurns
Turn(t) == <<"turn", t>>
Detached(t) == <<"detached", t>>
Watchdog == <<"watchdog", 0>>
Voicemail == <<"voicemail", 0>>
Observer == <<"observer", 0>>
Component == <<"component", 0>>
Speech == <<"speech", 0>>
Keypad == <<"keypad", 0>>
Handler == {Speech, Keypad}
Task == ({"turn", "detached"} \X Turns)
            \cup {Watchdog, Voicemail, Observer, Component, Speech, Keypad}

Dormant == {"none", "idle", "over"}
Farewell == {"goodbye", "playout"}
HangingUp == {"draining", "clearing"}
Ending == {"waiting", "polling", "stopping"}
Step == Dormant \cup Farewell \cup HangingUp \cup Ending \cup
        {"new", "running", "asking", "watching", "prompting", "checking",
         "interrupting", "replacing"}

VARIABLES
    conf,            \* the configuration of this call, fixed
    pc,              \* where each task is suspended
    llmRef,          \* the turn self.llm_task holds, 0 if None
    hangupRef,       \* the turn whose teardown _end_call_hangup_task holds
    prompted,        \* the turn the watchdog awaits
    raised,          \* turns that raise into whoever awaits them
    text,            \* call_hangup_message_config is not None
    triggered,       \* hangup_triggered
    endCall,         \* _end_call_in_progress
    window,          \* _hangup_interruptible_window
    called_off,      \* _hangup_cancelled
    processing,      \* _hangup_processing
    ending,          \* _end_of_conversation_in_progress
    ended,           \* conversation_ended
    queued,          \* hangup_message_queued
    stamped,         \* hangup_triggered_at is not None
    detected,        \* voicemail_handler.detected
    sent,            \* is_last_hangup_chunk_sent
    observed,        \* agent_hangup_observable has turned True
    goodbye,         \* the agent_hangup audio: a mark is outstanding
    run,             \* "live", "leaving" (the sockets closed) or "closed"
    stops,           \* history variable: calls of stop_handler
    rescued,         \* history variable: turns whose goodbye was called off
    cut,             \* history variable: hangups cancelled part way
    lost,            \* history variable: a goodbye was never acknowledged
    forced           \* history variable: the goodbye's deadline passed

watch == <<prompted, raised>>
refs == <<llmRef, hangupRef, watch>>
decision == <<text, triggered, endCall, window, called_off>>
teardown == <<processing, ending, ended, queued, stamped>>
signals == <<detected, sent, observed, goodbye>>
ghosts == <<stops, rescued, cut, lost, forced>>
vars == <<conf, pc, refs, decision, teardown, signals, run, ghosts>>

Init ==
    /\ conf \in Confs
    /\ pc = [p \in Task |->
                CASE p = Watchdog -> "watching"
                  [] p \in {Voicemail, Component, Speech, Keypad} -> "idle"
                  [] OTHER -> "none"]
    /\ llmRef = 0 /\ hangupRef = 0 /\ prompted = 0 /\ raised = {}
    /\ text = conf.text
    /\ triggered = FALSE /\ endCall = FALSE
    /\ window = FALSE /\ called_off = FALSE
    /\ processing = FALSE /\ ending = FALSE /\ ended = FALSE
    /\ queued = FALSE /\ stamped = FALSE
    /\ detected = FALSE /\ sent = FALSE /\ observed = FALSE /\ goodbye = FALSE
    /\ run = "live"
    /\ stops = 0 /\ rescued = {} /\ cut = {} /\ lost = FALSE /\ forced = FALSE

-----------------------------------------------------------------------------
(* Tasks.                                                                  *)

Live(p) == pc[p] \notin Dormant
LlmTask == IF llmRef = 0 THEN {} ELSE {Turn(llmRef)}
Goes(p, step) == pc' = [pc EXCEPT ![p] = step]
Hanging(p) == pc[p] \in Farewell \cup HangingUp \cup Ending

\* Tasks in S are cancelled at the await they are suspended in.
Cancelled(S) == [p \in Task |-> IF p \in S /\ Live(p) THEN "over" ELSE pc[p]]
CutBy(S) == cut \cup {p \in S : Hanging(p)}

\* Mutant: no `finally` around the goodbye.
WindowKept(S) == window

\* The `finally` of the end_call branch closes the window whenever the
\* goodbye of a turn in S is abandoned.
WindowAfter(S) == window /\ \A p \in S : pc[p] \notin Farewell

\* The task is done; _run_llm_task clears self.llm_task as its last act.
Returns(p) ==
    /\ Goes(p, "over")
    /\ llmRef' = IF p[1] = "turn" THEN 0 ELSE llmRef

\* _should_ignore_transcriber_input
Ignored == (triggered \/ endCall) /\ (ended \/ ~window)

-----------------------------------------------------------------------------
(* __process_end_of_conversation and process_call_hangup, in task p.       *)

\* Mutant: no guard against a teardown already under way.
EndUnguarded(p) ==
    /\ ending' = TRUE
    /\ Goes(p, "waiting")
    /\ UNCHANGED llmRef

\* __process_end_of_conversation up to wait_for_current_message.
End(p) ==
    IF ending \/ ended
    THEN Returns(p) /\ UNCHANGED ending
    ELSE /\ ending' = TRUE
         /\ Goes(p, "waiting")
         /\ UNCHANGED llmRef

\* process_call_hangup up to its first await: with a message to say it lets
\* the current one finish, without one it tears the call down at once.
HangUp(p, message) ==
    IF processing \/ ended
    THEN Returns(p) /\ UNCHANGED <<triggered, window, processing, ending, queued, stamped>>
    ELSE /\ processing' = TRUE /\ triggered' = TRUE /\ window' = FALSE
         /\ queued' = message
         /\ IF message
            THEN Goes(p, "draining") /\ UNCHANGED <<llmRef, ending, stamped>>
            ELSE stamped' = TRUE /\ End(p)

\* Mutant: cancelling the turn is taken to be enough.
ArmedAlways(flag) == "new"

\* What the end_call branch does once the playout wait of its turn returned:
\* the first step of the detached teardown, if the goodbye was not called off.
Armed(flag) == IF flag THEN "none" ELSE "new"

\* _cancel_pending_hangup, called by task p, which then goes on at `step`.
\* The wait of a cancelled turn may return all the same, when its marks were
\* cleared in the same iteration of the loop (asyncio.wait_for before 3.12).
CallOff(p, step) ==
    LET dying == (LlmTask \cup {Detached(t) : t \in {hangupRef} \ {0}}) \ {p}
        farewell == {t \in Turns : Turn(t) \in dying /\ pc[Turn(t)] \in Farewell}
    IN  /\ window' = FALSE
        /\ IF ended
           THEN /\ Goes(p, step)
                /\ UNCHANGED <<llmRef, hangupRef, triggered, endCall, called_off,
                               processing, ending, queued, stamped, rescued>>
           ELSE /\ called_off' = TRUE
                /\ \E resumed \in SUBSET {t \in farewell : pc[Turn(t)] = "playout"} :
                      pc' = [q \in Task |->
                               CASE q = p -> step
                                 [] q \in {Detached(t) : t \in resumed} -> Armed(called_off')
                                 [] OTHER -> Cancelled(dying)[q]]
                /\ llmRef' = IF \E q \in LlmTask \ {p} : Live(q) THEN 0 ELSE llmRef
                /\ hangupRef' = 0
                /\ triggered' = FALSE /\ endCall' = FALSE
                /\ processing' = FALSE /\ ending' = FALSE
                /\ queued' = FALSE /\ stamped' = FALSE
                /\ rescued' = rescued \cup farewell

\* __cleanup_downstream_tasks up to its first await.
StartCleanup(p, step) ==
    IF window
    THEN CallOff(p, step)
    ELSE /\ Goes(p, step)
         /\ UNCHANGED <<llmRef, hangupRef, triggered, endCall, window, called_off,
                        processing, ending, queued, stamped, rescued>>

\* The rest of it: audio and marks are dropped, the generation and the
\* voicemail check cancelled. What the caller p goes on to is added to it.
Killed(p) == (LlmTask \cup {Voicemail}) \ {p}
DropsAudio == lost' = (lost \/ goodbye)

\* wait_for_current_message returned: process_call_hangup clears the line.
HangupDrained(p) ==
    /\ pc[p] = "draining"
    /\ StartCleanup(p, "clearing")
    /\ UNCHANGED <<conf, watch, text, ended, signals, run, stops, cut, lost, forced>>

\* Its cleanup returned, and the goodbye is handed to the synthesizer. The
\* cleanup cancels self.llm_task even if it runs there, but nothing suspends
\* any more before the task ends.
HangupSpeaks(p) ==
    /\ pc[p] = "clearing"
    /\ pc' = [Cancelled(Killed(p)) EXCEPT ![p] = "over"]
    /\ llmRef' = 0
    /\ window' = WindowAfter(Killed(p))
    /\ cut' = CutBy(Killed(p))
    /\ DropsAudio
    /\ goodbye' = ~ended
    /\ stamped' = TRUE
    /\ UNCHANGED <<conf, hangupRef, watch, text, triggered, endCall, called_off,
                   processing, ending, ended, queued, detected, sent, observed, run,
                   stops, rescued, forced>>

GoodbyeOwed == triggered /\ queued /\ ~sent

\* wait_for_current_message returned while a goodbye is owed: poll for it.
EndPolls(p) ==
    /\ pc[p] = "waiting"
    /\ GoodbyeOwed
    /\ Goes(p, "polling")
    /\ UNCHANGED <<conf, refs, decision, teardown, signals, run, ghosts>>

\* Mutant: the teardown does not wait for the goodbye.
CommitsAtOnce(p) ==
    /\ pc[p] \in {"waiting", "polling"}
    /\ ended' = TRUE
    /\ pc' = [Cancelled(LlmTask \ {p}) EXCEPT ![p] = "stopping"]
    /\ window' = WindowAfter(LlmTask \ {p})
    /\ llmRef' = 0
    /\ stops' = stops + 1
    /\ UNCHANGED <<conf, hangupRef, watch, text, triggered, endCall, called_off, processing,
                   ending, queued, stamped, signals, run, rescued, cut, lost, forced>>

\* Mutant: the teardown cancels the task it runs in.
CommitsKeepsRef(p) ==
    /\ pc[p] \in {"waiting", "polling"}
    /\ ~GoodbyeOwed
    /\ ended' = TRUE
    /\ pc' = [Cancelled(LlmTask \ {p}) EXCEPT ![p] = "stopping"]
    /\ window' = WindowAfter(LlmTask \ {p})
    /\ stops' = stops + 1
    /\ UNCHANGED <<conf, refs, text, triggered, endCall, called_off, processing,
                   ending, queued, stamped, signals, run, rescued, cut, lost, forced>>

\* The disconnect is committed: the generation is cancelled unless the
\* teardown runs in it, the output closed and stop_handler called.
EndCommits(p) ==
    /\ pc[p] \in {"waiting", "polling"}
    /\ ~GoodbyeOwed
    /\ ended' = TRUE
    /\ pc' = [Cancelled(LlmTask \ {p}) EXCEPT ![p] = "stopping"]
    /\ window' = WindowAfter(LlmTask \ {p})
    /\ llmRef' = 0
    /\ stops' = stops + 1
    /\ UNCHANGED <<conf, hangupRef, watch, text, triggered, endCall, called_off, processing,
                   ending, queued, stamped, signals, run, rescued, cut, lost, forced>>

\* The sockets are closed and the transcriber stopped.
EndStops(p) ==
    /\ pc[p] = "stopping"
    /\ pc' = [Cancelled({Voicemail}) EXCEPT ![p] = "over"]
    /\ llmRef' = IF p[1] = "turn" THEN 0 ELSE llmRef
    /\ run' = IF run = "live" THEN "leaving" ELSE run
    /\ UNCHANGED <<conf, hangupRef, watch, decision, teardown, signals, ghosts>>

-----------------------------------------------------------------------------
(* Turns.                                                                  *)

Unused(t) == pc[Turn(t)] = "none" /\ \A u \in 1 .. t - 1 : pc[Turn(u)] # "none"

\* _run_llm_task: a generation is not started once a hangup is triggered.
TurnStarts(t) ==
    /\ pc[Turn(t)] = "new"
    /\ ~triggered /\ ~ended
    /\ Goes(Turn(t), "running")
    /\ UNCHANGED <<conf, refs, decision, teardown, signals, run, ghosts>>

\* The response is complete, or was skipped: ask whether to hang up.
TurnReplies(t) ==
    /\ \/ pc[Turn(t)] = "running"
       \/ pc[Turn(t)] = "new" /\ (triggered \/ ended)
    /\ IF conf.endCall \/ ended
       THEN Returns(Turn(t))
       ELSE Goes(Turn(t), "asking") /\ UNCHANGED llmRef
    /\ UNCHANGED <<conf, hangupRef, watch, decision, teardown, signals, run, ghosts>>

\* The hangup check said yes: hang up unless somebody else already has.
TurnHangsUp(t) ==
    /\ pc[Turn(t)] = "asking"
    /\ IF triggered \/ ended
       THEN Returns(Turn(t)) /\ UNCHANGED <<triggered, window, processing, ending, queued, stamped>>
       ELSE HangUp(Turn(t), text /\ ~detected)
    /\ UNCHANGED <<conf, hangupRef, watch, text, endCall, called_off, ended, signals,
                   run, ghosts>>

\* It said no.
TurnGoesOn(t) ==
    /\ pc[Turn(t)] = "asking"
    /\ Returns(Turn(t))
    /\ UNCHANGED <<conf, hangupRef, watch, decision, teardown, signals, run, ghosts>>

\* The end_call tool: barge-in is locked out, or let through by the window.
\* The goodbye came with the call, or a follow-up generation makes one.
TurnCallsEnd(t) ==
    /\ pc[Turn(t)] = "running" /\ conf.endCall
    /\ endCall' = TRUE /\ called_off' = FALSE
    /\ window' = (window \/ conf.interruptible)
    /\ \/ triggered' = TRUE /\ Goes(Turn(t), "playout")
       \/ Goes(Turn(t), "goodbye") /\ UNCHANGED triggered
    /\ UNCHANGED <<conf, refs, text, teardown, signals, run, ghosts>>

\* The follow-up goodbye is generated (or skipped, a hangup being under way).
TurnSaysGoodbye(t) ==
    /\ pc[Turn(t)] = "goodbye"
    /\ triggered' = TRUE
    /\ Goes(Turn(t), "playout")
    /\ UNCHANGED <<conf, refs, text, endCall, window, called_off, teardown, signals,
                   run, ghosts>>

\* The goodbye has played: hand the hangup to a detached task.
TurnPlayed(t) ==
    /\ pc[Turn(t)] = "playout"
    /\ window' = FALSE
    /\ text' = (text /\ called_off)
    /\ hangupRef' = IF called_off THEN hangupRef ELSE t
    /\ pc' = [pc EXCEPT ![Turn(t)] = "over", ![Detached(t)] = Armed(called_off)]
    /\ llmRef' = 0
    /\ UNCHANGED <<conf, watch, triggered, endCall, called_off, teardown, signals, run,
                   ghosts>>

\* The detached task runs process_call_hangup.
DetachedStarts(t) ==
    /\ pc[Detached(t)] = "new"
    /\ HangUp(Detached(t), text /\ ~detected)
    /\ UNCHANGED <<conf, hangupRef, watch, text, endCall, called_off, ended, signals,
                   run, ghosts>>

\* The generation raised or timed out (the end_call branch runs inside it):
\* _end_call_on_component_error, and an error of a component is raised again.
TurnFails(t) ==
    /\ pc[Turn(t)] \in {"running", "asking"} \cup Farewell
    /\ window' = WindowAfter({Turn(t)})
    /\ End(Turn(t))
    /\ raised' \in {raised, raised \cup {t}}
    /\ UNCHANGED <<conf, hangupRef, prompted, text, triggered, endCall, called_off,
                   processing, ended, queued, stamped, signals, run, ghosts>>

-----------------------------------------------------------------------------
(* The caller.                                                             *)

\* An interim transcript passes the interruption gate.
BargeIn ==
    /\ run = "live" /\ conf.overlap
    /\ pc[Speech] = "idle" /\ pc[Turn(1)] # "none"
    /\ ~Ignored
    /\ StartCleanup(Speech, "interrupting")
    /\ UNCHANGED <<conf, watch, text, ended, signals, run, stops, cut, lost, forced>>

\* A final transcript, or digits, that overlap a response in flight. Speech is
\* dropped while a hangup is under way; digits are not.
Overlaps(h) ==
    /\ run = "live"
    /\ \/ h = Speech /\ conf.overlap /\ ~Ignored
       \/ h = Keypad /\ conf.digits
    /\ pc[h] = "idle" /\ pc[Turn(1)] # "none"
    /\ ~detected
    /\ StartCleanup(h, "replacing")
    /\ UNCHANGED <<conf, watch, text, ended, signals, run, stops, cut, lost, forced>>

\* Nothing is in flight: the turn starts at once.
Speaks(h, t) ==
    /\ run = "live"
    /\ \/ h = Speech /\ ~Ignored
       \/ h = Keypad /\ conf.digits
    /\ pc[h] = "idle"
    /\ ~detected /\ Unused(t)
    /\ \A u \in Turns : ~Live(Turn(u))
    /\ pc' = [pc EXCEPT ![Turn(t)] = "new"]
    /\ llmRef' = t
    /\ UNCHANGED <<conf, hangupRef, watch, decision, teardown, signals, run, ghosts>>

\* The handler's cleanup returned: the generation and the voicemail check are
\* cancelled, whatever they are in the middle of. The kickoff is left out
\* when the turns of the model are used up.
CleanupEnds(h) ==
    /\ pc[h] \in {"interrupting", "replacing"}
    /\ LET killed == [Cancelled(Killed(h)) EXCEPT ![h] = "idle"]
       IN  IF pc[h] = "replacing" /\ \E t \in Turns : Unused(t)
           THEN \E t \in Turns :
                  /\ Unused(t)
                  /\ pc' = [killed EXCEPT ![Turn(t)] = "new"]
                  /\ llmRef' = t
           ELSE pc' = killed /\ llmRef' = 0
    /\ window' = WindowAfter(Killed(h))
    /\ cut' = CutBy(Killed(h))
    /\ DropsAudio
    /\ goodbye' = FALSE
    /\ UNCHANGED <<conf, hangupRef, watch, text, triggered, endCall, called_off,
                   teardown, detected, sent, observed, run, stops, rescued, forced>>

\* A transcript worth a voicemail check: an interim one, or the final one
\* (or digits) whose cleanup is about to begin.
VoicemailStarts ==
    /\ run = "live" /\ conf.voicemail
    /\ pc[Voicemail] \in Dormant /\ ~detected
    /\ \/ pc[Speech] = "idle" /\ ~Ignored
       \/ \E h \in Handler : pc[h] = "replacing"
    /\ Goes(Voicemail, "checking")
    /\ UNCHANGED <<conf, refs, decision, teardown, signals, run, ghosts>>

VoicemailFound ==
    /\ pc[Voicemail] = "checking"
    /\ detected' = TRUE
    /\ HangUp(Voicemail, FALSE)
    /\ UNCHANGED <<conf, hangupRef, watch, text, endCall, called_off, ended, sent,
                   observed, goodbye, run, ghosts>>

VoicemailNot ==
    /\ pc[Voicemail] = "checking"
    /\ Goes(Voicemail, "over")
    /\ UNCHANGED <<conf, refs, decision, teardown, signals, run, ghosts>>

-----------------------------------------------------------------------------
(* The watchdog, and what else can end a call.                             *)

\* The call_terminate cap.
CapReached ==
    /\ pc[Watchdog] = "watching" /\ conf.cap
    /\ End(Watchdog)
    /\ UNCHANGED <<conf, hangupRef, watch, decision, processing, ended, queued,
                   stamped, signals, run, ghosts>>

\* Mutant: the deadline does not stand in for the missing mark.
DeadlineWithoutMark ==
    /\ pc[Watchdog] = "watching"
    /\ triggered /\ ~ended /\ stamped
    /\ forced' = TRUE
    /\ End(Watchdog)
    /\ UNCHANGED <<conf, hangupRef, watch, decision, processing, ended, queued,
                   stamped, detected, observed, sent, goodbye, run, stops, rescued, cut,
                   lost>>

\* hangup_mark_event_timeout after the goodbye was handed over.
DeadlinePasses ==
    /\ pc[Watchdog] = "watching"
    /\ triggered /\ ~ended /\ stamped
    /\ sent' = TRUE /\ forced' = TRUE
    /\ End(Watchdog)
    /\ UNCHANGED <<conf, hangupRef, watch, decision, processing, ended, queued,
                   stamped, detected, observed, goodbye, run, stops, rescued, cut, lost>>

WatchdogStops ==
    /\ pc[Watchdog] = "watching"
    /\ triggered /\ ended
    /\ Goes(Watchdog, "over")
    /\ UNCHANGED <<conf, refs, decision, teardown, signals, run, ghosts>>

\* Both sides were silent for too long. The watchdog says goodbye and stops
\* watching.
Inactive ==
    /\ pc[Watchdog] = "watching" /\ conf.inactivity
    /\ ~triggered
    /\ HangUp(Watchdog, text /\ ~detected)
    /\ UNCHANGED <<conf, hangupRef, watch, text, endCall, called_off, ended, signals,
                   run, ghosts>>

\* Mutant: the watchdog does not hold the turn it waits for.
PromptsUnheld(t) ==
    /\ pc[Watchdog] = "watching" /\ conf.prompts
    /\ ~triggered
    /\ Unused(t) /\ \A u \in Turns : ~Live(Turn(u))
    /\ pc' = [pc EXCEPT ![Turn(t)] = "new", ![Watchdog] = "prompting"]
    /\ llmRef' = t
    /\ UNCHANGED <<conf, hangupRef, watch, decision, teardown, signals, run, ghosts>>

\* repeat_after_silence: the watchdog runs a turn and waits for it.
Prompts(t) ==
    /\ pc[Watchdog] = "watching" /\ conf.prompts
    /\ ~triggered
    /\ Unused(t) /\ \A u \in Turns : ~Live(Turn(u))
    /\ pc' = [pc EXCEPT ![Turn(t)] = "new", ![Watchdog] = "prompting"]
    /\ llmRef' = t /\ prompted' = t
    /\ UNCHANGED <<conf, hangupRef, raised, decision, teardown, signals, run, ghosts>>

\* It goes on when the turn is over or was cancelled, and dies of its error.
PromptEnds ==
    /\ pc[Watchdog] = "prompting"
    /\ pc[Turn(prompted)] = "over"
    /\ Goes(Watchdog, IF prompted \in raised /\ Turn(prompted) \notin cut
                      THEN "over" ELSE "watching")
    /\ UNCHANGED <<conf, refs, decision, teardown, signals, run, ghosts>>

\* A transcriber or synthesizer failed.
ComponentFails ==
    /\ run = "live" /\ pc[Component] = "idle"
    /\ End(Component)
    /\ UNCHANGED <<conf, hangupRef, watch, decision, processing, ended, queued,
                   stamped, signals, run, ghosts>>

\* The final mark of the goodbye is acknowledged. The observable notifies
\* its observer only the first time it turns True.
GoodbyeAcked ==
    /\ goodbye /\ run = "live"
    /\ goodbye' = FALSE
    /\ observed' = TRUE
    /\ pc' = IF observed THEN pc ELSE [pc EXCEPT ![Observer] = "new"]
    /\ UNCHANGED <<conf, refs, decision, teardown, detected, sent, run, ghosts>>

GoodbyeLost ==
    /\ goodbye /\ conf.lossy
    /\ goodbye' = FALSE
    /\ lost' = TRUE
    /\ UNCHANGED <<conf, pc, refs, decision, teardown, detected, sent, observed, run,
                   stops, rescued, cut, forced>>

\* agent_hangup_observer
Observes ==
    /\ pc[Observer] = "new"
    /\ sent' = TRUE
    /\ End(Observer)
    /\ UNCHANGED <<conf, hangupRef, watch, decision, processing, ended, queued,
                   stamped, detected, observed, goodbye, run, ghosts>>

\* The caller drops: the socket closes and the transcriber with it.
CallerLeaves ==
    /\ run = "live"
    /\ run' = "leaving"
    /\ UNCHANGED <<conf, pc, refs, decision, teardown, signals, ghosts>>

\* run() returns from its gather, marks the end and cancels the tasks it holds:
\* a detached teardown, the voicemail check and the observer outlive it.
RunCloses ==
    /\ run = "leaving"
    /\ run' = "closed"
    /\ ended' = TRUE
    /\ LET held == LlmTask \cup {Watchdog, Component} \cup Handler
       IN  pc' = Cancelled(held) /\ window' = WindowAfter(held)
    /\ llmRef' = 0
    /\ UNCHANGED <<conf, hangupRef, watch, text, triggered, endCall, called_off,
                   processing, ending, queued, stamped, signals, ghosts>>

-----------------------------------------------------------------------------
Procedure(p) ==
    HangupDrained(p) \/ HangupSpeaks(p) \/ EndPolls(p) \/ EndCommits(p) \/ EndStops(p)

TurnStep(t) ==
    \/ TurnStarts(t) \/ TurnReplies(t)
    \/ TurnHangsUp(t) \/ TurnGoesOn(t)
    \/ TurnCallsEnd(t) \/ TurnSaysGoodbye(t) \/ TurnPlayed(t)
    \/ TurnFails(t)

Next ==
    \/ \E p \in Task : Procedure(p)
    \/ \E t \in Turns : TurnStep(t) \/ DetachedStarts(t) \/ Prompts(t)
    \/ \E h \in Handler : Overlaps(h) \/ CleanupEnds(h) \/ \E t \in Turns : Speaks(h, t)
    \/ BargeIn
    \/ VoicemailStarts \/ VoicemailFound \/ VoicemailNot
    \/ CapReached \/ DeadlinePasses \/ WatchdogStops \/ Inactive \/ PromptEnds
    \/ ComponentFails
    \/ GoodbyeAcked \/ GoodbyeLost \/ Observes
    \/ CallerLeaves \/ RunCloses

Spec == Init /\ [][Next]_vars

\* The loop runs every task that can go on, every wait of the code is bounded
\* by a timeout, the watchdog ticks, and audio that was queued is played or
\* lost. Nothing is assumed of what the caller or a failing component does,
\* nor that the inactivity limit or the cap is ever reached.
Fairness ==
    /\ \A p \in Task : WF_vars(Procedure(p))
    /\ \A t \in Turns : WF_vars(TurnStep(t)) /\ WF_vars(DetachedStarts(t))
    /\ \A h \in Handler : WF_vars(CleanupEnds(h))
    /\ WF_vars(VoicemailFound \/ VoicemailNot)
    /\ WF_vars(DeadlinePasses \/ WatchdogStops) /\ WF_vars(PromptEnds)
    /\ WF_vars(GoodbyeAcked \/ GoodbyeLost) /\ WF_vars(Observes)
    /\ WF_vars(RunCloses)

FairSpec == Spec /\ Fairness

-----------------------------------------------------------------------------
FlagsOK ==
    {text, triggered, endCall, window, called_off, processing, ending, ended, queued,
     stamped, detected, sent, observed, goodbye, lost, forced} \subseteq BOOLEAN

\* Every variable has its type, and a watchdog that waits for a turn it ran
\* (_inject_and_run_llm, `await self.llm_task`) holds that turn.
TypeOK ==
    /\ conf \in Confs
    /\ pc \in [Task -> Step]
    /\ {llmRef, hangupRef, prompted} \subseteq 0..MaxTurns
    /\ raised \subseteq Turns
    /\ pc[Watchdog] = "prompting" => prompted # 0
    /\ FlagsOK
    /\ run \in {"live", "leaving", "closed"}
    /\ stops \in Nat
    /\ rescued \subseteq Turns
    /\ cut \subseteq Task

\* The input handler is told to hang up once, whoever decides to: the watchdog,
\* the voicemail check, the observer of the goodbye, a failed component and a
\* turn may all reach __process_end_of_conversation. Each goodbye the caller
\* called off resets its guard and allows one more.
StoppedOnce == stops <= 1 + Cardinality(rescued)

\* A turn whose goodbye the caller interrupted never hangs up: its detached
\* teardown is cancelled, and not armed by a playout wait that returned
\* because the interruption cleared the marks (_hangup_cancelled).
RescuedStaysOnTheLine == \A t \in rescued : pc[Detached(t)] \in Dormant

\* A hangup can be called off only while a goodbye is being said. With the
\* window open at any other time, the next cleanup would reset the flags of a
\* committed disconnect, or of no hangup at all.
WindowOnlyInGoodbye == window => \E t \in Turns : pc[Turn(t)] \in Farewell

\* A task that committed the disconnect goes on to close the sockets: no
\* cleanup, and not its own cancelling of self.llm_task, stops it between
\* stop_handler and the end. The voicemail check is left out: a cleanup
\* cancels it, but stop_handler has been called by then.
CommittedDisconnectFinishes ==
    [][\A p \in Task \ {Voicemail} :
          pc[p] = "stopping" /\ pc'[p] # "stopping" => run' # "live"]_vars

\* The conversation is not ended while the goodbye is being prepared or is
\* still to be played, unless its deadline passed or the caller called one off
\* (which clears the flags the poll of the goodbye reads).
OnlyDeadlineCutsGoodbye ==
    [][~ended /\ ended' /\ run = "live" =>
          forced \/ rescued # {} \/ (~goodbye /\ \A p \in Task : pc[p] \notin HangingUp)]_vars

\* A teardown was cancelled part way, or the goodbye was lost and the watchdog
\* left its loop without having enforced the deadline: the two ways a triggered
\* hangup is known to stall, which TeardownNeverCut and EveryHangupEnds are about.
Stranded == cut # {} \/ (lost /\ ~forced /\ pc[Watchdog] # "watching")

\* A hangup that was triggered ends the conversation or is called off.
HangupEnds == triggered ~> ended \/ ~triggered \/ Stranded

\* No task is cancelled while it hangs up ("must not be cancelled mid-way",
\* in the end_call branch). It is: the error path of a generation tears the
\* call down inside self.llm_task with the caller still listened to, and the
\* cleanup of what the caller says next cancels that task.
TeardownNeverCut == cut = {}

\* A hangup that was triggered ends the conversation, whatever is lost. It may
\* not: the watchdog stops watching once it has started the goodbye, so the
\* deadline it keeps for a goodbye that is never acknowledged is not kept for
\* its own.
EveryHangupEnds == triggered ~> ended \/ ~triggered

=============================================================================
