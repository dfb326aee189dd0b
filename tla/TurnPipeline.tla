---------------------------- MODULE TurnPipeline ----------------------------
(***************************************************************************)
(* The turn pipeline of bolna's TaskManager: the coroutines of one asyncio *)
(* event loop that take what the caller said to what the caller hears.     *)
(*                                                                         *)
(*   handler   _listen_transcriber (and, beside it, the DTMF collector)    *)
(*             accept finals, barge in, and run the downstream cleanup     *)
(*   task      _run_llm_task: one generation per response                  *)
(*   listener  __listen_synthesizer: enqueues the frames of valid          *)
(*             responses                                                   *)
(*   loop      __process_output_loop: SEND / BLOCK / WAIT for each frame   *)
(*   carrier   plays frames in order and acknowledges their marks          *)
(*                                                                         *)
(* Code between two awaits is one action; every await where another        *)
(* coroutine may run is a program counter value. A response is named by    *)
(* its sequence id, and so is the caller utterance it answers: both come   *)
(* from the same call of __get_updated_meta_info.                          *)
(***************************************************************************)
EXTENDS Naturals, Sequences, FiniteSets

CONSTANTS
    MaxSeq,          \* bound on the sequence ids one call allocates
    MaxFrames,       \* bound on the non-final frames of one response
    MaxInterims,     \* bound on the interim transcripts of the call
    Handlers,        \* coroutines that run _handle_transcriber_output
    Transcriber,     \* the one of them that is _listen_transcriber
    SettleCanFire,   \* regen_settle_can_fire: not an excluded transcriber
    StaleFrames,     \* an interrupted synthesizer may still deliver frames
    NullFinal,       \* the final frame is the b"\x00" control byte
    Eager            \* the transcriber emits eager_end_of_turn events

ASSUME PipelineAssumption ==
    /\ MaxSeq \in Nat \ {0}
    /\ MaxFrames \in Nat
    /\ MaxInterims \in Nat
    /\ Transcriber \in Handlers
    /\ {SettleCanFire, StaleFrames, NullFinal, Eager} \subseteq BOOLEAN

Seqs == 1..MaxSeq
Frame == [seq : Seqs, final : BOOLEAN]
Row == [role : {"user", "assistant"}, ids : SUBSET Seqs]
LiveState == {"new", "running", "talking", "flushed", "stored"}
GenState == LiveState \cup {"none", "done"}
HandlerState == {"idle", "check", "clear", "synth", "flush"}
NoFrame == [seq |-> 0, final |-> FALSE]

VARIABLES
    curr,            \* curr_sequence_id
    ids,             \* sequence_ids without the permanent -1
    calleeSpeaking,
    rip,             \* response_in_pipeline
    playing,         \* is_audio_being_played
    flushed,         \* the event _turn_audio_flushed is set
    hpc,             \* where each handler is suspended
    hctx,            \* the turn each handler is working on
    settle,          \* regen_settle_payload while the timer is armed
    gen,             \* state of the generation of each response
    llmRef,          \* the response whose task self.llm_task holds, 0 if None
    eagerRef,        \* the same for self.eager_llm_task
    eagerMark,       \* eager_history_snapshot
    synth,           \* state of each response inside the synthesizer
    emitted,         \* non-final frames emitted for each response
    queue,           \* buffered_output_queue
    sending,         \* the frame output.handle is sending, or NoFrame
    forwarding,      \* output.handle is sending a blocked control byte
    ledger,          \* frames whose marks are outstanding, in playing order
    begun,           \* the pre-mark of the first of them was acknowledged
    cleared,         \* responses in the snapshot the last clear_data took
    heard,           \* last_heard_response_uid: 0 when unknown
    staged,          \* keys of _pending_assistant_history
    committed,       \* _committed_assistant_sequences
    sent,            \* _sent_audio_sequences
    blocked,         \* _blocked_sequences
    lastSpoken,      \* turn of _last_spoken_assistant, 0 if None
    rows,            \* conversation_history.messages after the system prompt
    answered,        \* history variable: utterances some generation has seen
    retracted,       \* history variable: speculations cancelled by turn_resumed
    interims         \* number of interim transcripts so far

gate == <<curr, ids, calleeSpeaking>>
flags == <<rip, playing, flushed>>
handlers == <<hpc, hctx, settle>>
tasks == <<gen, llmRef, eagerRef, eagerMark>>
synthesis == <<synth, emitted>>
output == <<queue, sending, forwarding>>
carrier == <<ledger, begun, cleared, heard>>
history == <<staged, committed, sent, blocked, lastSpoken, rows>>
ghosts == <<answered, retracted, interims>>
vars == <<gate, flags, handlers, tasks, synthesis, output, carrier, history, ghosts>>

-----------------------------------------------------------------------------
NoTurn == [kind |-> "none", seq |-> 0, utts |-> {}]
InterimTurn(kind) == [kind |-> kind, seq |-> 0, utts |-> {}]
FinalTurn == [kind : {"final"}, seq : Seqs, utts : SUBSET Seqs]
UserRow(utts) == [role |-> "user", ids |-> utts]
AssistantRow(s) == [role |-> "assistant", ids |-> {s}]

Init ==
    /\ curr = 0 /\ ids = {} /\ calleeSpeaking = FALSE
    /\ rip = FALSE /\ playing = FALSE /\ flushed = TRUE
    /\ hpc = [h \in Handlers |-> "idle"]
    /\ hctx = [h \in Handlers |-> NoTurn]
    /\ settle = NoTurn
    /\ gen = [s \in Seqs |-> "none"]
    /\ llmRef = 0 /\ eagerRef = 0 /\ eagerMark = 0
    /\ synth = [s \in Seqs |-> "none"]
    /\ emitted = [s \in Seqs |-> 0]
    /\ queue = <<>> /\ sending = NoFrame /\ forwarding = FALSE
    /\ ledger = <<>> /\ begun = FALSE /\ cleared = {} /\ heard = 0
    /\ staged = {} /\ committed = {} /\ sent = {} /\ blocked = {}
    /\ lastSpoken = 0 /\ rows = <<>>
    /\ answered = {} /\ retracted = {} /\ interims = 0

-----------------------------------------------------------------------------
(* Conversation history and staging.                                       *)

LastIsUser == rows # <<>> /\ rows[Len(rows)].role = "user"

\* pop_and_merge_user: fold the unanswered row at the end into the new turn.
\* Mutants: the popped text is lost; the row is merged without being popped.
MergedUttsLost(utts) == utts
MergedUtts(utts) == IF LastIsUser THEN utts \cup rows[Len(rows)].ids ELSE utts
PoppedRowsKept == rows
PoppedRows == IF LastIsUser THEN SubSeq(rows, 1, Len(rows) - 1) ELSE rows

\* _commit_staged_assistant_history when s was in `from`: once per response.
Commit(s, from) ==
    IF s \in committed \/ s \notin from
    THEN staged' = from /\ UNCHANGED <<committed, lastSpoken, rows>>
    ELSE /\ staged' = from \ {s}
         /\ committed' = committed \cup {s}
         /\ lastSpoken' = s
         /\ rows' = Append(rows, AssistantRow(s))

\* Mutants: no rescue commit; a rescue commit that ignores the SEND record.
StageWithoutRescue(s) ==
    staged' = staged \cup {s} /\ UNCHANGED <<committed, lastSpoken, rows>>
StageAlwaysCommits(s) == Commit(s, staged \cup {s})

\* _stage_assistant_history, with the rescue commit of a response whose audio
\* passed the gate before its text was complete.
Stage(s) ==
    IF s \in sent \ blocked
    THEN Commit(s, staged \cup {s})
    ELSE staged' = staged \cup {s} /\ UNCHANGED <<committed, lastSpoken, rows>>

\* The response a clear is charged to: the latest in the cleared marks, or
\* the last one whose audio was acknowledged.
TrimTargets ==
    IF cleared # {}
    THEN {s \in cleared : \A t \in cleared : t <= s}
    ELSE {heard} \ {0}

RowsOf(s) == {i \in DOMAIN rows : rows[i] = AssistantRow(s)}

\* _trim_assistant_at_index when nothing was heard: the row goes, and with it
\* the agent's rows after it up to the caller's next one.
Removes(at) ==
    \E next \in at + 1 .. Len(rows) + 1 :
        /\ \A i \in at + 1 .. next - 1 : rows[i].role # "user"
        /\ next <= Len(rows) => rows[next].role = "user"
        /\ rows' = SubSeq(rows, 1, at - 1) \o SubSeq(rows, next, Len(rows))

\* sync_history: keep, shorten (or materialize) or remove the latest row of
\* the interrupted response. Which of them depends on acknowledged text and
\* elapsed time; acknowledged text is never removed.
SyncHistory ==
    \/ UNCHANGED rows
    \/ \E s \in TrimTargets :
        \/ RowsOf(s) = {} /\ rows' = Append(rows, AssistantRow(s))
        \/ /\ s # heard
           /\ \E at \in RowsOf(s) : Removes(at) /\ \A i \in RowsOf(s) : i <= at

-----------------------------------------------------------------------------
(* Generations.                                                            *)

Live(s) == gen[s] \in LiveState
LlmLive == llmRef # 0 /\ Live(llmRef)
\* Mutant: the cleanup drops its references without cancelling the tasks.
CancelledNot(S) == gen
Cancelled(S) == [s \in Seqs |-> IF s \in S /\ Live(s) THEN "none" ELSE gen[s]]
ArmedSettle == settle # NoTurn

\* kickoff_llm_generation on the gate, staging area and task reference the
\* caller has just computed.
Kickoff(s, ids0, staged0, gen0, ref0) ==
    LET displaced == ref0 # 0 /\ gen0[ref0] \in LiveState
    IN  /\ ids' = (IF displaced THEN {} ELSE ids0) \cup {s}
        /\ staged' = IF displaced THEN {} ELSE staged0
        /\ gen' = [t \in Seqs |-> CASE t = s -> "new"
                                    [] displaced /\ t = ref0 -> "none"
                                    [] OTHER -> gen0[t]]
        /\ llmRef' = s
        /\ rip' = TRUE

\* Mutant: the payload was cleared before it was read.
SettleFiresEmpty ==
    /\ ArmedSettle
    /\ settle' = NoTurn
    /\ UNCHANGED <<gate, flags, hpc, hctx, tasks, synthesis, output, carrier,
                   history, ghosts>>

\* __regen_after_settle: the window closed without another final.
SettleFires ==
    /\ ArmedSettle
    /\ Kickoff(settle.seq, ids, staged, gen, llmRef)
    /\ settle' = NoTurn
    /\ UNCHANGED <<curr, calleeSpeaking, playing, flushed, hpc, hctx, eagerRef, eagerMark,
                   synthesis, output, carrier, committed, sent, blocked,
                   lastSpoken, rows, ghosts>>

\* _run_llm_task starts and copies the history the prompt is built from.
LlmStart(s) ==
    /\ gen[s] = "new"
    /\ gen' = [gen EXCEPT ![s] = "running"]
    /\ answered' = answered \cup UNION {rows[i].ids : i \in
                       {j \in DOMAIN rows : rows[j].role = "user"}}
    /\ heard' = 0
    /\ UNCHANGED <<gate, flags, handlers, llmRef, eagerRef, eagerMark, synthesis,
                   output, ledger, begun, cleared, history, retracted, interims>>

\* A chunk of text marks the turn's audio unflushed and reaches _synthesize,
\* which drops it for an invalid id.
LlmChunk(s) ==
    /\ gen[s] \in {"running", "talking"}
    /\ gen' = [gen EXCEPT ![s] = "talking"]
    /\ flushed' = FALSE
    /\ synth' = IF s \in ids THEN [synth EXCEPT ![s] = "open"] ELSE synth
    /\ UNCHANGED <<gate, rip, playing, handlers, llmRef, eagerRef, eagerMark,
                   emitted, output, carrier, history, ghosts>>

\* The chunk that carries end_of_llm_stream: the rest of the text, or an empty
\* one that is forwarded only while the turn's audio is not flushed.
LlmFlush(s) ==
    /\ gen[s] \in {"running", "talking"}
    /\ gen' = [gen EXCEPT ![s] = "flushed"]
    /\ \E text \in BOOLEAN :
        /\ text \/ gen[s] = "talking"
        /\ flushed' = (flushed /\ ~text)
        /\ synth' = IF s \in ids /\ (text \/ ~flushed)
                    THEN [synth EXCEPT ![s] = "closed"] ELSE synth
    /\ UNCHANGED <<gate, rip, playing, handlers, llmRef, eagerRef, eagerMark,
                   emitted, output, carrier, history, ghosts>>

\* Mutant: a silent turn leaves response_in_pipeline set.
LlmEmptyKeepsFlag(s) ==
    /\ gen[s] = "running"
    /\ gen' = [gen EXCEPT ![s] = "stored"]
    /\ UNCHANGED <<gate, flags, handlers, llmRef, eagerRef, eagerMark,
                   synthesis, output, carrier, history, ghosts>>

\* The model returned no output: no audio will clear response_in_pipeline.
LlmEmpty(s) ==
    /\ gen[s] = "running"
    /\ gen' = [gen EXCEPT ![s] = "stored"]
    /\ rip' = FALSE
    /\ UNCHANGED <<gate, playing, flushed, handlers, llmRef, eagerRef, eagerMark,
                   synthesis, output, carrier, history, ghosts>>

\* __store_into_history.
LlmStore(s) ==
    /\ gen[s] = "flushed"
    /\ gen' = [gen EXCEPT ![s] = "stored"]
    /\ Stage(s)
    /\ UNCHANGED <<gate, flags, handlers, llmRef, eagerRef, eagerMark, synthesis,
                   output, carrier, sent, blocked, ghosts>>

\* The hangup check answered no. Whichever task ends clears self.llm_task.
LlmDone(s) ==
    /\ gen[s] = "stored"
    /\ gen' = [gen EXCEPT ![s] = "done"]
    /\ llmRef' = 0
    /\ UNCHANGED <<gate, flags, handlers, eagerRef, eagerMark, synthesis, output,
                   carrier, history, ghosts>>

-----------------------------------------------------------------------------
(* __cleanup_downstream_tasks, suspended in three sends.                   *)

\* Up to the first await: the settle timer dies before anything can run.
CleanupStart(h, turn) ==
    /\ hpc' = [hpc EXCEPT ![h] = "clear"]
    /\ hctx' = [hctx EXCEPT ![h] = turn]
    /\ settle' = NoTurn

\* output.handle_interruption returned: the clear was sent, clear_data took
\* its snapshot and emptied the mark ledger.
CleanupCleared(h) ==
    /\ hpc[h] = "clear"
    /\ hpc' = [hpc EXCEPT ![h] = "synth"]
    /\ cleared' = {ledger[i].seq : i \in DOMAIN ledger}
    /\ ledger' = <<>>
    /\ begun' = FALSE
    /\ UNCHANGED <<gate, flags, hctx, settle, tasks, synthesis, output, heard,
                   history, ghosts>>

\* A provider drops the work in progress; one with nothing to drop, or with
\* frames already on the wire, still delivers it.
SynthDrops ==
    \/ StaleFrames /\ UNCHANGED synthesis
    \/ synth' = [s \in Seqs |-> "none"] /\ UNCHANGED emitted

\* Mutant: the pending responses stay valid across the cleanup.
CleanupKeepsIds(h) ==
    /\ hpc[h] = "synth"
    /\ hpc' = [hpc EXCEPT ![h] = "flush"]
    /\ SynthDrops
    /\ SyncHistory
    /\ heard' = 0
    /\ staged' = {}
    /\ rip' = FALSE
    /\ UNCHANGED <<gate, playing, flushed, hctx, settle, tasks, output, ledger, begun,
                   cleared, committed, sent, blocked, lastSpoken, ghosts>>

\* synthesizer.handle_interruption returned: history is synced and every
\* pending response invalidated, up to the flush.
CleanupInvalidates(h) ==
    /\ hpc[h] = "synth"
    /\ hpc' = [hpc EXCEPT ![h] = "flush"]
    /\ SynthDrops
    /\ SyncHistory
    /\ heard' = 0
    /\ ids' = {}
    /\ staged' = {}
    /\ rip' = FALSE
    /\ UNCHANGED <<curr, calleeSpeaking, playing, flushed, hctx, settle, tasks, output,
                   ledger, begun, cleared, committed, sent, blocked, lastSpoken,
                   ghosts>>

\* flush_synthesizer_stream returned: the tasks are cancelled, the queue is
\* replaced and a fresh output loop started.
CancelDownstream ==
    /\ SynthDrops
    /\ queue' = <<>>
    /\ sending' = NoFrame
    /\ forwarding' = FALSE
    /\ flushed' = TRUE
    /\ eagerRef' = 0
    /\ eagerMark' = 0

CleanupEndsInterim(h) ==
    /\ hpc[h] = "flush" /\ hctx[h].kind \in {"bargein", "continuation"}
    /\ CancelDownstream
    /\ gen' = Cancelled({llmRef, eagerRef})
    /\ llmRef' = 0
    /\ hpc' = [hpc EXCEPT ![h] = "idle"]
    /\ hctx' = [hctx EXCEPT ![h] = NoTurn]
    /\ UNCHANGED <<gate, rip, playing, settle, carrier, history, ghosts>>

\* The tail of _handle_transcriber_output: append the turn, then debounce or
\* start its generation.
Respond(h, turn, overlapped, ids0, gen0, ref0, rows0) ==
    /\ rows' = Append(rows0, UserRow(turn.utts))
    /\ hpc' = [hpc EXCEPT ![h] = "idle"]
    /\ hctx' = [hctx EXCEPT ![h] = NoTurn]
    /\ \/ /\ overlapped /\ (ArmedSettle \/ SettleCanFire)
          /\ settle' = turn
          /\ ids' = ids0
          /\ gen' = gen0
          /\ llmRef' = ref0
          /\ UNCHANGED <<rip, staged>>
       \/ /\ ~(overlapped /\ (ArmedSettle \/ SettleCanFire))
          /\ UNCHANGED settle
          /\ Kickoff(turn.seq, ids0, staged, gen0, ref0)

CleanupEndsFinal(h) ==
    /\ hpc[h] = "flush" /\ hctx[h].kind = "final"
    /\ CancelDownstream
    /\ Respond(h, hctx[h], TRUE, ids \cup {hctx[h].seq},
               Cancelled({llmRef, eagerRef}), 0, rows)
    /\ UNCHANGED <<curr, calleeSpeaking, playing, carrier, committed, sent,
                   blocked, lastSpoken, ghosts>>

-----------------------------------------------------------------------------
(* What the transcriber reports.                                           *)

\* _has_interruptible_mark_activity and _inflight_response_activity.
Inflight(s) ==
    \/ rip
    \/ playing
    \/ ledger # <<>>
    \/ ids \ {s} # {}
    \/ LlmLive

\* Mutant: the id is registered before the counter is advanced.
FinalArrivesEarly(h) ==
    /\ hpc[h] = "idle" /\ curr < MaxSeq
    /\ curr' = curr + 1
    /\ ids' = ids \cup {curr}
    /\ hpc' = [hpc EXCEPT ![h] = "check"]
    /\ hctx' = [hctx EXCEPT ![h] = [kind |-> "final", seq |-> curr + 1,
                                    utts |-> {curr + 1}]]
    /\ UNCHANGED <<calleeSpeaking, flags, settle, tasks, synthesis, output,
                   carrier, history, ghosts>>

\* A final that starts a turn of its own: the caller stopped speaking (not
\* for DTMF) and __get_updated_meta_info registers a sequence id. An eager
\* reply is dropped, with its row, when the final confirms it and a settle
\* window is owed the turn; a final that does not confirm it leaves it there.
\* (Of the awaits in between, _maybe_update_tts_language may suspend: that is
\* SpeechEnded, and this action later. _report_component_health never does.)
FinalArrives(h) ==
    /\ hpc[h] = "idle" /\ curr < MaxSeq
    /\ curr' = curr + 1
    /\ ids' = ids \cup {curr + 1}
    /\ calleeSpeaking' = IF h = Transcriber THEN FALSE ELSE calleeSpeaking
    /\ hpc' = [hpc EXCEPT ![h] = "check"]
    /\ hctx' = [hctx EXCEPT ![h] = [kind |-> "final", seq |-> curr + 1,
                                    utts |-> {curr + 1}]]
    /\ \/ /\ h = Transcriber /\ eagerRef # 0 /\ ArmedSettle
          /\ gen' = Cancelled({eagerRef})
          /\ eagerRef' = 0
          /\ eagerMark' = 0
          /\ rows' = IF LastIsUser /\ rows[Len(rows)].ids = {eagerRef}
                     THEN PoppedRows ELSE rows
       \/ UNCHANGED <<gen, eagerRef, eagerMark, rows>>
    /\ UNCHANGED <<flags, settle, llmRef, synthesis, output, carrier, staged,
                   committed, sent, blocked, lastSpoken, ghosts>>

\* The welcome is playing, the text repeats the row before it, or voicemail
\* was detected: the turn is dropped and its id retired.
FinalRetired(h) ==
    /\ hpc[h] = "check"
    /\ ids' = ids \ {hctx[h].seq}
    /\ staged' = staged \ {hctx[h].seq}
    /\ hpc' = [hpc EXCEPT ![h] = "idle"]
    /\ hctx' = [hctx EXCEPT ![h] = NoTurn]
    /\ UNCHANGED <<curr, calleeSpeaking, flags, settle, tasks, synthesis, output,
                   carrier, committed, sent, blocked, lastSpoken, rows, ghosts>>

\* No response in flight and no window armed: append and start generating.
FinalAccepted(h) ==
    /\ hpc[h] = "check"
    /\ ~Inflight(hctx[h].seq) /\ ~ArmedSettle
    /\ Respond(h, hctx[h], FALSE, ids, gen, llmRef, rows)
    /\ UNCHANGED <<curr, calleeSpeaking, playing, flushed, eagerRef, eagerMark, synthesis,
                   output, carrier, committed, sent, blocked, lastSpoken, ghosts>>

\* Only the settle window is open: merge into it without a cleanup.
FinalSettles(h) ==
    /\ hpc[h] = "check"
    /\ ~Inflight(hctx[h].seq) /\ ArmedSettle
    /\ Respond(h, [hctx[h] EXCEPT !.utts = MergedUtts(@)], TRUE,
               ids \cup {hctx[h].seq}, gen, llmRef, PoppedRows)
    /\ UNCHANGED <<curr, calleeSpeaking, playing, flushed, eagerRef, eagerMark, synthesis,
                   output, carrier, committed, sent, blocked, lastSpoken, ghosts>>

\* A response is in flight: merge with the unanswered row and clean up.
FinalOverlaps(h) ==
    /\ hpc[h] = "check"
    /\ Inflight(hctx[h].seq)
    /\ rows' = PoppedRows
    /\ CleanupStart(h, [hctx[h] EXCEPT !.utts = MergedUtts(@)])
    /\ UNCHANGED <<gate, flags, tasks, synthesis, output, carrier, staged,
                   committed, sent, blocked, lastSpoken, ghosts>>

\* A false interruption (short speech over playing audio), a deferred barge-in
\* or a bare speech_ended: nothing but the speaking flag changes.
SpeechEnded ==
    /\ hpc[Transcriber] = "idle" /\ calleeSpeaking
    /\ calleeSpeaking' = FALSE
    /\ UNCHANGED <<curr, ids, flags, handlers, tasks, synthesis, output, carrier,
                   history, ghosts>>

\* Mutant: the pending audio is not invalidated before the first await.
BargeInKeepsIds ==
    /\ hpc[Transcriber] = "idle" /\ interims < MaxInterims
    /\ playing \/ rip
    /\ interims' = interims + 1
    /\ calleeSpeaking' = TRUE
    /\ playing' = FALSE
    /\ CleanupStart(Transcriber, InterimTurn("bargein"))
    /\ UNCHANGED <<curr, ids, rip, flushed, tasks, synthesis, output, carrier, history,
                   answered, retracted>>

\* should_trigger_interruption held: invalidate first, then clean up.
BargeIn ==
    /\ hpc[Transcriber] = "idle" /\ interims < MaxInterims
    /\ playing \/ rip
    /\ interims' = interims + 1
    /\ calleeSpeaking' = TRUE
    /\ ids' = {}
    /\ playing' = FALSE
    /\ CleanupStart(Transcriber, InterimTurn("bargein"))
    /\ UNCHANGED <<curr, rip, flushed, tasks, synthesis, output, carrier, history,
                   answered, retracted>>

\* An interim with no audio playing: the caller speaks; within the grace
\* period of a pending response it continues the turn and cancels that.
CallerContinues ==
    /\ hpc[Transcriber] = "idle" /\ interims < MaxInterims
    /\ ~playing
    /\ interims' = interims + 1
    /\ calleeSpeaking' = TRUE
    /\ \/ UNCHANGED handlers
       \/ ids # {} /\ rows # <<>> /\ CleanupStart(Transcriber, InterimTurn("continuation"))
    /\ UNCHANGED <<curr, ids, flags, tasks, synthesis, output, carrier, history,
                   answered, retracted>>

\* eager_end_of_turn: speculate on a reply before the turn is final. A
\* speculation before it that nothing resolved loses its reference.
EagerEndOfTurn ==
    /\ Eager /\ hpc[Transcriber] = "idle" /\ curr < MaxSeq
    /\ ~playing /\ ~rip /\ ~ArmedSettle
    /\ curr' = curr + 1
    /\ ids' = ids \cup {curr + 1}
    /\ eagerMark' = Len(rows)
    /\ eagerRef' = curr + 1
    /\ gen' = [gen EXCEPT ![curr + 1] = "new"]
    /\ rows' = Append(rows, UserRow({curr + 1}))
    /\ UNCHANGED <<calleeSpeaking, flags, handlers, llmRef, synthesis, output,
                   carrier, staged, committed, sent, blocked, lastSpoken, ghosts>>

\* turn_resumed: the caller went on, so the speculation is cancelled and the
\* history cut back to its snapshot.
TurnResumed ==
    /\ hpc[Transcriber] = "idle" /\ eagerRef # 0
    /\ gen' = Cancelled({eagerRef})
    /\ rows' = IF Len(rows) > eagerMark THEN SubSeq(rows, 1, eagerMark) ELSE rows
    /\ retracted' = retracted \cup {eagerRef}
    /\ eagerRef' = 0
    /\ UNCHANGED <<gate, flags, handlers, llmRef, eagerMark, synthesis, output,
                   carrier, staged, committed, sent, blocked, lastSpoken,
                   answered, interims>>

\* The final confirms the speculation: its task becomes the turn's task. Once
\* voicemail was detected, that is all.
FinalConfirmsEager ==
    /\ hpc[Transcriber] = "idle" /\ eagerRef # 0 /\ ~ArmedSettle
    /\ calleeSpeaking' = FALSE
    /\ \/ /\ gen' = Cancelled({llmRef})
          /\ ids' = (IF LlmLive THEN {} ELSE ids) \cup {eagerRef}
          /\ rip' = TRUE
       \/ UNCHANGED <<gen, ids, rip>>
    /\ llmRef' = eagerRef
    /\ eagerRef' = 0
    /\ eagerMark' = 0
    /\ UNCHANGED <<curr, playing, flushed, handlers, synthesis, output, carrier, history,
                   ghosts>>

-----------------------------------------------------------------------------
(* Synthesizer, listener and output loop.                                  *)

\* generate() yields a frame; __listen_synthesizer enqueues it while the
\* response is valid. A skipped final frame resets the playing flag and, like
\* every final frame, marks the audio flushed.
Listen(s, final) ==
    /\ IF s \in ids
       THEN /\ queue' = Append(queue, [seq |-> s, final |-> final])
            /\ UNCHANGED <<playing, flushed>>
       ELSE /\ playing' = (playing /\ ~final)
            /\ flushed' = (flushed \/ final)
            /\ UNCHANGED queue
    /\ UNCHANGED <<gate, rip, handlers, tasks, sending, forwarding, carrier, history,
                   ghosts>>

SynthFrame(s) ==
    /\ synth[s] \in {"open", "closed"} /\ emitted[s] < MaxFrames
    /\ emitted' = [emitted EXCEPT ![s] = @ + 1]
    /\ UNCHANGED synth
    /\ Listen(s, FALSE)

SynthFinal(s) ==
    /\ synth[s] = "closed"
    /\ synth' = [synth EXCEPT ![s] = "done"]
    /\ UNCHANGED emitted
    /\ Listen(s, TRUE)

\* _duplicates_last_spoken_turn: a response already ruled out, or one whose
\* text may restate the adjacent one the caller has just heard.
RuledDuplicate(s) == s \in blocked
MayDuplicate(s) == s \in staged /\ lastSpoken # 0 /\ s <= lastSpoken + 1

\* The output loop is not suspended in output.handle and has a frame to judge.
Judging == sending = NoFrame /\ ~forwarding /\ queue # <<>>

\* SEND up to the await of output.handle, which registers the marks.
OutputSend ==
    /\ Judging
    /\ LET f == Head(queue)
           s == f.seq
       IN  /\ s \in ids /\ ~calleeSpeaking /\ ~RuledDuplicate(s)
           /\ sent' = sent \cup {s}
           /\ Commit(s, staged)
           /\ ledger' = Append(ledger, f)
           /\ sending' = f
    /\ queue' = Tail(queue)
    /\ playing' = TRUE
    /\ rip' = FALSE
    /\ UNCHANGED <<gate, flushed, handlers, tasks, synthesis, forwarding, begun,
                   cleared, heard, blocked, ghosts>>

\* output.handle returned: a final frame retires its response.
OutputSent ==
    /\ sending # NoFrame
    /\ sending' = NoFrame
    /\ ids' = IF sending.final THEN ids \ {sending.seq} ELSE ids
    /\ flushed' = (flushed \/ sending.final)
    /\ UNCHANGED <<curr, calleeSpeaking, rip, playing, handlers, tasks, synthesis, queue,
                   forwarding, carrier, history, ghosts>>

\* BLOCK: the frame is discarded, its text with it. The control byte is still
\* forwarded, so that its mark comes back.
OutputBlock ==
    /\ Judging
    /\ LET f == Head(queue)
           s == f.seq
       IN  /\ s \notin ids \/ (~calleeSpeaking /\ (RuledDuplicate(s) \/ MayDuplicate(s)))
           /\ blocked' = blocked \cup {s}
           /\ staged' = staged \ {s}
           /\ forwarding' = (f.final /\ NullFinal)
           /\ ledger' = IF forwarding' THEN Append(ledger, f) ELSE ledger
           /\ rip' = (rip /\ ~(f.final /\ ~NullFinal))
           /\ flushed' = (flushed \/ (f.final /\ ~NullFinal))
    /\ queue' = Tail(queue)
    /\ UNCHANGED <<gate, playing, handlers, tasks, synthesis, sending, begun,
                   cleared, heard, committed, sent, lastSpoken, rows, ghosts>>

\* The control byte is on the wire: the blocked response is over, and with it
\* response_in_pipeline, whichever response that stands for by now.
OutputForwarded ==
    /\ forwarding
    /\ forwarding' = FALSE
    /\ rip' = FALSE
    /\ flushed' = TRUE
    /\ UNCHANGED <<gate, playing, handlers, tasks, synthesis, queue, sending,
                   carrier, history, ghosts>>

\* WAIT for longer than STUCK_AUDIO_GATE_RELEASE_S without new speech.
OutputReleasesGate ==
    /\ Judging
    /\ Head(queue).seq \in ids /\ calleeSpeaking
    /\ calleeSpeaking' = FALSE
    /\ UNCHANGED <<curr, ids, flags, handlers, tasks, synthesis, output, carrier,
                   history, ghosts>>

-----------------------------------------------------------------------------
(* The carrier plays the frames in order (external) and the input handler  *)
(* processes the marks it sends back.                                      *)

PreMarkAck ==
    /\ ledger # <<>> /\ ~begun
    /\ begun' = TRUE
    /\ playing' = TRUE
    /\ UNCHANGED <<gate, rip, flushed, handlers, tasks, synthesis, output, ledger, cleared,
                   heard, history, ghosts>>

PostMarkAck ==
    /\ ledger # <<>> /\ begun
    /\ ledger' = Tail(ledger)
    /\ begun' = FALSE
    /\ heard' \in {heard, Head(ledger).seq}  \* unchanged by a frame without text
    /\ playing' = (playing /\ ~Head(ledger).final)
    /\ UNCHANGED <<gate, rip, flushed, handlers, tasks, synthesis, output, cleared,
                   history, ghosts>>

-----------------------------------------------------------------------------
Caller ==
    \/ \E h \in Handlers : FinalArrives(h)
    \/ SpeechEnded
    \/ BargeIn
    \/ CallerContinues
    \/ EagerEndOfTurn
    \/ TurnResumed
    \/ FinalConfirmsEager

Handler(h) ==
    \/ FinalRetired(h)
    \/ FinalAccepted(h)
    \/ FinalSettles(h)
    \/ FinalOverlaps(h)
    \/ CleanupCleared(h)
    \/ CleanupInvalidates(h)
    \/ CleanupEndsInterim(h)
    \/ CleanupEndsFinal(h)

Generation(s) ==
    \/ LlmStart(s)
    \/ LlmChunk(s)
    \/ LlmFlush(s)
    \/ LlmEmpty(s)
    \/ LlmStore(s)
    \/ LlmDone(s)

Synthesis(s) == SynthFrame(s) \/ SynthFinal(s)

Output ==
    \/ OutputSend
    \/ OutputSent
    \/ OutputBlock
    \/ OutputForwarded
    \/ OutputReleasesGate

Carrier == PreMarkAck \/ PostMarkAck

Next ==
    \/ Caller
    \/ \E h \in Handlers : Handler(h)
    \/ \E s \in Seqs : Generation(s) \/ Synthesis(s)
    \/ SettleFires
    \/ Output
    \/ Carrier

Spec == Init /\ [][Next]_vars

\* Every coroutine is scheduled by the event loop and every await returns
\* (sends have timeouts, a generation has LLM_GENERATION_TIMEOUT_S); the caller
\* need not speak.
Fairness ==
    /\ \A h \in Handlers : WF_vars(Handler(h))
    /\ \A s \in Seqs : WF_vars(Generation(s)) /\ WF_vars(Synthesis(s))
    /\ WF_vars(SettleFires)
    /\ WF_vars(Output)
    /\ WF_vars(Carrier)

FairSpec == Spec /\ Fairness

-----------------------------------------------------------------------------
(* Properties.                                                             *)

FlagsOK == {calleeSpeaking, rip, playing, flushed, forwarding, begun} \subseteq BOOLEAN

GateOK == curr \in 0..MaxSeq /\ ids \subseteq Seqs

HandlersOK ==
    /\ hpc \in [Handlers -> HandlerState]
    /\ hctx \in [Handlers -> FinalTurn \cup {NoTurn, InterimTurn("bargein"),
                                             InterimTurn("continuation")}]
    /\ settle \in FinalTurn \cup {NoTurn}
    /\ \A h \in Handlers : hpc[h] = "check" => hctx[h] \in FinalTurn

TasksOK ==
    /\ gen \in [Seqs -> GenState]
    /\ llmRef \in 0..MaxSeq /\ eagerRef \in 0..MaxSeq /\ eagerMark \in Nat

SynthesisOK ==
    /\ synth \in [Seqs -> {"none", "open", "closed", "done"}]
    /\ emitted \in [Seqs -> 0..MaxFrames]

OutputOK ==
    /\ queue \in Seq(Frame)
    /\ sending \in Frame \cup {NoFrame}

CarrierOK ==
    /\ ledger \in Seq(Frame) /\ cleared \subseteq Seqs /\ heard \in 0..MaxSeq

HistoryOK ==
    /\ staged \subseteq Seqs /\ committed \subseteq Seqs
    /\ sent \subseteq Seqs /\ blocked \subseteq Seqs
    /\ lastSpoken \in 0..MaxSeq
    /\ rows \in Seq(Row)

GhostsOK ==
    /\ answered \subseteq Seqs /\ retracted \subseteq Seqs
    /\ interims \in 0..MaxInterims

\* The variables keep the types the code gives them; curr_sequence_id and the
\* ids derived from it never leave the allocated range, and whatever a handler
\* resumes with or the settle timer fires is a turn with a valid id.
TypeOK ==
    /\ FlagsOK /\ GateOK /\ HandlersOK /\ TasksOK /\ SynthesisOK
    /\ OutputOK /\ CarrierOK /\ HistoryOK /\ GhostsOK

\* Text never stays staged once its audio was let through, unless the response
\* was also blocked or already recorded: the SEND-time commit and the rescue
\* commit together miss no interleaving of storing and speaking.
SpokenTextIsRecorded == staged \cap sent \subseteq blocked \cup committed

\* The conversation history records no response of which no audio was let
\* through, however staging, cancelling and sending interleave.
RecordedWasSpoken == committed \subseteq sent

Owed(role) == {i \in DOMAIN rows : rows[i].role = role}

\* Popping and merging the unanswered row, from two handlers that suspend in
\* between, never leaves one utterance in two rows of the prompt.
UtteranceOnce ==
    \A i, j \in Owed("user") : i # j => rows[i].ids \cap rows[j].ids = {}

\* "Cancel any existing LLM task to prevent orphaned concurrent responses":
\* a generation that still runs is one a barge-in can cancel.
NoOrphanGeneration ==
    \A s \in Seqs : Live(s) => s \in {llmRef, eagerRef}

Cleaning == \E h \in Handlers : hpc[h] \in {"clear", "synth", "flush"}

\* Something on its way may still reach the code that clears the flags.
Coming ==
    \/ Cleaning \/ ArmedSettle
    \/ queue # <<>> \/ sending # NoFrame \/ forwarding
    \/ \E s \in Seqs : Live(s) \/ (s \in ids /\ synth[s] \in {"open", "closed"})

\* is_audio_being_played is only set while a mark is outstanding or audio is
\* coming: otherwise it stays set and blocks the silence hangup.
PlayingFlagWillClear == playing => Coming \/ ledger # <<>>

\* From the barge-in on, nothing of the interrupted response reaches the
\* carrier, although the output loop keeps running until the cleanup ends.
BargeInSilences ==
    [][sending' # sending /\ sending' # NoFrame
          => hctx[Transcriber].kind # "bargein"]_<<sending, hctx>>

\* No frame of an older response is sent once one of a newer was.
AudioMovesOn == sending' # sending /\ sending' # NoFrame => \A t \in sent : t <= sending'.seq

\* "Forward the bare marker - but only for a turn that actually sent text": a
\* valid response whose text reached the synthesizer also gets its end marker
\* there, without which a streaming synthesizer never flushes the turn.
EndMarkerForwarded ==
    \A s \in ids : gen[s] \in {"flushed", "stored", "done"} => synth[s] # "open"

\* turn_resumed cancels the speculation "so the orphan can't run": a reply to
\* a retracted transcript is never let through to the caller.
RetractedNeverSpoken == [][retracted \cap (sent' \ sent) = {}]_<<sent, retracted>>

Asked == UNION {rows[i].ids : i \in Owed("user")}

\* Without a settle window, interim transcripts and eager turns, every accepted
\* utterance gets into the prompt of some generation, however the finals after
\* it overlap: it is merged with them, and their cleanups cancel its reply.
AnsweredEventually ==
    \A s \in Seqs : s \in Asked ~> s \in answered \cup retracted

\* response_in_pipeline does not stay set for ever while the caller is silent.
PipelineFlagClears == rip ~> ~rip

\* The staging area implements the abstract record of what was spoken.
Record == INSTANCE SpokenRecord WITH
    Responses <- Seqs, spoken <- sent, suppressed <- blocked,
    drafted <- staged, recorded <- committed
RecordSpec == Record!Spec
=============================================================================
