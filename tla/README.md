# A TLA+ model of the bolna voice agent

bolna runs one phone call in one asyncio event loop: a telephony websocket, a
streaming transcriber, an LLM and a streaming synthesizer, held together by
`TaskManager` (`src/bolna/agent_manager/task_manager.py`, 9374 lines). Nothing
is parallel, but everything is interleaved: each coroutine may be suspended at
any `await` and finds its world changed when it resumes. This directory models
that, checks it with TLC and proves part of it with TLAPS.

All source references are to `src/bolna/`; TM is `agent_manager/task_manager.py`.

## Inventory

The components, the state each keeps, what it does, and what makes it correct.

| component | state | operations | hard behaviour | correct when |
|---|---|---|---|---|
| Turn pipeline (TM) | `response_in_pipeline`, `llm_task`, `eager_llm_task`, `regen_settle_payload`, `buffered_output_queue`, `_turn_audio_flushed`, staging area | accept a final, barge in, clean up, debounce, generate, stage and commit text, judge frames | every operation awaits in its middle; finals, DTMF, timers and frames interleave | what was spoken is recorded once, nothing stale is spoken, every utterance is answered (but one whose settle window a barge-in closes, TM 2660) |
| Interruption manager (`agent_manager/interruption_manager.py`) | `sequence_ids`, `curr_sequence_id`, `callee_speaking`, statistics | register, invalidate and revalidate ids; SEND / BLOCK / WAIT | ids outlive the responses they name | an invalid id is never sent again |
| Conversation history (`helpers/conversation_history.py`) | rows | append, pop and merge, trim, materialize, sanitize | two handlers edit it around each other's awaits | no utterance lost or in two rows |
| Mark ledger (`helpers/mark_event_meta_data.py`, `input_handlers/default.py`) | outstanding marks, cleared snapshot, `is_audio_being_played_to_user` | register, acknowledge, clear | late, lost and duplicated marks; clears | the flag and the estimate say what the caller hears |
| Hangup lifecycle (TM) | `hangup_triggered`, `_hangup_processing`, `conversation_ended`, `hangup_sent` | trigger, goodbye, watchdog, teardown | several triggers race; goodbye marks get lost | the call ends once, after the goodbye |
| Task lifecycle, `AssistantManager` | the coroutines of `run()` | gather, tear down | a component fails while others wait | nothing outlives the call |
| Voicemail handler | one background check | start, cancel, end the call | cancelled by the code it calls | at most one check, no self-cancel |
| Telephony input handlers | websocket, DTMF buffer | read events, collect digits | disconnects, marks in any order | every event handled, end of stream always signalled |
| Telephony output handlers | `mark_event_meta_data`, XOFF state | send with marks, clear, drain | flow control against clears and hangups | frames in order, nothing sent after a clear |
| Transcribers (11 providers) | connection, turn buffers, timers | finalize a turn, reconnect, eager turns | timeouts race late finals | each utterance is finalized once |
| TranscriberPool (`transcriber/transcriber_pool.py`) | active label, switch lock, reconnect budget | switch, reconnect the active member, route audio | a switch during a reconnect; a standby member that died unnoticed | the active member is up, or being revived, or the call ends |
| SynthesizerPool (`synthesizer/synthesizer_pool.py`) | active label, generator task, queue | switch under a lock | messages queued before the switch | one generator; old audio never follows the last sentinel |
| Synthesizers (14 providers) | connection, text queue, current turn | push, sender/receiver, interrupt, reconnect | a drop in the middle of a turn | a turn ends with exactly one final frame |
| Language identification and switching (`lid/`, `helpers/language_switcher.py`, TM) | detector socket and buffer, `language_switch_lock`, the playback gate, a decision per turn | listen along, decide, hold frames, truncate, switch both pools, hand off | decisions of several turns, the tool and the watcher in each other's awaits; a call that ends meanwhile | both pools and the prompts agree; no stale decision; held frames are released |
| LLM clients (`llms/`) | stream, response chain, tool-call accumulator | stream chunks, accumulate, retry | cancellation in the middle of a chain | a chain never names a response the provider does not have |
| Function calling (TM, `helpers/function_calling_helpers.py`) | tool rows, deferred finals | call, wait, follow up | a final during the call | every call has one result row |
| Graph agent (`agent_types/graph_agent.py`) | current node, speculative tails | route, traverse | a route computed for an older turn | the node after a turn is the routed one |
| Knowledge base, RAG client | circuit breaker | query, trip, probe | concurrent probes | trips after the configured failures |
| Speech-to-speech (`s2s/`, TM) | realtime session | forward audio both ways | interruption offsets | truncated where the caller stopped hearing |
| Other agents, configuration, utilities, local setup | none that interleaves | | | not modelled |

How they interact. The input handler and the transcriber put events on queues
that `_listen_transcriber` consumes; that coroutine (and, beside it, the DTMF
collector) calls `_handle_transcriber_output`, which starts a generation as a
task of its own. The generation pushes text to the synthesizer. A listener
coroutine iterates `synthesizer.generate()` and queues frames; the output loop
judges each frame against the interruption manager and hands it to the output
handler, which registers marks and writes to the websocket. The carrier plays
the frames and returns the marks to the input handler. A barge-in walks the
same chain backwards (`__cleanup_downstream_tasks`): it clears the carrier,
interrupts the synthesizer, repairs the history, cancels the tasks and replaces
the queue, awaiting at each of them.

## Plan and its state

Core first; each line is one module or a group of them.

1. `TurnPipeline` with `SpokenRecord` (done): the chain above, two handlers,
   settle window, eager turns. Proved: types, the record, orphans, silence
   after a barge-in.
2. `HangupLifecycle` (done): hangups, goodbyes, their calling off, teardown,
   watchdog and voicemail check; liveness of the end of the call. Proved: a
   goodbye called off stays called off, the window is open only in a goodbye.
3. `LanguageSwitch` and `LanguageDetector` (done): the two pools, the decisions,
   the gate, the detector. Proved: one language, voices in order, no stale
   decision, every recognised utterance in one place.
4. `Transcriber` and the modules on it (done): every transcriber's connection
   and turn. Proved: one closed packet and nothing behind it, one watchdog, late ends.
5. `Synthesizer` and the modules on it (done for the streaming providers).
6. Left, in this order: the conversation history as an algorithm (merge, trim,
   materialize, sanitize, tool rows); function calls and the defer rule for finals;
   sip-trunk flow control; the RAG circuit breaker; LLM response chains and the
   tool-call accumulator; the graph agent's routing.

## Modules

| module | extends | models |
|---|---|---|
| `SpokenRecord` | | abstract: a text enters the record when it is stored and some of its audio is sent |
| `TurnPipeline` | | the turn from transcript to audio and back; implements `SpokenRecord` |
| `MCTurnPipeline`, `MCPipelineSafety` | `TurnPipeline` | its instances |
| `HangupLifecycle`, `MCHangupLifecycle` | | the end of a call and the agents it is checked for |
| `Transcriber` | | what the speech-to-text connections share |
| `TurnTranscribers`, `SessionTranscribers` | `Transcriber` | the providers, in two groups |
| `Transcribers` | both | all of them, one at a time, and what the listener may expect |
| `Synthesizer` | | what the text-to-speech connections share |
| `StreamSynthesizers`, `KalpaSynthesizer` | `Synthesizer` | the providers |
| `Speaking` | both | all of them, one at a time, behind the listener |
| `LanguageSwitch` | | the pools, the decisions, the gate, the listener's reconnect |
| `LanguageDetector` | | the detector (`lid/`) |
| `MCLanguages` | both | their instance |
| `*_proofs` | the component named | the theorems; `Speaking_proofs` is on top of `StreamSynthesizers_proofs`, `KalpaSynthesizer_proofs` on top of that, `TurnEnds_proofs` on top of both; `Languages_proofs` is about the detector and switching |

In all of them code between two awaits is one action, and a coroutine's place is
a field of the state exactly when another coroutine can tell the places apart.
Definitions marked `(mutant)` are not used by any specification: they are the
plausible bugs the properties were tried against.

### The turn pipeline

`TurnPipeline` models the coroutines named in its header. Code between two
awaits is one action; an await at which another coroutine matters is a program
counter value: `hpc[h]` for a handler (`check` after the first awaits of
`_handle_transcriber_output`, `clear`, `synth`, `flush` in the cleanup),
`gen[s]` for a generation, `sending` and `forwarding` for the output loop.

| state | code |
|---|---|
| `curr`, `ids`, `calleeSpeaking` | `InterruptionManager.curr_sequence_id`, `sequence_ids`, `callee_speaking` |
| `rip`, `playing`, `flushed` | `response_in_pipeline`, `is_audio_being_played_to_user`, `_turn_audio_flushed` |
| `hctx`, `settle` | locals a handler resumes with, `regen_settle_payload` |
| `gen`, `llmRef`, `eagerRef`, `eagerMark` | `_run_llm_task` per response, `llm_task`, `eager_llm_task`, `eager_history_snapshot` |
| `synth`, `emitted` | a response inside the provider: text open, text closed, frames out |
| `queue`, `sending`, `forwarding` | `buffered_output_queue`, the awaits of `output.handle` |
| `ledger`, `begun`, `cleared`, `heard` | outstanding marks in playing order, the snapshot of `clear_data`, `last_heard_response_uid` |
| `staged`, `committed`, `sent`, `blocked`, `lastSpoken`, `rows` | the staging area of `_stage_assistant_history` and the history rows |
| `answered`, `retracted` | history variables: utterances in some prompt, speculations cancelled by `turn_resumed` |

A response is named by its sequence id and so is the utterance it answers.
`SpokenRecord` is the abstract specification of the staging area: a text is
drafted when stored, spoken when audio passes the gate, and enters the record
when both have happened, in either order.

Abstractions: `_synthesize` runs as a task of its own in the code and is part of
the chunk's action here; a telephony handle registers its marks at the start of
its send; the duplicate check on text (`_duplicates_last_spoken_turn`) may hold
for adjacent responses only and is a choice; whether a false interruption, a
deferred barge-in or a continuation is recognised (word counts, timers) is a
choice; how much of a cleared response was heard is a choice between keeping,
shortening, materializing and removing its row; the awaits with which a final begins
(TM 5662, 5674) are no places of their own: the first is between two actions (the speech
ends, then `FinalArrives`), the second does not suspend. Messages with sequence id -1
(welcome, backchannels, goodbye), tool calls and the language gate (see `LanguageSwitch`) are left out.

### The end of a call

`HangupLifecycle` models how a call ends. The procedures `process_call_hangup` and
`__process_end_of_conversation` run inside whichever task calls them (a turn, the
detached task of `end_call`, the watchdog, the voicemail check, the observer of
the goodbye mark, a failing component), so a program counter belongs to a task
and cancelling the task abandons its procedure where it is suspended:

| `pc` | suspended in |
|---|---|
| `draining`, `clearing` | `process_call_hangup`: the wait for the current message, its cleanup |
| `waiting`, `polling`, `stopping` | `__process_end_of_conversation`: the wait, the poll of `hangup_sent`, `stop_handler` |
| `goodbye`, `playout` | the `end_call` branch: the follow-up generation, the playout wait |
| `asking` | the hangup check |
| `interrupting`, `replacing` | the cleanup of a barge-in, of an overlapping final |
| `prompting` | the watchdog in `_inject_and_run_llm` |

Its other variables are the attributes of the same name (`window` is
`_hangup_interruptible_window`, `stamped` is `hangup_triggered_at`); `goodbye` is
the goodbye audio whose mark is outstanding; `stops`, `rescued`, `cut`, `lost` and
`forced` are history variables. `conf` holds the features of an agent and its
call, chosen once. Elapsed time is a choice: a timeout may fire at any tick. When
a generation is cancelled the wait it was in may still return normally
(`asyncio.wait_for`), the race `_hangup_cancelled` guards against. The settle
window of `TurnPipeline` is collapsed into the start of a turn.

### Transcribers

One behaviour is about one provider `stt`: its transcription task, the sender,
heartbeat and watchdog tasks it starts, and a service that works through the
utterances in order and may at any time fall silent, repeat an end, report an
error or drop the socket.

| state | code |
|---|---|
| `link` | `transcription_task`, `connection_on`, the websocket, `connection_error`, `sender_task`, `heartbeat_task`, the utterance-timeout tasks, the attempts of the connect loop |
| `turn` | `current_turn_id`, `is_transcript_sent_for_processing`, `final_transcript`, `current_turn_interim_details`, `last_interim_time`, and one flag of the provider's own |
| `wire`, `svc` | messages not yet read; the service (external) |
| `heard` | history: transcripts per utterance, an interim still unresolved, closed packets, words a watchdog delivered |

A provider is an operator from a message to a `Result` (turn, packets, whether it
stops reading or stores an error); `Dial`, `Take`, `RunsDry`, `Finally`, `Toggle` and
`CleanUp` are what `transcribe()`, `toggle_connection()` and `cleanup()` have in
common, with the provider's differences as arguments: whether a refused dial sends
a closed packet, whether the watchdog is cancelled, whether `cleanup` finds the
packet in a `finally` block. Words are the number of the utterance they belong to;
latencies, confidences, keyterms and audio formats are left out.

Providers that lack a property are excluded by name in it, with the reason beside
it: Soniox's watchdog outlives its run, four providers and OpenAI's failed connect
queue a second closed packet, Flux drops the end of a turn it had released.

### Synthesizers

One behaviour is about one provider `tts` and a call of two turns.

| state | code |
|---|---|
| `pipe` | the call: `sequence_ids`, pushes still owed, an interruption under way |
| `base` | `StreamSynthesizer`: `text_queue` (the turns, in order), `meta_info`, `current_turn_start_time`, `connection_error` |
| `senders` | the `sender()` tasks, in the order of their pushes |
| `link` | the websocket (`closing`: what is left can be read, a send raises; `closed`: nothing is left, and the receiver has yet to find out) and `monitor_connection`, which may replace a closed socket before the receiver has met its end (`unmet`) |
| `own` | contexts, ignored contexts, pending cancels; for Kalpa the lock's place, epoch, utterance, slot and response |
| `wire` | frames the service has rendered (external) |
| `said` | history: what was played under which label |

The hazard is the same for all: audio is labelled by its position in a queue of
sent messages. Only providers that keep turns apart can promise whose audio is
played as whose, so the claims name them: `OwnAudio`, `OwnEnd`, `SpokenOnce` and
`UtterancesApart` are Kalpa's, `NotMuted` is Kalpa's and the two ElevenLabs', and
all assume that every turn dropped was dropped through `handle_interruption`
(`Told`) and, where labels are counted, that valid turns did not overlap. Four
premises more name code that breaks the claim without them:

* `Calm` (Kalpa): no text or flush was sent past an error frame that was on its way and
  not yet read (`own.crossed`). The error is of the rejected text, so the code takes it
  for the end of whatever utterance is open when it is read
  (kalpa_synthesizer.py:711-719; the comment at 725-731 has one error end one utterance).
* `~own.kept` (ElevenLabs): a context interrupted while the socket is gone is
  not retired (elevenlabs_synthesizer.py:185-191), against the comments at 149-150
  and 182-183, so a turn can begin under the old context's labels.
* `~link.unmet` (`Met`; Kalpa, Sarvam): no redial overtook the receiver. `monitor_connection`
  polls on its own (stream_synthesizer.py:334-354), so it can replace a closed socket while
  the receiver is suspended at a yield, and what the two providers do about a socket lost
  under a turn hangs on meeting its end (kalpa_synthesizer.py:625-629 and 739-752,
  sarvam_synthesizer.py:153-157 and 203-207). Overtaken, Kalpa's dial frees the slot
  (821-829) without marking a half-heard utterance dead, and `_open_utterance` (467) sends
  the whole of it again; and a turn of either that was flushed gets no end. The model has
  these behaviours; `SpokenOnce` and `UndisturbedTurnEnds` are claimed of the others.
* `~link.forgot`: no dial cleared a stored `connection_error`; the frame that would have
  raised it is then an ordinary one.

What the model does and no property forbids, since nothing in the repository
promises otherwise: an ElevenLabs context interrupted on a lost socket is not
remembered as ignored; ElevenLabs v3 that notices a lost socket only at the top of
its loop leaves the turn unended; a Kalpa error frame that arrives after a slot
timed out settles the newer turn without an end, so `TurnEnds` excludes lost
sockets; Rime's turn is not ended if its senders overtake each other. Two limits of the
model: for ElevenLabs v3 the `recv` pending on a socket given up at an interruption
(`dying`) ends before the replacement is up; and the run's ends bring no text
(`EndTexts = {FALSE}`) to keep it short, while the theorems hold for ends with text as
well.

### Languages

`LanguageSwitch` has one record per object:

| state | code |
|---|---|
| `flow` | decisions of the judge switch (`llm`), only the tool switches beside them (`deadjudge`), or no detector decides (`legacy`) |
| `language` | `TaskManager.language` |
| `ear` | `TranscriberPool`: active label, members up, lock, reconnects used |
| `voice` | `SynthesizerPool`: active label, the generator, lock and its waiters, running `_run_generate` tasks, queue with sentinels |
| `det` | languages heard by the detector and not drained |
| `judge` | each decision (one per turn, one of the idle watcher), the tool's switch and the heuristic's: where it is suspended, for which language it was started, its target; `language_switch_lock` |
| `gate` | `lid_playback_gate` |
| `reply` | the reply whose audio the gate may hold |
| `call` | the call's end, and `_listen_transcriber` with its closed packets |

| place of a task | suspended in |
|---|---|
| `spawned` | the wait for `language_switch_lock` (the tool: for the playback) |
| `settling`, `deciding` | the detector's settle wait, `decide()` |
| `truncating`, `gap` | `__cleanup_downstream_tasks`, the silence before the switch |
| `ear`, `earRun` | the lock of the transcriber pool, `run()` of a member that was down |
| `voice`, `voiceRun` | the lock of the synthesizer pool, the cancelled generator |
| `handoff` | the handoff line and the corrected turn |

What the judge answers, and the gates on its confidence and on the substance of
the turn, are a choice; so is how many detections make the heuristic switch.

`LanguageDetector`: `lid` is the socket, the two loops and `_reconnect`; `buffer` is
the audio queue, the utterance under way and the segments; `taken` and `aged` are
where segments have gone. An utterance is its number.

## Runs

Deadlock is not checked in any of them: a call falls silent when the bounds are
used up, or is over.

| run | question | result |
|---|---|---|
| PipelineBargeIn | safety of the pipeline, bounded in three ways (`bound`): a barge-in, three finals of two handlers, eager turns | types, record, no orphan, no utterance in two rows, no way back to an older turn, silence after the barge-in |
| PipelineTurns | speech and digits handled concurrently, fair | without a settle window, interims and eager turns: every utterance reaches a prompt; the pipeline flag clears |
| PipelineOrphan | violated: TM 5094 "Cancel any existing LLM task to prevent orphaned concurrent responses" | a second speculation takes the reference of one whose final was dropped, and that one runs on where nothing can cancel it (TM 5589) |
| PipelineRetracted | violated: deepgram_transcriber.py 453 "so the orphan can't run" | `turn_resumed` leaves the speculation's id and pushed text valid; its audio is sent (TM 5606) |
| PipelinePlayingLatched | violated: TM 8027 says what happens to the flag when marks are wiped | an overlapping final wipes the marks and leaves `is_audio_being_played_to_user` set (TM 2665) |
| PipelineEndMarker | violated: TM 3219 "a streaming synthesizer would never flush the turn" | a late final frame sets the shared event and the next turn's empty end marker is dropped (TM 3217) |
| HangupCall | five agents, two turns, fair | one disconnect, not before the goodbye or its deadline, none for a goodbye called off, no self-cancelled disconnect; a triggered hangup ends or is called off, unless one of the next two happened |
| HangupCut | violated: TM 3390 "must not be cancelled mid-way" | a failed generation tears the call down in `llm_task`, which the next barge-in cancels (TM 4903) |
| HangupEndless | violated: tests/test_check_completion_stall_backstop.py 3 "cannot produce an endless call" | the watchdog leaves its loop after starting the goodbye; its lost mark is waited for for ever (TM 7968) |
| Transcribing | sixteen transcribers, two utterances, two runs, two messages in flight, fair | words a watchdog delivered are not repeated, one closed packet and nothing behind it, one watchdog, no interim and no loss leaves the call waiting |
| Speaking | eleven synthesizers, two turns, one loss, fair | whose audio is played as whose, which turns get their end, every sender task ends |
| Languages | two languages and a third without a voice, three flows, two turns, two segments, one dead connection; the detector with two providers, two drops; fair | both pools and the prompts agree where there is a voice, voices in order, the gate holds what it owes, no stale decision, every utterance of the detector once; held audio moves, foreign speech is judged, deafness ends, the detector revives or stops |

Pipeline bounds: `MaxSeq` utterances, `MaxFrames` non-final frames per response,
`MaxInterims` interim transcripts; `Handlers` with or without the DTMF collector. They
suffice because the properties relate one response or utterance to the next; a third
repeats the second, except that a final which finds nothing but the settle window
open needs two before it (`bound = "settle"`). One non-final frame separates "some
audio sent" from "all audio sent"; one interim is one barge-in, which may fall at
any point of either turn. `bound` takes the three combinations of features apart
that each property needs; within each the interleaving is complete. The final frame
is the `b"\x00"` byte, which a blocked response still forwards, in the bound `eager`,
in PipelineTurns and in the violated runs, and audio in the other two bounds
(`NullFinal`).

The five agents of HangupCall are those of `CallConfs` in `MCHangupLifecycle`: an
interruptible `end_call` goodbye under speech and digits, one that cannot be
interrupted, the hangup check with voicemail detection, and two on a silent line
(cap, inactivity, silence prompts). Two turns are enough for one to be rescued and
the next to hang up. `HangupEnds` excepts `Stranded`: a hangup cut part way, or a
goodbye lost after the watchdog left without enforcing the deadline. These are
exactly what HangupCut and HangupEndless exhibit. `GoodbyeAcked` happens at most
once per goodbye; the deadline of the watchdog stands in for a lost one.

Transcribing: two utterances let the late end of one meet the next, two runs let
what the first leaves behind meet the second, and the second message in flight is
the one that overtakes the watchdog.

Speaking: the first turn pushes a text and then its end, the second both at once;
one lost socket (or one failing response of Kalpa) falls anywhere between, and one failing dial is
the last (`MaxFails = 1`, 3 in the code).

Languages is cut by `focus` into parts that share no variable a property of the
other reads: the detector's connection, the decisions with the reply they hold, the
transcriber pool with the listener, the voices' queue. All but the first have the complete
switch in them, and the second lets the wanted transcriber die under a switch beside a
tool call, the case in which a failed switch matters to the reply. In the latter two the detector hears one segment, which is enough for
a decision to start. Three languages are heard and two spoken; the third is
switched to by the tool and in the legacy flow (`Voiced` keeps it from multiplying the
decisions, which never choose it).

Fairness is weak fairness of each coroutine: the event loop runs every
ready coroutine, sends, dials and generations have timeouts. Nothing is assumed of the
caller, of failing components, or of a service; the exception is PipelineTurns,
which assumes that a provider holding closed text eventually yields its frames and
uses one that drops interrupted work (`StaleFrames = FALSE`). Every wait of a hangup
but its poll for the goodbye is bounded by a timeout of the code. A lock is given to whoever
waits for it first; where the waiters are not a queue in the model
(`language_switch_lock`, the transcriber pool's lock) that is strong fairness of taking it.

## Proofs

`TurnPipeline_proofs` proves for every value of the constants:

* `TypeCorrect`: `TypeOK` is inductive. It is split into parts, the flags apart
  from the data; one lemma per coroutine, one step per action. The conjunct that
  makes it inductive is that a handler suspended at `check` holds a final turn.
* `ImplementsRecord`: `Spec => RecordSpec`. Every action but storing, SEND and
  BLOCK discards drafts at most (`DiscardsOnly`), and those three are `Draft`,
  `Speak` and `Suppress`. From it, because they are invariants of the abstract
  specification, `RecordedWasSpokenCorrect` and `SpokenTextIsRecordedCorrect`.
* `NoOrphanGenerationCorrect`: under `Eager = FALSE`, by the inductive invariant
  `HeldByTask`: the only running generation is the one `llmRef` names, and no
  speculation exists. PipelineOrphan shows that the assumption is needed.
* `BargeInSilencesCorrect`: as long as no handler but the transcriber's has a turn
  (`OthersIdle`), by the inductive invariant `NoneValid`: while the barge-in is being
  cleaned up no response is valid and no settle timer could make one valid. A second
  handler can: digits accepted during the cleanup register an id of their own.
* `AudioMovesOnCorrect`: under `OthersIdle` and `~Eager`, by `OrderInv`.
  That newer audio is not followed by older says nothing of audio still in generation,
  so the invariant speaks of every response that could yet be heard: at most one valid
  response has begun (`OneResponse`; the other valid ids are the handler's turn and the
  one in the settle window, of which nothing exists yet, `NotBegun`), it is newer than
  all that was heard (`Newest`), and the window holds no turn while a cleanup is under
  way nor the turn the handler works on (`HandledTurn`). Both assumptions are needed:
  with a second handler or an eager turn two responses can have begun.
* `NoOrphanWithoutEagerCorrect` and `NeverBackToOlderTurnCorrect`: the same two results
  as the run states them, of `SafetySpec`, whose `bound` chooses how the pipeline is
  bounded. A bound only takes steps away: every step of the settle bound, which is
  TurnPipeline with smaller constants, is one of TurnPipeline's (`SmallerBound`), and the
  barge bound leaves the DTMF collector idle, so it keeps `OthersIdle`. `SafetyInv` says
  what holds under which bound.

A part of its own proves `UtteranceOnceCorrect` for every value of the constants. The
invariant `UInv` says that an utterance is in one row of the history or carried by one
handler on its way there, never both: the retraction of a superseded turn takes the row
away in the step in which the handler takes the words up, and a final that is dropped
takes nothing. The lemmas on `Thins` say that trimming, cutting and popping rows
duplicates none.

`HangupLifecycle_proofs` proves, for any number of turns and any configuration:

* `RescuedStaysOnTheLineCorrect`, by the invariant `OwnTeardown`: a teardown is
  detached only by a turn that is over, and a turn that was called off is over with
  no teardown of its own. `Frame` covers every step that leaves turns and goodbyes
  alone; what is left is `TurnPlayed`, which detaches, and calling off.
* `WindowOnlyInGoodbyeCorrect`: `WindowOnlyInGoodbye` is inductive together with the
  type of `pc`. Every cancellation goes through `WindowAfter`, the `finally` of
  the `end_call` branch.

The second part of `HangupLifecycle_proofs` proves `StoppedOnceCorrect` by counting (`Counted`): calls of
stop_handler plus tasks past the guard of `__process_end_of_conversation` are at most
one if the guard is shut, plus one for each goodbye called off. Lifting the guard has
to call one off, which rests on `TurnHeld`: until the conversation is ended, the only
turn under way is the one `self.llm_task` holds, so calling off meets the goodbye the
window is open for.

Its third part proves, on top of these:

* `HangupTypeCorrect`: `TypeOK`, the flags apart from the references.
* `CommittedDisconnectFinishesCorrect`, by `StoppingFree`: a turn past stop_handler has
  left `self.llm_task`, so whoever cancels that task meets somebody else; and a goodbye
  is called off only while nobody is past stop_handler (`StoppingEnds`).
* `OnlyDeadlineCutsGoodbyeCorrect`, by `GoodbyeInv`: while no goodbye was called off,
  one task at most is inside `process_call_hangup`, with `hangup_processing` set and the
  message owed; the observer has its turn only after the mark of that message. A
  teardown that need not wait (`~GoodbyeOwed`) then finds no goodbye on its way.

`Languages_proofs` proves, for any languages, turns, segments, connections and
flows, from `SwitchAssumption` (the first language has both members; bounds are
naturals), with the one inductive invariant `IInv`:

* `Mutex`: the synthesizer pool's lock is held by exactly the task at `voiceRun`; the
  tasks at `voice` are exactly its waiters, each once.
* `OneGenerator` and `BehindSentinel`: while the lock is free the active voice has the
  only generator, else there is none, so nothing is queued behind a switch before its
  sentinel. `VoicesInOrderCorrect` follows.
* `EarLeads`: the transcriber's language is the target of the last waiter for the voice,
  else of the lock's holder, else the voice's or one that has no voice. This is what
  makes `OneLanguageCorrect` inductive although several tasks may stand between the two
  pools at once (in the legacy flow no lock spans them); it needs the waiters served in
  order. Nothing is assumed of the labels the pools share: the tool offers their union
  (`task_manager.py:1632`), and a label without a synthesizer leaves the ear alone in
  that language until the next switch, which the property says.
* `DecisionInv`: where decisions are made, whoever has begun one or a switch holds
  `language_switch_lock`, and was started for the present language unless the flip is
  behind it. `StaleDecisionDroppedCorrect` is the step from it: only a switch leads to
  the handoff (`BySwitchOnly`).
* `HoldStands`, on top of `IInv`: while a reply is owed its hold, the gate that stands is
  the one its own decision armed, although the gate is one field and every decision may
  arm, overwrite or open it. `OldLanguageHeldCorrect` follows. The property excepts a
  switch beside a tool call, which opens the gate whoever armed it ("this reply is meant
  to keep playing", `task_manager.py:6643`): the held reply may be another turn's, and
  if that switch then fails on a dead transcriber its decision finds part of it played.
  It also excepts the end of a switch's gap of silence (`Gap`): a later turn that began
  in the gap may have armed the gate for its own reply, and `task_manager.py:6678` opens
  it all the same ("nothing was pending, so opening is safe", 6677), so that reply may be
  played in the old language while its decision waits for `language_switch_lock`. In
  the model the hold is then no longer owed (`Unowed`); without that TLC finds the leak.

* `SwitchTypeCorrect`: `SwitchTypeOK`, by `BoundInv` beside `IInv`: a reconnect under way
  was within its cap, and a gate is a turn's. That no voice has two generators comes
  from `OneGenerator`.
* `LanguagesTypeCorrect`: `LanguagesTypeOK`, of a call in which switching and detector
  run beside each other. `LanguagesImplement` maps every step of that call to a step or a
  stutter of each module, so what either module proves of itself holds in the call.

Of the detector it proves `EveryUtteranceOnceCorrect` and `LidTypeCorrect` for
any number of utterances, drops and reconnects. `OncePlaced` strengthens the property
by the buffer's segments being distinct; `Cutoff` is the lemma on what the 30-second
cutoff does to them.

Assumed of constants are only the modules' named ASSUMEs, which the runs evaluate.

`Transcribers_proofs` proves the four safety properties of Transcribing for every
provider and any number of utterances, runs and messages in flight
(`SttTypeCorrect`, `ClosedOnceAndLastCorrect`, `OneWatchdogCorrect`,
`LateFinalNotRepeatedCorrect`). One lemma says of each provider's receiver that its
result is typed and that only the session's end is reported as closed
(`GoodResult`); one lemma per action that the providers share keeps the invariant
(`KeptBy`), and each provider's coroutines are instances of those. The invariant is

* `ClosingInv`: until a run's receiver stops it has reported no end (after it, only
  Sarvam and AssemblyAI may have), so the finally block's packet is the first.
* `WatchdogInv`: a watchdog lives as long as its run, so whatever it delivers comes
  before the closed packet, and the next run finds none.
* `PartingInv`: Smallest and Gladia close the socket themselves at the end of the
  stream, so the service's last message never finds their watchdog alive.
* `LateInv`, for Flux and ElevenLabs: the service goes through the utterances in order
  (`OrderInv`), and words a watchdog delivered have left the turn, which stays marked as
  sent until the service is past them (`ForcedInv`). The late end of the turn finds the
  mark; a later utterance, whose partial removes it, has other words.

The theorems of Speaking hold for every provider and any number of turns, sockets and
failures. `StreamSynthesizers_proofs` has what they rest on: the types, and for each
provider one lemma per action. `Speaking_proofs` adds Kalpa's and proves:

* `SpeakTypesHold`: `SpeakTypeOK`. `TypeInv` is inductive; each step is one of the
  call, a push (`Asks`), an interruption (`Barges`) or goes on with what was
  pushed (`Onward`), and everything below is proved of these four.
* `LabelsStayValid` and `NeverMuted`, by `LabelInv`: text is in flight only of turns
  there have been (`TurnsKnown`); a turn is barged in on after its last push (`CutQuiet`)
  and its barge-in closes it (`CutCloses`); so the queue, as long as a turn is open, and
  the next label, as long as something of a valid turn is in flight, are labels of valid
  turns (`LabelsHold`, `NextHolds`). `Contexts` says it of ElevenLabs, whose turns are
  closed by the context that ends and not by the interruption.

`KalpaSynthesizer_proofs` proves `NeverClipped` (`OwnEnd`), by `EndInv`: a barge-in
passes every sender there is by, gives the slot up and forgets the utterance
(`Epochs`); so a slot that is not given up is a valid turn's (`SlotValid`), and only
such a slot emits an end. Every other step keeps the epochs and the slot, or takes the
slot for a sender that is not retired (`HoldsOn`).

It also proves `OwnAudioOnly` (`OwnAudio`) and `NeverJoined` (`UtterancesApart`), by
`ApartInv`. Neither is inductive: what was rendered under the slot of one turn is read
under another's as soon as the slot, the utterance, the socket and the service's buffer
can disagree. `KeepInv` holds in every call:

* `SocketUp`: what is on the way is of the socket there is, and the utterance is of this
  socket or an older one. `Sound`: what the service sends is of a response.
* `LockHeld`: a sender that waits for the slot, or is past its text, holds the lock.
* `ChunksOwn`: the utterance's text is its turn's alone.

`CalmParts` holds as long as nothing was sent past an unread error:

* `SlotEmpty`: while the slot is free nothing is rendered or left to render; so the next
  turn finds the service empty. `SlotsOwn`: while it is taken, all of both is its turn's.
* `SettleLast`: what settles a slot is the last thing rendered, and nothing is left
  behind it. Without it a slot that was settled could leave audio for the next.
* `OpenUtterance` and `SlotUtterance`: an utterance has the slot it was opened with,
  nothing has answered it, and it is forgotten once flushed; so a sender that
  resumes it sends into its own turn's text, and a cancel is owed for what is left.
* `Serving`: the response that is read is the slot's, not one of a cancelled turn.

The error is what `Calm` is for: it settles the slot of whichever turn has it when it
is read, so what was sent behind the rejected text outlives that slot.

`NeverRepeated` (`SpokenOnce`: calls in which no redial overtook the receiver, `Met`) is on
top of these, by `OnceInv`. Text is sent in two
ways: as the new piece of a sender, and as the whole turn when its utterance is
resumed on a new socket; so there are two ways to repeat what was heard.

* `PiecesNew` and `PiecesOnce`: a push is of a piece that is nowhere yet, no two senders
  owe the same one, and what a sender owes is in no utterance, in no buffer, not
  rendered and not played. The holder of the lock owes its piece until it is past its
  text. So a new piece was never heard.
* `HeardServes`: an open utterance of which a piece was heard is served by a response on
  this socket. So it has the slot (`OpenUtterance`), the receiver that meets the end of
  the socket finds it heard in part and kills it, and an utterance that is resumed was not heard.
* `SlotAwaited`: who waits for the slot waits for another turn's, so it resumes no dead
  utterance when it is free. `SlottedText`: it has text to send, or is past it.

`TurnEnds_proofs` proves `TurnEndsCorrect` (`TurnEnds`), by `TurnsInv`. "The turn was not left
open" is a statement about what is no longer there, so the invariant says of each
moment before who still has the end. It is stated of calls without a lost socket and
without overlapping turns (`Steady`); there the turn that is spoken is the only valid
one, and the labels of an open turn are its own (`TurnAlone`, proved once for both).

* ElevenLabs v3 (`EndDue`): the end of a turn that was pushed whole is with a last sender
  or on the wire. Only an interruption gives its socket up (`V3Socket`), and that cuts the
  turn; the frame, when read, finds the labels the turn's.
* Kalpa (`Going`): once the turn was pushed whole its end is owed by a last sender, or by a
  slot that is not given up (`Owed`). The second needs `Answer`: the text was flushed and
  is with the service, its `done` is on the wire, or the socket is about to close.
  The sender that brings no text and only flushes must find an utterance to flush
  (`Textless`); a turn that ended has neither slot nor utterance nor sender left
  (`Ended`), so no audio comes behind its end.
* What keeps these: no epoch passed the turn's senders and the last one comes last
  (`SendersMine`); the open utterance is the spoken turn's (`UtteranceMine`); the
  receiver hears of a response before its `done` and has forgotten the one before, so
  `done` settles the slot it belongs to (`Responding`); a live slot's response is not
  cancelled (`LiveSlot`).

Model-checked only: of Speaking, `UndisturbedTurnEnds`, which holds in every state of the
runs' instances. It says the same of all providers but Rime, of calls in which nothing was
barged in on: eight further protocols, each of which needs its own account of
who still has the end, and Kalpa's and Sarvam's also across
lost sockets whose end the receiver met.

`AnsweredEventually`, `PipelineFlagClears`, `HangupEnds`, `TranscriberProgress`,
`SwitchProgress`, `DetectorProgress` and `SendersFinish` are liveness under fairness,
which is out of this prover's reach.

## Not modelled

Components with status `not_modelled` or `partly` say in `PROJECT.json` what is
left out. In short: speech-to-speech agents and text chats, tool calls other
than `end_call` and `switch_language`, routing in the graph agent, retrieval, LLM
response chains, sip-trunk flow control, the playout estimate and interruption
statistics, HTTP synthesizers. Configuration, prompts, audio conversion and
logging keep no state the properties depend on; the agents for extraction,
summarization and webhooks make one request each.
