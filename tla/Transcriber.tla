---------------------------- MODULE Transcriber ----------------------------
(***************************************************************************)
(* What every speech-to-text connection of src/bolna/transcriber shares:   *)
(* one provider, its websocket task with the sender, heartbeat and         *)
(* utterance-timeout tasks it starts, the turn its receiver assembles, and *)
(* what reaches transcriber_output_queue.  The modules that EXTEND this    *)
(* one translate the providers; Transcribers puts them together.           *)
(*                                                                         *)
(* A receiver never suspends between two messages of the service (the      *)
(* output queue is unbounded), so a message is one step.  Words are the    *)
(* number of the utterance they were spoken in.                            *)
(***************************************************************************)
EXTENDS Integers, FiniteSets, Sequences

CONSTANTS
    Providers,   \* the providers of the instance
    MaxUtt,      \* utterances the caller speaks
    MaxRuns,     \* calls of run(): the start and the reconnects
    MaxWire      \* messages in flight from the service

ASSUME TranscriberAssumption ==
    /\ MaxUtt \in Nat \ {0} /\ MaxRuns \in Nat \ {0} /\ MaxWire \in Nat \ {0}

VARIABLES
    stt,    \* the provider
    link,   \* the connection: task, flags and the tasks beside it
    turn,   \* the turn state of the receiver
    wire,   \* messages the service has sent and the receiver has not read
    svc,    \* the service: utterance it is on, how far it is with it
    heard   \* what transcriber_output_queue has been given

sttVars == <<stt, link, turn, wire, svc, heard>>

Utt == 1..MaxUtt

\* sent: is_transcript_sent_for_processing; final: final_transcript; interim:
\* the last entry of current_turn_interim_details; clock: last_interim_time is
\* set; flag: the provider's own mark (Flux: an eager transcript is pending,
\* OpenAI: the turn is committed, Nova: _turn_pending).
NoTurn == [open |-> FALSE, sent |-> FALSE, final |-> {}, interim |-> {},
           clock |-> FALSE, flag |-> FALSE]

\* What one step gives the output queue.
Silent == [interim |-> FALSE, words |-> {}, ended |-> FALSE, closed |-> FALSE]
Interim == [Silent EXCEPT !.interim = TRUE]
Words(ws) == [Silent EXCEPT !.words = ws]
Ended == [Silent EXCEPT !.ended = TRUE]
Closed == [Silent EXCEPT !.closed = TRUE]

\* times[u]: transcripts that hold the words of u; hanging: an interim that no
\* transcript, speech_ended or closed packet has followed; closes: closed
\* packets of the current run; late: a transcript behind a closed packet;
\* forced: utterances the watchdog delivered that have had no interim since.
NothingHeard == [times |-> [u \in Utt |-> 0], hanging |-> FALSE, closes |-> 0,
                 late |-> FALSE, forced |-> {}]

AtMost(n, k) == IF k > n THEN n ELSE k

Hear(h, says) ==
    [h EXCEPT !.times = [u \in Utt |-> AtMost(2, @[u] + (IF u \in says.words THEN 1 ELSE 0))],
              !.hanging = /\ @ \/ says.interim
                          /\ says.words = {} /\ ~says.ended /\ ~says.closed,
              !.closes = AtMost(2, @ + (IF says.closed THEN 1 ELSE 0)),
              !.late = @ \/ (says.words # {} /\ h.closes > 0)]

\* What a receiver makes of a message: the turn, the packets, whether it stops
\* reading and whether it stored a connection_error.
Result(t, says) == [turn |-> t, says |-> says, stop |-> FALSE, error |-> FALSE]
Stop(t, says) == [Result(t, says) EXCEPT !.stop = TRUE]
Fail(t) == [Stop(t, Silent) EXCEPT !.error = TRUE]

\* task: transcription_task ("gone" once cleanup ran); on: connection_on; pump, beat: sender_task and
\* heartbeat_task; dogs: utterance watchdogs alive; tries: failed attempts of a
\* connect loop; eos: the end-of-stream packet was taken.
NoLink == [task |-> "idle", on |-> TRUE, ws |-> "none", error |-> FALSE, pump |-> FALSE,
           beat |-> FALSE, dogs |-> 0, tries |-> 0, runs |-> 0, eos |-> FALSE]

SttInit ==
    /\ stt \in Providers
    /\ link = NoLink
    /\ turn = NoTurn
    /\ wire = << >>
    /\ svc = [utt |-> 0, stage |-> "quiet", bye |-> FALSE]
    /\ heard = NothingHeard

---------------------------------------------------------------------------
\* The service, which is not in the repository.  It works through the
\* utterances in order and may fall silent about any of them; it never takes
\* back words it has sent.

Says(p) ==
    CASE p = "nova"       -> {"started", "partial", "final", "endpoint", "ended"}
      [] p = "flux"       -> {"started", "partial", "eager", "resumed", "endpoint", "blank"}
      [] p = "soniox"     -> {"partial", "final", "endpoint", "ended", "error", "last"}
      [] p = "gemini"     -> {"partial", "endpoint", "ended", "error"}
      [] p = "elevenlabs" -> {"partial", "endpoint", "error"}
      [] p = "pixa"       -> {"partial", "endpoint"}
      [] p = "sarvam"     -> {"started", "endpoint", "ended", "error", "last"}
      [] p = "assemblyai" -> {"partial", "endpoint", "error", "last"}
      [] p = "smallest"   -> {"partial", "endpoint", "last"}
      [] p = "gladia"     -> {"started", "partial", "endpoint", "ended", "error", "last"}
      [] p = "openai"     -> {"started", "ended", "partial", "endpoint", "blank", "error"}
      [] p = "azure"      -> {"partial", "endpoint"}
      [] p = "google"     -> {"partial", "endpoint"}
      [] OTHER            -> {}

Send(kind, stage) ==
    /\ kind \in Says(stt)
    /\ wire' = Append(wire, [kind |-> kind, utt |-> svc.utt])
    /\ svc' = [svc EXCEPT !.stage = stage]

Begin ==
    /\ svc.stage = "quiet" /\ svc.utt < MaxUtt /\ ~svc.bye
    /\ svc' = [svc EXCEPT !.utt = @ + 1, !.stage = "begun"]
    /\ wire' = IF "started" \in Says(stt)
               THEN Append(wire, [kind |-> "started", utt |-> svc.utt + 1]) ELSE wire

ServiceSpeaks ==
    /\ link.ws = "open" /\ Len(wire) < MaxWire
    /\ \/ Begin
       \/ svc.stage \in {"begun", "resumed"} /\ Send("partial", "partial")
       \/ svc.stage \in {"begun", "partial"} /\ Send("final", "final")
       \/ svc.stage = "partial" /\ Send("eager", "eager")
       \/ svc.stage = "eager" /\ Send("resumed", "resumed")
       \/ /\ svc.stage \in {"begun", "partial", "final", "eager", "stopped"}
          /\ Send("endpoint", IF "ended" \in Says(stt) /\ stt # "openai" THEN "over" ELSE "quiet")
       \/ svc.stage = "begun" /\ Send("blank", "quiet")
       \/ svc.stage \in {"begun", "partial", "final", "over"} /\ stt # "openai"
          /\ Send("ended", "quiet")
       \/ svc.stage \in {"begun", "partial"} /\ stt = "openai" /\ Send("ended", "stopped")
       \/ Send("error", svc.stage)
       \/ Send("last", svc.stage) /\ svc.bye
    /\ UNCHANGED <<stt, link, turn, heard>>

\* The service never says any more about the utterance, or is done with it.
ServiceForgets ==
    /\ svc.stage # "quiet"
    /\ svc' = [svc EXCEPT !.stage = "quiet"]
    /\ UNCHANGED <<stt, link, turn, wire, heard>>

\* The socket goes away, from the service's side or the network's.
ServiceDrops ==
    /\ link.ws = "open"
    /\ link' = [link EXCEPT !.ws = "lost"]
    /\ UNCHANGED <<stt, turn, wire, svc, heard>>

---------------------------------------------------------------------------
\* What the transcribe() coroutines have in common.

\* run() creates the task: the call's start, or a reconnect of the pool, which
\* clears connection_error first and only follows a closed packet.
Run ==
    /\ link.task \in {"idle", "done"} /\ link.runs < MaxRuns /\ ~link.eos
    /\ link.runs > 0 => heard.closes > 0
    /\ link' = [link EXCEPT !.task = "dialing", !.ws = "none", !.error = FALSE,
                            !.tries = 0, !.runs = @ + 1]
    /\ wire' = << >>
    /\ svc' = [svc EXCEPT !.stage = "quiet", !.bye = FALSE]
    /\ heard' = [heard EXCEPT !.closes = 0]
    /\ UNCHANGED <<stt, turn>>

\* The connect coroutine returned a socket: the tasks beside the receiver start.
Opened(beat, dog) ==
    /\ link' = [link EXCEPT !.task = "streaming", !.ws = "open", !.pump = TRUE,
                            !.beat = beat, !.dogs = AtMost(2, @ + (IF dog THEN 1 ELSE 0))]
    /\ UNCHANGED <<turn, heard>>

\* An attempt failed and the connect loop sleeps before the next.
DialsAgain ==
    /\ link' = [link EXCEPT !.tries = @ + 1]
    /\ UNCHANGED <<turn, heard>>

\* connect raised: toggle_connection, and the closed packets of the way out.
Refused(error, packets) ==
    /\ link' = [link EXCEPT !.task = "done", !.on = FALSE, !.error = error, !.pump = FALSE,
                            !.beat = FALSE, !.dogs = 0]
    /\ heard' = [heard EXCEPT !.closes = packets, !.hanging = FALSE]
    /\ UNCHANGED turn

Dial(outcomes, beat, dog, error, packets) ==
    /\ link.task = "dialing"
    /\ \E o \in outcomes :
          \/ o = "open" /\ Opened(beat, dog)
          \/ o = "again" /\ DialsAgain
          \/ o = "refused" /\ Refused(error, packets)
    /\ UNCHANGED <<wire, svc>>

\* One message: the packets are queued; the first one behind a toggle closes the
\* stream instead, where the provider heeds connection_on.
Take(receiver(_), heeds) ==
    /\ link.task = "streaming" /\ wire # << >>
    /\ LET m == Head(wire)
           r == receiver(m)
           off == heeds /\ ~link.on /\ r.says # Silent
           h == IF off THEN heard ELSE Hear(heard, r.says)
       IN /\ turn' = r.turn
          /\ heard' = IF r.says.interim THEN [h EXCEPT !.forced = @ \ {m.utt}] ELSE h
          /\ link' = [link EXCEPT !.task = IF r.stop \/ off THEN "drained" ELSE @,
                                  !.error = @ \/ r.error]
    /\ wire' = Tail(wire)
    /\ UNCHANGED svc

Receive(receiver(_)) == Take(receiver, TRUE)

\* The socket is gone and the receiver has read what was left on it.  Whether
\* the close was clean decides if connection_error is set.
RunsDry ==
    /\ link.task = "streaming" /\ link.ws = "lost" /\ wire = << >>
    /\ \E e \in BOOLEAN : link' = [link EXCEPT !.task = "drained", !.error = @ \/ e]
    /\ UNCHANGED <<turn, wire, svc, heard>>

\* The finally block: the socket is closed, the tasks are cancelled (all but the
\* watchdog where the provider forgets it) and the closed packet goes out.
Finally(dogsLeft) ==
    /\ link.task = "drained"
    /\ link' = [link EXCEPT !.task = "done", !.ws = "none", !.pump = FALSE, !.beat = FALSE,
                            !.dogs = dogsLeft]
    /\ heard' = Hear(heard, Closed)
    /\ wire' = << >>
    /\ UNCHANGED <<turn, svc>>

Stream(receiver(_), dogsLeft) == Receive(receiver) \/ RunsDry \/ Finally(dogsLeft)

\* The watchdog's coroutine woke up and found a stuck turn.
Release(stuck, ws, says, t) ==
    /\ link.dogs > 0 /\ stuck
    /\ turn' = t
    /\ heard' = [Hear(heard, says) EXCEPT !.forced = @ \cup ws]
    /\ UNCHANGED <<link, wire, svc>>

\* The sender meets the end of the stream.  It closes the socket itself or tells
\* the service to finish and leaves the closing to it.
LastPacket(closes) ==
    /\ link.pump /\ ~link.eos
    /\ link' = [link EXCEPT !.pump = FALSE, !.eos = TRUE,
                            !.ws = IF closes /\ @ = "open" THEN "lost" ELSE @]
    /\ svc' = [svc EXCEPT !.bye = TRUE]
    /\ UNCHANGED <<turn, wire, heard>>

\* A send failed: the sender's loop ends, the receiver finds out for itself.
SendFails ==
    /\ link.pump /\ link.ws = "lost"
    /\ link' = [link EXCEPT !.pump = FALSE]
    /\ UNCHANGED <<turn, wire, svc, heard>>

BeatFails ==
    /\ link.beat /\ link.ws = "lost"
    /\ link' = [link EXCEPT !.beat = FALSE]
    /\ UNCHANGED <<turn, wire, svc, heard>>

\* toggle_connection: the call stops listening.
Toggled(dogsLeft) ==
    [link EXCEPT !.on = FALSE, !.pump = FALSE, !.beat = FALSE, !.dogs = dogsLeft,
                 !.ws = IF @ = "open" THEN "lost" ELSE @]
Toggle(dogsLeft) ==
    /\ link.task \notin {"idle", "gone"} /\ link.on
    /\ link' = Toggled(dogsLeft)
    /\ UNCHANGED <<turn, wire, svc, heard>>

\* cleanup: every task is cancelled, the transcription task with its finally
\* block, which queues the closed packet where the provider has it there.
CleanUp(on, packet) ==
    /\ link.task \notin {"idle", "gone"}
    /\ link' = [link EXCEPT !.task = "gone", !.on = on, !.ws = "none", !.pump = FALSE,
                            !.beat = FALSE, !.dogs = 0]
    /\ heard' = IF packet /\ link.task # "done" THEN Hear(heard, Closed)
                ELSE [heard EXCEPT !.hanging = FALSE]
    /\ wire' = << >>
    /\ UNCHANGED <<turn, svc>>
=============================================================================
