---------------------------- MODULE Synthesizer ----------------------------
(***************************************************************************)
(* What the text-to-speech connections of src/bolna/synthesizer share: the *)
(* turns of the call that push text, the tasks that send it, the queue of  *)
(* meta_info that labels the audio by position, the websocket, and the     *)
(* listener, which plays a frame only under the label of a valid turn.     *)
(* The modules that EXTEND this one translate the providers; Speaking puts *)
(* them together.                                                          *)
(*                                                                         *)
(* A turn is its sequence_id.  It pushes one text that ends it, or a text  *)
(* and then an end with or without text: parts 1 and 2.                    *)
(***************************************************************************)
EXTENDS Integers, FiniteSets, Sequences

CONSTANTS
    Engines,    \* the providers of the instance
    MaxTurn,    \* turns of the call
    Pairs,      \* turns that push a text and then their end; the others push both at once
    EndTexts,   \* whether such an end brings text: a set of Booleans
    MaxLost,    \* sockets that get lost
    MaxFails    \* MAX_CONNECTION_FAILURES (3 in the code)

ASSUME SynthesizerAssumption ==
    /\ MaxTurn \in Nat \ {0} /\ EndTexts \subseteq BOOLEAN
    /\ MaxLost \in Nat /\ MaxFails \in Nat \ {0}

VARIABLES
    tts,     \* the provider
    pipe,    \* the call: its turns and what it still has to push
    base,    \* StreamSynthesizer: meta_info queue, flags of the open turn
    link,    \* the websocket and monitor_connection
    senders, \* sender() tasks, in the order of their pushes
    own,     \* what the provider's class adds
    wire,    \* what the service has rendered and the receiver has not read
    said     \* what the listener was given

synVars == <<tts, pipe, base, link, senders, own, wire, said>>

Turns == 1..MaxTurn
Parts == 1..2

\* ids: sequence_ids; left: pushes the current turn owes; cut: handle_interruption
\* ran and invalidate_pending_responses has not; silent: a turn was retired without
\* handle_interruption; overlap: a turn started while another was valid; over: a
\* connection_error ended the call.
NoCall == [turn |-> 0, ids |-> {}, left |-> 0, cut |-> FALSE,
           silent |-> FALSE, overlap |-> FALSE, over |-> FALSE]

\* q: the turns in text_queue; meta: the turn of meta_info; open:
\* current_turn_start_time is set; sock: current_turn_socket; last: last_text_sent;
\* error: connection_error.
NoPush == [q |-> << >>, meta |-> 0, open |-> FALSE, sock |-> 0, last |-> FALSE,
           error |-> FALSE]

\* ws: none, open, closing (recv reads what is left and then raises; a send
\* raises), closed (the loop finds out before it reads on) or dying (given up by
\* the synthesizer, which still reads it); n: the socket's number; tries:
\* failures in a row; lost: how often a socket was lost; forgot: (history) a dial
\* cleared a connection_error; unmet: (history, of the providers that settle the turn of
\* a lost socket) it overtook the receiver, which never met the end of that socket.
NoSocket == [ws |-> "none", n |-> 0, tries |-> 0, lost |-> 0, forgot |-> FALSE,
             unmet |-> FALSE]
LossSettlers == {"sarvam", "kalpa"}

Connected == link.ws \in {"open", "closing"}

\* parts: what of a turn was played under its own label; ended: the turns whose
\* end was reported; foreign: audio of a retired turn was played as a valid turn's;
\* clipped: a valid turn was completed by the end of a retired one; mute: audio of a
\* valid turn was dropped under the label of a retired one; late: audio of a turn
\* came behind its end; again: the service was given a part that had been played;
\* order: a part overtook another of its turn; mixed: text joined another turn's in
\* one utterance of the service.
\* Only the providers that keep their turns apart are watched for these.
Exact == {"kalpa"}
Unsilenced == Exact \cup {"elevenlabs", "elevenlabsV3"}
NothingSaid == [parts |-> [t \in Turns |-> {}], ended |-> {}, foreign |-> FALSE,
                mute |-> FALSE, clipped |-> FALSE, again |-> FALSE, order |-> FALSE,
                mixed |-> FALSE, late |-> FALSE]

SynInit(owns) ==
    /\ tts \in Engines
    /\ pipe = NoCall /\ base = NoPush /\ link = NoSocket /\ senders = << >>
    /\ own = owns /\ wire = << >> /\ said = NothingSaid

Audio(t, p, c) == [turn |-> t, part |-> p, ctx |-> c, kind |-> "audio"]
End(t, c) == [turn |-> t, part |-> 0, ctx |-> c, kind |-> "end"]

Prefixes(w) == {SubSeq(w, 1, k) : k \in 0..Len(w)}

---------------------------------------------------------------------------
\* The call.  It pushes for a turn that is valid at that moment; the generation
\* of a turn is over, or cancelled, before the next turn starts.

StartTurn ==
    /\ pipe.turn < MaxTurn /\ pipe.left = 0 /\ ~pipe.cut /\ ~pipe.over
    /\ LET t == pipe.turn + 1
       IN pipe' = [pipe EXCEPT !.turn = t, !.ids = @ \cup {t}, !.overlap = @ \/ pipe.ids # {},
                               !.left = IF t \in Pairs THEN 2 ELSE 1]
    /\ UNCHANGED <<tts, base, link, senders, own, wire, said>>

\* retire_sequence_id: the turn is dropped without handle_interruption.
Retire ==
    /\ pipe.turn \in pipe.ids /\ ~pipe.cut /\ ~pipe.over
    /\ pipe' = [pipe EXCEPT !.ids = @ \ {pipe.turn}, !.left = 0, !.silent = TRUE]
    /\ UNCHANGED <<tts, base, link, senders, own, wire, said>>

\* __cleanup_downstream_tasks goes on after handle_interruption.
Invalidate ==
    /\ pipe.cut
    /\ pipe' = [pipe EXCEPT !.ids = {}, !.cut = FALSE]
    /\ UNCHANGED <<tts, base, link, senders, own, wire, said>>

\* __cleanup_downstream_tasks: the generation is cancelled and the provider told.
Cutting == pipe.ids # {} /\ ~pipe.cut /\ ~pipe.over
CutPipe == [pipe EXCEPT !.left = 0, !.cut = TRUE]

\* (mutant) the labels of older turns stay queued
StampedKeepsQueue(b, t) ==
    IF b.open THEN b ELSE [b EXCEPT !.open = TRUE, !.sock = 0, !.last = FALSE]

\* _push_stream: the first push of a turn drops what older turns left queued.
Stamped(b, t) ==
    IF b.open THEN b
    ELSE [b EXCEPT !.q = [k \in 1..Cardinality({j \in DOMAIN @ : @[j] = t}) |-> t],
                   !.open = TRUE, !.sock = 0, !.last = FALSE]
\* (The copy push stores in meta_info is overwritten before it is read.)
Queued(b, t) == [b EXCEPT !.q = Append(@, t)]

Pushing == pipe.left > 0 /\ pipe.turn \in pipe.ids /\ ~pipe.over
Pushed(text, last, epoch) ==
    [turn |-> pipe.turn, part |-> IF pipe.turn \in Pairs /\ last THEN 2 ELSE 1, text |-> text,
     last |-> last, waits |-> FALSE, epoch |-> epoch]

\* push: onPush is the provider's part of it.
Push(stamps, owns(_), epoch) ==
    /\ Pushing
    /\ LET last == pipe.left = 1
       IN /\ \E text \in (IF pipe.turn \in Pairs /\ last THEN EndTexts ELSE {TRUE}) :
                senders' = Append(senders, Pushed(text, last, epoch))
          /\ own' = owns(last)
    /\ base' = Queued(IF stamps THEN Stamped(base, pipe.turn)
                      ELSE [base EXCEPT !.open = TRUE], pipe.turn)
    /\ pipe' = [pipe EXCEPT !.left = @ - 1]
    /\ UNCHANGED <<tts, link, wire, said>>

---------------------------------------------------------------------------
\* The sender tasks.  They start in the order of the pushes; those that wait for
\* the socket poll for it, each in its own rhythm, and resume in any order.

Stale(s) == s.turn \notin pipe.ids
Runnable(i) ==
    /\ i \in DOMAIN senders /\ ~pipe.over
    /\ ~senders[i].waits => \A j \in 1..(i - 1) : senders[j].waits
Without(i) == SubSeq(senders, 1, i - 1) \o SubSeq(senders, i + 1, Len(senders))

\* _wait_for_ws, its first look at the socket or a later one.
Waits(i, ready) ==
    /\ ~ready /\ ~base.error /\ ~senders[i].waits /\ ~Stale(senders[i])
    /\ senders' = [senders EXCEPT ![i].waits = TRUE]
    /\ UNCHANGED <<tts, pipe, base, link, own, wire, said>>

\* The sequence was retired before the task started, before the provider looks at
\* it again, or the wait ended with a connection_error.
Drops(i, again) ==
    /\ \/ ~senders[i].waits /\ Stale(senders[i])
       \/ again /\ Stale(senders[i]) /\ Connected
       \/ base.error /\ ~Connected
    /\ senders' = Without(i)
    /\ UNCHANGED <<tts, pipe, base, link, own, wire, said>>

\* What the service is given: a part that had been played, or one that overtook
\* another of its turn?
Given(s, i) ==
    LET t == senders[i]
    IN [s EXCEPT !.again = @ \/ (tts \in Exact /\ t.text /\ t.part \in s.parts[t.turn]),
                 !.order = @ \/ \E j \in DOMAIN senders :
                               /\ senders[j].turn = t.turn /\ senders[j].part < t.part
                               /\ ~Stale(senders[j])]

\* The task gets to its sends: again, the provider checks the sequence once more.
AtSend(i, again) ==
    /\ Connected /\ Runnable(i)
    /\ (~senders[i].waits \/ again) => ~Stale(senders[i])
    /\ senders' = Without(i)

\* On an open socket the service renders what it is sent; on a closing one the
\* send raises and connection_error is stored.
Sends(i, again, rendered, o) ==
    /\ AtSend(i, again)
    /\ LET s == senders[i]
       IN IF link.ws = "open"
          THEN /\ wire' = wire \o rendered /\ own' = o /\ said' = Given(said, i)
               /\ base' = [base EXCEPT !.last = @ \/ s.last]
          ELSE /\ base' = [base EXCEPT !.error = TRUE, !.last = @ \/ (s.last /\ ~s.text)]
               /\ UNCHANGED <<wire, own, said>>
    /\ UNCHANGED <<tts, pipe, link>>

---------------------------------------------------------------------------
\* The receiver and the generate() loop around it.

Label(b) == IF b.q = << >> THEN b.meta ELSE Head(b.q)

\* A frame takes the next label; an end closes the open turn.
Labelled(b, kind) ==
    [b EXCEPT !.q = IF @ = << >> THEN @ ELSE Tail(@), !.meta = Label(b),
              !.open = @ /\ kind # "end", !.sock = IF kind = "end" THEN 0 ELSE @]

\* __listen_synthesizer: what happens to a frame under a label.
Heard(s, l, m) ==
    IF m.kind = "audio"
    THEN CASE l = m.turn /\ l \in pipe.ids -> [s EXCEPT !.parts[l] = IF tts \in Exact THEN @ \cup {m.part} ELSE @,
                                                       !.late = @ \/ l \in s.ended]
           [] l \in pipe.ids /\ m.turn \notin pipe.ids -> [s EXCEPT !.foreign = tts \in Exact]
           [] l \notin pipe.ids /\ m.turn \in pipe.ids -> [s EXCEPT !.mute = tts \in Unsilenced]
           [] OTHER -> s
    ELSE CASE l = m.turn /\ l \in pipe.ids -> [s EXCEPT !.ended = @ \cup {l}]
           [] l \in pipe.ids /\ l # m.turn -> [s EXCEPT !.clipped = @ \/ (tts \in Exact /\ m.turn \notin pipe.ids),
                                                      !.ended = @ \cup {l}]
           [] OTHER -> s

\* The frames one message makes, in order; a connection_error is raised instead.
Yield(frames) ==
    IF frames # << >> /\ base.error
    THEN /\ pipe' = [pipe EXCEPT !.over = TRUE, !.left = 0]
         /\ UNCHANGED <<base, said>>
    ELSE /\ UNCHANGED pipe
         /\ CASE frames = << >> -> UNCHANGED <<base, said>>
              [] Len(frames) = 1 ->
                    /\ base' = Labelled(base, frames[1].kind)
                    /\ said' = Heard(said, Label(base), frames[1])
              [] OTHER ->
                    LET b == Labelled(base, frames[1].kind)
                    IN /\ base' = Labelled(b, frames[2].kind)
                       /\ said' = Heard(Heard(said, Label(base), frames[1]), Label(b),
                                        frames[2])

\* An audio message may be one of several of its part; the last one is removed.
Reading == link.ws \in {"open", "closing", "dying"} /\ wire # << >> /\ ~pipe.over
Read(more) ==
    /\ more => Head(wire).kind = "audio"
    /\ wire' = IF more THEN wire ELSE Tail(wire)

---------------------------------------------------------------------------
\* The websocket.

\* The service or the network drops it: of what was rendered a part is lost, and the
\* rest if the receiver does not read it before the socket is closed (a socket that the
\* provider closed itself is then lost as well).
Lose ==
    /\ ~pipe.over
    /\ \/ /\ link.ws = "open" /\ link.lost < MaxLost
          /\ link' = [link EXCEPT !.ws = "closing", !.lost = @ + 1]
          /\ wire' \in Prefixes(wire)
       \/ /\ link.ws = "closing"
          /\ link' = [link EXCEPT !.ws = "closed", !.lost = IF @ = 0 THEN 1 ELSE @]
          /\ wire' = << >>
    /\ UNCHANGED <<tts, pipe, base, senders, own, said>>

\* The receiver meets the end of the socket: ConnectionClosed in recv, or the
\* check at the top of its loop.
MeetsEnd == (link.ws \in {"closing", "dying"} /\ wire = << >>) \/ link.ws = "closed"
NoMoreSocket == link' = [link EXCEPT !.ws = "none"]

\* `break`: generate() ends, and raises when a connection_error is stored; the
\* listener enters it again.
GenerateEnds ==
    /\ MeetsEnd /\ ~pipe.over /\ NoMoreSocket
    /\ pipe' = [pipe EXCEPT !.over = base.error, !.left = IF base.error THEN 0 ELSE @]
    /\ UNCHANGED <<tts, base, senders, own, wire, said>>

\* Not connected and a connection_error: the receiver returns.
GivesUp ==
    /\ link.ws = "none" /\ base.error /\ ~pipe.over
    /\ pipe' = [pipe EXCEPT !.over = TRUE, !.left = 0]
    /\ UNCHANGED <<tts, base, link, senders, own, wire, said>>

\* monitor_connection polls on its own: a closed socket is replaced whether or not the
\* receiver, which may be suspended at a yield, has met its end.
Down == link.ws \in {"none", "closed"}

\* (mutants) one dial too many; the last failure is not stored
DialOnceMore(fresh, clears, rejects) ==
    /\ Down /\ link.tries <= MaxFails /\ ~pipe.over
    /\ \/ /\ link' = [link EXCEPT !.ws = "open", !.n = @ + 1, !.tries = 0]
          /\ own' = fresh
          /\ base' = [base EXCEPT !.error = @ /\ ~clears]
          /\ wire' = << >>
       \/ /\ link' = [link EXCEPT !.tries = @ + 1]
          /\ \E rejected \in {FALSE, rejects} :
                base' = [base EXCEPT !.error = @ \/ rejected \/ link.tries = MaxFails - 1]
          /\ UNCHANGED <<own, wire>>
    /\ UNCHANGED <<tts, pipe, senders, said>>

DialSilent(fresh, clears, rejects) ==
    /\ Down /\ link.tries < MaxFails /\ ~pipe.over
    /\ \/ /\ link' = [link EXCEPT !.ws = "open", !.n = @ + 1, !.tries = 0]
          /\ own' = fresh
          /\ base' = [base EXCEPT !.error = @ /\ ~clears]
          /\ wire' = << >>
       \/ /\ link' = [link EXCEPT !.tries = @ + 1]
          /\ \E rejected \in {FALSE, rejects} :
                base' = [base EXCEPT !.error = @ \/ rejected]
          /\ UNCHANGED <<own, wire>>
    /\ UNCHANGED <<tts, pipe, senders, said>>

\* monitor_connection: establish_connection returns a socket (fresh is what that
\* does to the provider's state; some clear connection_error), or None; rejects: the
\* provider stores a rejection as connection_error.
Dial(fresh, clears, rejects) ==
    /\ Down /\ link.tries < MaxFails /\ ~pipe.over
    /\ \/ /\ link' = [link EXCEPT !.ws = "open", !.n = @ + 1, !.tries = 0,
                                  !.forgot = @ \/ (clears /\ base.error),
                                  !.unmet = @ \/ (link.ws = "closed" /\ tts \in LossSettlers)]
          /\ own' = fresh
          /\ base' = [base EXCEPT !.error = @ /\ ~clears]
          /\ wire' = << >>
       \/ /\ link' = [link EXCEPT !.tries = @ + 1]
          /\ \E rejected \in {FALSE, rejects} :
                base' = [base EXCEPT !.error = @ \/ rejected \/ link.tries = MaxFails - 1]
          /\ UNCHANGED <<own, wire>>
    /\ UNCHANGED <<tts, pipe, senders, said>>
=============================================================================
