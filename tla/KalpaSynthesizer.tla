-------------------------- MODULE KalpaSynthesizer --------------------------
(***************************************************************************)
(* Kalpa renders one utterance at a time from a text buffer it shares with *)
(* whoever writes next, so kalpa_synthesizer.py makes a turn own the       *)
(* connection: a lock orders the senders, a slot is taken by the first     *)
(* text of an utterance and freed by its responseDone, an epoch retires    *)
(* the senders an interruption passed by, and the text of a lost socket is *)
(* kept to be sent again.                                                  *)
(***************************************************************************)
EXTENDS Synthesizer

\* igen: _interrupt_gen; turn, chunks, dead, conn: the open utterance; dirty:
\* _dirty_conn_gen (0 for None); idle, slot, gone: _response_idle, _slot_seq,
\* _slot_abandoned; rid, serves: the response on the wire; at, slotted: the holder
\* of the lock is at its text or its end, and in _wait_for_idle_slot; crossed:
\* (history) text or a flush was sent past an error that was not yet read.
NoUtterance == [turn |-> 0, chunks |-> << >>, dead |-> FALSE, conn |-> 0]
FreeSlot == [idle |-> TRUE, slot |-> 0, gone |-> FALSE]
NoResponse == [rid |-> 0, serves |-> FALSE]
\* The service: the text it has not rendered, whether it was flushed, the response
\* it renders, and the responses so far.
NoService == [buf |-> << >>, flushed |-> FALSE, resp |-> 0]
KalpaOwn == [igen |-> 0, utt |-> NoUtterance, dirty |-> 0, slot |-> FreeSlot,
             resp |-> NoResponse, at |-> "text", slotted |-> FALSE,
             svc |-> NoService, made |-> 0, crossed |-> FALSE]

Created(r) == [turn |-> 0, part |-> 0, ctx |-> r, kind |-> "created"]
Done(r, ok) == [turn |-> 0, part |-> 0, ctx |-> r, kind |-> IF ok THEN "done" ELSE "cancelled"]
Failed(r) == [turn |-> 0, part |-> 0, ctx |-> r, kind |-> "error"]

---------------------------------------------------------------------------
\* The service (external).

OnKalpa == tts = "kalpa" /\ link.ws = "open" /\ ~pipe.over
Serves(svc, made, msgs) ==
    /\ own' = [own EXCEPT !.svc = svc, !.made = made]
    /\ wire' = wire \o msgs
    /\ UNCHANGED <<tts, pipe, base, senders, said>>

Render ==
    /\ OnKalpa /\ UNCHANGED link
    /\ LET v == own.svc
       IN \/ /\ v.resp = 0 /\ (v.buf # << >> \/ v.flushed)
             /\ Serves([v EXCEPT !.resp = own.made + 1], own.made + 1, <<Created(own.made + 1)>>)
          \/ /\ v.resp # 0 /\ v.buf # << >>
             /\ Serves([v EXCEPT !.buf = Tail(@)], own.made,
                       <<Audio(Head(v.buf)[1], Head(v.buf)[2], v.resp)>>)
          \/ /\ v.resp # 0 /\ v.buf = << >> /\ v.flushed
             /\ Serves(NoService, own.made, <<Done(v.resp, TRUE)>>)

\* It rejects the text, or a response breaks.
ServiceFails ==
    /\ OnKalpa /\ link.lost < MaxLost /\ (own.svc.buf # << >> \/ own.svc.resp # 0)
    /\ link' = [link EXCEPT !.lost = @ + 1]
    /\ Serves(NoService, own.made, <<Failed(own.svc.resp)>>)

\* What a frame does to the service v that has made `made` responses.
Crosses == \E k \in DOMAIN wire : wire[k].kind = "error"
WithText(v, ps) == [v EXCEPT !.buf = @ \o ps]
Flushed(v) == [v EXCEPT !.flushed = TRUE]
\* cancelResponse is answered if a response is on its way.
CancelMsgs(v, made) ==
    CASE v.resp # 0                 -> <<Done(v.resp, FALSE)>>
      [] v.resp = 0 /\ v.flushed    -> <<Created(made + 1), Done(made + 1, FALSE)>>
      [] OTHER                      -> << >>
Cancelling(o, flush) ==
    LET v == IF flush THEN Flushed(o.svc) ELSE o.svc
    IN [o EXCEPT !.svc = NoService, !.made = IF v.resp = 0 /\ v.flushed THEN @ + 1 ELSE @,
                      !.crossed = @ \/ (flush /\ Crosses)]
CancelOutput(o, flush) == CancelMsgs(IF flush THEN Flushed(o.svc) ELSE o.svc, o.made)

---------------------------------------------------------------------------
\* _on_push and handle_interruption.

KalpaPush(last) ==
    IF own.utt.turn \notin {0, pipe.turn} /\ ~own.utt.dead
    THEN [own EXCEPT !.utt.dead = TRUE,
                     !.dirty = IF own.utt.chunks # << >> /\ own.utt.conn = link.n
                               THEN link.n ELSE @]
    ELSE own

KalpaInterrupt ==
    /\ tts = "kalpa" /\ Cutting
    /\ LET open == own.utt.turn # 0 /\ ~own.utt.dead
           busy == ~own.slot.idle
           flush == busy /\ own.resp.rid = 0 /\ open
           o == [own EXCEPT !.igen = @ + 1, !.utt = NoUtterance, !.dirty = 0,
                            !.slot.gone = @ \/ busy]
       IN IF link.ws = "open"
          THEN own' = Cancelling(o, flush) /\ wire' = wire \o CancelOutput(o, flush)
          ELSE own' = o /\ UNCHANGED wire
    /\ pipe' = CutPipe
    /\ base' = [base EXCEPT !.open = FALSE]
    /\ UNCHANGED <<tts, link, senders, said>>

---------------------------------------------------------------------------
\* The senders.  The lock is taken in the order of the pushes.

Retired(s) == s.epoch # own.igen \/ s.turn \notin pipe.ids

KalpaStarts(i) ==
    /\ Runnable(i) /\ ~senders[i].waits
    /\ senders' = IF Retired(senders[i]) THEN Without(i) ELSE [senders EXCEPT ![i].waits = TRUE]
    /\ UNCHANGED <<tts, pipe, base, link, own, wire, said>>

Holding == senders # << >> /\ senders[1].waits /\ ~pipe.over
Me == senders[1]
\* The sender returns and lets go of the lock.
LetsGo(o) == senders' = Tail(senders) /\ own' = [o EXCEPT !.at = "text", !.slotted = FALSE]

\* The text of a sender was dealt with: its end is next.
TextDone(o) ==
    IF Me.last THEN UNCHANGED senders /\ own' = [o EXCEPT !.at = "end", !.slotted = FALSE]
    ELSE LetsGo(o)

\* What goes on the wire of an utterance that is open: the new piece, or after a
\* reconnect the whole turn; a send on a closing socket is lost and forgotten.
Writes(o, replay) ==
    LET new == IF own.at = "text" THEN <<<<Me.turn, Me.part>>>> ELSE << >>
        all == o.utt.chunks \o new
        ps == IF replay THEN all ELSE new
        v == IF own.at = "end" THEN Flushed(WithText(o.svc, ps)) ELSE WithText(o.svc, ps)
        p == [o EXCEPT !.utt.chunks = all, !.svc = IF link.ws = "open" THEN v ELSE @,
                        !.crossed = @ \/ (link.ws = "open" /\ Crosses)]
        spoken == {k \in DOMAIN ps : ps[k][2] \in said.parts[ps[k][1]]}
        others == {k \in DOMAIN o.svc.buf : o.svc.buf[k][1] # Me.turn}
    IN /\ IF own.at = "end" THEN LetsGo([p EXCEPT !.utt = NoUtterance]) ELSE TextDone(p)
       /\ base' = [base EXCEPT !.last = @ \/ own.at = "end"]
       /\ said' = [Given(said, 1) EXCEPT
                      !.again = said.again \/ spoken # {},
                      !.mixed = @ \/ (others # {} /\ link.ws = "open")]

Wipes(o) == o.dirty = link.n /\ o.dirty # 0

\* The slot is free: the turn takes it, wiping what an older one left in the buffer.
TakesSlot(o) ==
    LET u == IF o.utt.turn = Me.turn THEN o.utt ELSE [NoUtterance EXCEPT !.turn = Me.turn]
        wipes == Wipes(o)
        p == [o EXCEPT !.utt = u, !.dirty = IF wipes THEN 0 ELSE @]
        q == IF wipes THEN Cancelling(p, FALSE) ELSE p
    IN IF wipes /\ link.ws = "closing"
       THEN own' = [p EXCEPT !.slotted = FALSE] /\ UNCHANGED <<base, senders, said, wire>>
       ELSE /\ Writes([q EXCEPT !.utt.conn = link.n,
                                !.slot = [idle |-> FALSE, slot |-> Me.turn, gone |-> FALSE]],
                      u.chunks # << >>)
            /\ wire' = wire \o (IF wipes THEN CancelOutput(p, FALSE) ELSE << >>)

\* _open_utterance up to its waits: the slot is taken or awaited; that of a
\* superseded turn is cancelled first.
OpenNow == Connected /\ own.utt.turn = Me.turn /\ own.utt.conn = link.n
Cancels ==
    LET o == [own EXCEPT !.slot.gone = TRUE, !.dirty = 0]
        flush == own.resp.rid = 0
    IN IF link.ws = "open"
       THEN /\ own' = [Cancelling(o, flush) EXCEPT !.slotted = TRUE]
            /\ wire' = wire \o CancelOutput(o, flush)
       ELSE own' = o /\ UNCHANGED wire
\* (mutant) nobody waits for the slot
OpensAtOnce == TakesSlot(own)
Opens ==
    \/ own.slot.idle /\ TakesSlot(own)
    \/ /\ ~own.slot.idle
       /\ \/ own.utt.dead /\ Cancels
          \/ ~own.utt.dead /\ own' = [own EXCEPT !.slotted = TRUE] /\ UNCHANGED wire
       /\ UNCHANGED <<base, senders, said>>

\* A dead turn's stragglers are dropped; its end forgets it.
DeadOne == own.utt.dead /\ own.utt.turn = Me.turn
Skips ==
    IF own.at = "text" THEN TextDone(own)
    ELSE LetsGo(IF DeadOne THEN [own EXCEPT !.utt = NoUtterance] ELSE own)

KalpaSends ==
    /\ Holding /\ ~own.slotted
    /\ CASE Retired(Me) -> LetsGo(own) /\ UNCHANGED <<base, said, wire>>
         [] ~Retired(Me) /\ (\/ own.at = "text" /\ (~Me.text \/ DeadOne)
                             \/ own.at = "end" /\ (own.utt.turn # Me.turn \/ DeadOne)) ->
               Skips /\ UNCHANGED <<base, said, wire>>
         [] OTHER -> \/ OpenNow /\ Writes(own, FALSE) /\ UNCHANGED wire
                     \/ ~OpenNow /\ base.error /\ LetsGo(own) /\ UNCHANGED <<base, said, wire>>
                     \/ ~OpenNow /\ ~base.error /\ Connected /\ Opens
    /\ UNCHANGED <<tts, pipe, link>>

\* The wait for the slot ends: it is free, or ten seconds passed.
SlotFree ==
    /\ Holding /\ own.slotted /\ own.slot.idle
    /\ IF Retired(Me) THEN LetsGo(own) /\ UNCHANGED <<base, said, wire>>
       ELSE IF ~Connected
       THEN own' = [own EXCEPT !.slotted = FALSE] /\ UNCHANGED <<base, senders, said, wire>>
       ELSE TakesSlot(own)
    /\ UNCHANGED <<tts, pipe, link>>

SlotTimesOut ==
    /\ Holding /\ own.slotted /\ ~own.slot.idle
    /\ IF Retired(Me) THEN LetsGo(own) /\ UNCHANGED <<link, wire>>
       ELSE /\ own' = [own EXCEPT !.slotted = FALSE]
            /\ UNCHANGED senders
            /\ IF link.ws = "open"
               THEN link' = [link EXCEPT !.ws = "closing"] /\ wire' \in Prefixes(wire)
               ELSE UNCHANGED <<link, wire>>
    /\ UNCHANGED <<tts, pipe, base, said>>

---------------------------------------------------------------------------
\* The receiver.

\* (mutants) an abandoned turn ends as well; a turn whose label was read does not
SettlesAbandoned(o, emit) ==
    IF ~o.slot.idle /\ emit THEN <<End(o.slot.slot, 0)>> ELSE << >>
SettlesByLabel(o, emit) ==
    IF ~o.slot.idle /\ emit /\ ~o.slot.gone /\ base.q # << >> /\ Head(base.q) = o.slot.slot
    THEN <<End(o.slot.slot, 0)>> ELSE << >>

\* _settle_slot: frees the slot; the end is emitted unless the turn was abandoned
\* or the next label belongs to another one.
Settles(o, emit) ==
    IF o.slot.idle THEN << >>
    ELSE IF emit /\ ~o.slot.gone /\ (base.q = << >> \/ Head(base.q) = o.slot.slot)
         THEN <<End(o.slot.slot, 0)>> ELSE << >>
Settled(o) == IF o.slot.idle THEN o ELSE [o EXCEPT !.slot = FreeSlot]

\* (mutant) the audio of an abandoned slot is played
AudibleAbandoned(m) == m.ctx = own.resp.rid /\ own.resp.serves
Audible(m) == m.ctx = own.resp.rid /\ own.resp.serves /\ ~own.slot.gone

HearsResponse(m) ==
    CASE m.kind = "created" ->
            /\ own' = [own EXCEPT !.resp = [rid |-> m.ctx, serves |-> ~own.slot.idle]]
            /\ Yield(<< >>)
      [] m.kind = "audio" ->
            /\ UNCHANGED own
            /\ Yield(IF Audible(m) THEN <<m>> ELSE << >>)
      [] OTHER -> \* done or cancelled
            IF m.ctx # own.resp.rid THEN UNCHANGED own /\ Yield(<< >>)
            ELSE LET o == [own EXCEPT !.resp = NoResponse]
                 IN IF own.resp.serves
                    THEN own' = Settled(o) /\ Yield(Settles(o, m.kind = "done"))
                    ELSE own' = o /\ Yield(<< >>)

\* A non-fatal error: of the response on the wire, or of text that was rejected
\* before one.
HearsError(m) ==
    LET o == [own EXCEPT !.utt.dead = @ \/ own.utt.turn # 0, !.resp = NoResponse]
    IN IF m.ctx # 0
       THEN IF m.ctx # own.resp.rid THEN UNCHANGED own /\ Yield(<< >>)
            ELSE IF own.resp.serves THEN own' = Settled(o) /\ Yield(Settles(o, TRUE))
            ELSE own' = o /\ Yield(<< >>)
       ELSE IF ~own.slot.idle /\ own.resp.rid = 0
       THEN own' = Settled(o) /\ Yield(Settles(o, TRUE))
       ELSE UNCHANGED own /\ Yield(<< >>)

KalpaReceive(more) ==
    /\ tts = "kalpa" /\ Reading /\ Read(more)
    /\ IF Head(wire).kind = "error" THEN HearsError(Head(wire)) ELSE HearsResponse(Head(wire))
    /\ UNCHANGED <<tts, link, senders>>

\* (mutant) what was heard in part is kept like the rest
HeardNothing == FALSE
HeardInPart == own.utt.turn # 0 /\ ~own.utt.dead /\ own.resp.rid # 0 /\ own.resp.serves

\* _settle_lost_utterance: a flushed utterance ends, one that was heard in part dies,
\* one that was not heard is kept to be sent again.
KalpaMeetsEnd ==
    /\ tts = "kalpa" /\ MeetsEnd /\ ~pipe.over /\ NoMoreSocket
    /\ LET busy == ~own.slot.idle
           dies == busy /\ HeardInPart
           emit == busy /\ (own.utt.turn = 0 \/ dies)
       IN /\ own' = Settled([own EXCEPT !.utt.dead = @ \/ dies, !.resp = NoResponse,
                                        !.svc = NoService])
          /\ Yield(Settles(own, emit))
    /\ UNCHANGED <<tts, senders, wire>>

\* The new session starts with a free slot; the open utterance is kept.
KalpaDial ==
    tts = "kalpa" /\ Dial([own EXCEPT !.slot = FreeSlot, !.resp = NoResponse,
                                      !.svc = NoService], FALSE, TRUE)
=============================================================================
