------------------------ MODULE StreamSynthesizers -------------------------
(***************************************************************************)
(* The websocket providers other than Kalpa.  Each has its own idea of     *)
(* which audio belongs to a turn: a context per turn (ElevenLabs,          *)
(* Cartesia, Rime, Pixa), a stream per turn (Soniox), a flag (Maya), the   *)
(* socket (ElevenLabs v3) or nothing (Deepgram, Sarvam, Smallest).         *)
(***************************************************************************)
EXTENDS Synthesizer

\* ctx: context_id or stream_id; minted: contexts made; mine:
\* current_turn_context_id; eos: _eos_context_id; ignore: context_ids_to_ignore or
\* _cancelled_streams; seq: the turn ctx was made for; flag: context_finalized,
\* _stream_open, ws_send_time is set (v3); drop: _discard_audio, _interrupted (v3);
\* fed: _turn_eos_emitted (v3); pend: _pending_cancels; kept: (history) an
\* interruption of ElevenLabs ignored a context it could not close.
StreamOwn == [ctx |-> 0, minted |-> 0, mine |-> 0, eos |-> 0, ignore |-> {}, seq |-> 0,
              flag |-> FALSE, drop |-> FALSE, fed |-> TRUE, pend |-> {}, kept |-> FALSE]

Minted(o) == [o EXCEPT !.ctx = o.minted + 1, !.minted = @ + 1]
Named(cs) == cs \ {0}

\* A cancel stops the rendering of context c, the newest one, somewhere in what is not
\* yet read.
Stopped(c) ==
    {SubSeq(wire, 1, k) : k \in {j \in 0..Len(wire) : \A i \in (j + 1)..Len(wire) : wire[i].ctx = c}}

Texts(i, c) ==
    IF senders[i].text THEN <<Audio(senders[i].turn, senders[i].part, c)>> ELSE << >>
Ends(i, c) == IF senders[i].last THEN <<End(senders[i].turn, c)>> ELSE << >>
\* A message that only moves the provider's state: cancelled, terminated.
Note(c) == [turn |-> 0, part |-> 0, ctx |-> c, kind |-> "note"]

IsAudio == Head(wire).kind = "audio"
IsEnd == Head(wire).kind = "end"
Hd == Head(wire)

\* handle_interruption of provider p: what it makes of own, base and wire.
Interrupted(p) ==
    /\ tts = p /\ Cutting
    /\ pipe' = CutPipe
    /\ UNCHANGED <<tts, senders, said>>
Reads(p, more) ==
    /\ tts = p /\ Reading /\ Read(more)
    /\ UNCHANGED <<tts, link, senders>>

---------------------------------------------------------------------------
\* ElevenLabs v1/v2: one context per turn, made by the first push that finds none.

ElevenPush(last) == IF own.ctx = 0 THEN [Minted(own) EXCEPT !.mine = own.minted + 1] ELSE own

\* Both contexts are ignored; the open one is given up only if the service hears.
ElevenInterrupt ==
    /\ Interrupted("elevenlabs")
    /\ own' = [own EXCEPT !.ignore = @ \cup Named({own.mine, own.ctx}), !.mine = 0,
                          !.ctx = IF link.ws = "open" THEN 0 ELSE @,
                          !.kept = @ \/ (own.ctx # 0 /\ link.ws # "open")]
    /\ base' = [base EXCEPT !.open = @ /\ own.mine = 0]
    /\ wire' \in IF own.ctx # 0 /\ link.ws = "open" THEN Stopped(own.ctx) ELSE {wire}
    /\ UNCHANGED link

ElevenSend(i) ==
    Sends(i, senders[i].text,
          Texts(i, own.ctx) \o (IF own.ctx # 0 THEN Ends(i, own.ctx) ELSE << >>),
          [own EXCEPT !.ctx = IF senders[i].last THEN 0 ELSE @])

\* isFinal, or all of the turn's text was spoken, ends the turn: once per context
\* and never for a context other than the current turn's.
ElevenEnds == ~(own.mine # 0 /\ Hd.ctx # 0 /\ Hd.ctx # own.mine) /\ (Hd.ctx = 0 \/ Hd.ctx # own.eos)
ElevenReceive(more) ==
    /\ Reads("elevenlabs", more)
    /\ LET whole == IsAudio /\ ~more /\ base.last
                    /\ \A k \in 2..Len(wire) : wire[k].ctx = Hd.ctx => wire[k].kind # "audio"
           final == IF IsEnd THEN {TRUE} ELSE IF whole THEN BOOLEAN ELSE {FALSE}
       IN \E done \in final :
             LET ends == done /\ ElevenEnds
             IN IF Hd.ctx \in own.ignore THEN Yield(<< >>) /\ UNCHANGED own
                ELSE /\ Yield((IF IsAudio THEN <<Hd>> ELSE << >>)
                              \o (IF ends THEN <<End(Hd.turn, Hd.ctx)>> ELSE << >>))
                     /\ own' = [own EXCEPT !.eos = IF ends THEN Hd.ctx ELSE @]

ElevenDial == tts = "elevenlabs" /\ Dial(own, FALSE, TRUE)

---------------------------------------------------------------------------
\* Cartesia: a context per sequence, renewed behind a finished one.

CartesiaPush(last) ==
    LET o == IF own.ctx = 0 \/ own.flag \/ own.seq # pipe.turn
             THEN [Minted(own) EXCEPT !.seq = pipe.turn] ELSE own
    IN [o EXCEPT !.flag = last]

CartesiaInterrupt ==
    /\ Interrupted("cartesia")
    /\ LET hears == own.ctx # 0 /\ link.ws = "open"
       IN /\ own' = [own EXCEPT !.ignore = @ \cup Named({own.ctx}),
                                !.ctx = IF hears THEN 0 ELSE @]
          /\ base' = [base EXCEPT !.open = @ /\ ~hears]
          /\ wire' \in IF hears THEN Stopped(own.ctx) ELSE {wire}
    /\ UNCHANGED link

CartesiaSend(i) == Sends(i, FALSE, Texts(i, own.ctx) \o Ends(i, own.ctx), own)

CartesiaReceive(more) ==
    /\ Reads("cartesia", more)
    /\ Yield(IF Hd.ctx \in own.ignore THEN << >> ELSE <<Hd>>)
    /\ UNCHANGED own

CartesiaDial == tts = "cartesia" /\ Dial(own, FALSE, TRUE)

---------------------------------------------------------------------------
\* Deepgram: the whole socket is one buffer; Clear empties it.

DeepgramInterrupt ==
    /\ Interrupted("deepgram")
    /\ wire' \in IF link.ws = "open" THEN Prefixes(wire) ELSE {wire}
    /\ UNCHANGED <<base, own, link>>

DeepgramSend(i) == Sends(i, senders[i].text, Texts(i, 0) \o Ends(i, 0), own)

\* Sarvam: `final` behind a flush; it does nothing at an interruption.
SarvamSend(i) ==
    /\ AtSend(i, FALSE)
    /\ LET s == senders[i]
           b == [base EXCEPT !.sock = IF s.text THEN link.n ELSE @]
       IN IF link.ws = "open"
          THEN /\ wire' = wire \o Texts(i, 0) \o Ends(i, 0) /\ said' = Given(said, i)
               /\ base' = [b EXCEPT !.last = @ \/ s.last]
          ELSE /\ base' = [b EXCEPT !.error = TRUE, !.last = @ \/ (s.last /\ ~s.text)]
               /\ UNCHANGED <<wire, said>>
    /\ UNCHANGED <<tts, pipe, link, own>>

\* Smallest: each text is a request of its own, with its own `complete`.
SmallestSend(i) ==
    Sends(i, FALSE,
          IF senders[i].text THEN Texts(i, 0) \o <<End(senders[i].turn, 0)>> ELSE << >>, own)

PlainInterrupt(p) ==
    Interrupted(p) /\ UNCHANGED <<base, own, wire, link>>
PlainReceive(p, more) ==
    Reads(p, more) /\ Yield(<<Hd>>) /\ UNCHANGED own

\* (mutant) the turn is looked for on the socket before the one that was lost
UnsettledBefore == base.sock = link.n - 1 /\ base.open
Unsettled == base.sock = link.n /\ base.open

\* has_unsettled_turn_on: Sarvam ends the turn whose text a lost socket took.
SarvamMeetsEnd ==
    /\ tts = "sarvam" /\ MeetsEnd /\ ~pipe.over /\ NoMoreSocket
    /\ IF link.ws = "closing" /\ base.error
       THEN pipe' = [pipe EXCEPT !.over = TRUE, !.left = 0] /\ UNCHANGED <<base, said>>
       ELSE Yield(IF Unsettled
                  THEN <<End(Label(base), 0)>> ELSE << >>)
    /\ UNCHANGED <<tts, senders, own, wire>>

DeepgramDial == tts = "deepgram" /\ Dial(own, FALSE, TRUE)
SarvamDial == tts = "sarvam" /\ Dial(own, FALSE, TRUE)
\* Smallest and Rime tell a rejection from no other failure.
SmallestDial == tts = "smallest" /\ Dial(own, FALSE, FALSE)

---------------------------------------------------------------------------
\* Rime: the context changes when the turn's end is sent, and every message that
\* then comes under an older one is followed by an end.

RimePush(last) == IF own.ctx = 0 THEN Minted(own) ELSE own

RimeInterrupt ==
    /\ Interrupted("rime")
    /\ own' = IF own.ctx # 0 THEN Minted(own) ELSE own
    /\ wire' \in IF own.ctx # 0 /\ link.ws = "open" THEN Prefixes(wire) ELSE {wire}
    /\ UNCHANGED <<base, link>>

RimeSend(i) ==
    Sends(i, senders[i].text, Texts(i, own.ctx), IF senders[i].last THEN Minted(own) ELSE own)

RimeReceive(more) ==
    /\ Reads("rime", more)
    /\ Yield(IF Hd.ctx # own.ctx THEN <<Hd, End(Hd.turn, Hd.ctx)>> ELSE <<Hd>>)
    /\ UNCHANGED own

RimeDial == tts = "rime" /\ Dial(own, FALSE, FALSE)

---------------------------------------------------------------------------
\* Maya: audio is discarded from a clear until the service confirms it or the
\* next text is sent.

MayaInterrupt ==
    /\ Interrupted("maya")
    /\ own' = [own EXCEPT !.drop = @ \/ Connected]
    /\ base' = [base EXCEPT !.open = @ /\ link.ws # "open", !.error = @ \/ link.ws = "closing"]
    /\ \/ link.ws = "open" /\ \E w \in Prefixes(wire) : wire' = Append(w, Note(0))
       \/ link.ws # "open" /\ UNCHANGED wire
    /\ UNCHANGED link

MayaSend(i) ==
    Sends(i, TRUE, Texts(i, 0) \o Ends(i, 0),
          [own EXCEPT !.drop = @ /\ ~senders[i].text])

MayaReceive(more) ==
    /\ Reads("maya", more)
    /\ Yield(IF IsEnd \/ (IsAudio /\ ~own.drop) THEN <<Hd>> ELSE << >>)
    /\ own' = [own EXCEPT !.drop = @ /\ IsAudio]

MayaDial == tts = "maya" /\ Dial([own EXCEPT !.drop = FALSE], FALSE, TRUE)

---------------------------------------------------------------------------
\* Pixa: the context filters the ends, the audio frames carry none.

PixaPush(last) == IF own.ctx = 0 THEN Minted(own) ELSE own

PixaInterrupt ==
    /\ Interrupted("pixa")
    /\ own' = [own EXCEPT !.ignore = @ \cup Named({own.ctx}), !.ctx = 0]
    /\ wire' \in IF own.ctx # 0 /\ link.ws = "open" THEN Stopped(own.ctx) ELSE {wire}
    /\ UNCHANGED <<base, link>>

PixaSend(i) ==
    link.ws = "open" /\ Sends(i, FALSE, Texts(i, own.ctx) \o Ends(i, own.ctx), own)

PixaReceive(more) ==
    /\ Reads("pixa", more)
    /\ Yield(IF IsAudio \/ Hd.ctx \notin own.ignore THEN <<Hd>> ELSE << >>)
    /\ UNCHANGED own

PixaDial == tts = "pixa" /\ Dial(own, FALSE, TRUE)

---------------------------------------------------------------------------
\* Soniox: a stream per turn.  A push of another turn abandons the open one.

SonioxPush(last) ==
    IF own.flag /\ own.seq # 0 /\ own.seq # pipe.turn
    THEN [own EXCEPT !.ignore = @ \cup Named({own.ctx}), !.pend = @ \cup Named({own.ctx}),
                     !.flag = FALSE, !.ctx = 0]
    ELSE own

SonioxInterrupt ==
    /\ Interrupted("soniox")
    /\ IF ~own.flag \/ own.ctx = 0 THEN UNCHANGED <<base, own, wire>>
       ELSE /\ own' = [own EXCEPT !.ignore = @ \cup {own.ctx}, !.flag = FALSE, !.ctx = 0,
                                  !.seq = 0]
            /\ base' = [base EXCEPT !.open = FALSE]
            /\ IF link.ws = "open"
               THEN \E w \in Stopped(own.ctx) : wire' = Append(w, Note(own.ctx))
               ELSE UNCHANGED wire
    /\ UNCHANGED link

\* What the cancelled stream, the newest one, rendered is dropped.
Unabandoned == SubSeq(wire, 1, Cardinality({k \in DOMAIN wire : wire[k].ctx \notin own.pend}))

\* The pending cancels, the configuration of a new stream and the text.  A send
\* that fails ends the task: no connection_error is stored and no turn settled.
SonioxSend(i) ==
    /\ AtSend(i, FALSE)
    /\ LET s == senders[i]
           o == IF own.flag THEN [own EXCEPT !.pend = {}]
                ELSE [Minted(own) EXCEPT !.seq = s.turn, !.pend = {}]
       IN IF link.ws = "open"
          THEN /\ own' = [o EXCEPT !.flag = TRUE]
               /\ wire' = Unabandoned \o Texts(i, o.ctx) \o Ends(i, o.ctx)
                             \o (IF s.last THEN <<Note(o.ctx)>> ELSE << >>)
               /\ said' = Given(said, i)
               /\ base' = [base EXCEPT !.last = @ \/ s.last]
          ELSE own' = o /\ UNCHANGED <<base, wire, said>>
    /\ UNCHANGED <<tts, pipe, link>>

\* terminated closes the stream it names.
SonioxReceive(more) ==
    /\ Reads("soniox", more)
    /\ LET stale == Hd.ctx \in own.ignore
           closes == Hd.kind = "note"
       IN /\ Yield(IF stale \/ closes THEN << >> ELSE <<Hd>>)
          /\ own' = IF ~closes THEN own
                    ELSE [own EXCEPT !.ignore = @ \ {Hd.ctx},
                                     !.flag = @ /\ Hd.ctx # own.ctx,
                                     !.ctx = IF Hd.ctx = @ THEN 0 ELSE @]

\* recv raised: the stream is closed; at the top of the loop nothing happens.
SonioxMeetsEnd ==
    /\ tts = "soniox" /\ MeetsEnd /\ NoMoreSocket
    /\ own' = [own EXCEPT !.flag = @ /\ link.ws # "closing"]
    /\ UNCHANGED <<tts, pipe, base, senders, wire, said>>

\* A dial forgets every stream and the error.
SonioxDial == tts = "soniox" /\ Dial([StreamOwn EXCEPT !.minted = own.minted], TRUE, TRUE)

---------------------------------------------------------------------------
\* ElevenLabs v3: no contexts; an interruption gives the socket up.

\* A push that opens a turn forgets ws_send_time.
V3Push(last) == [own EXCEPT !.flag = @ /\ base.open]

\* (mutant) the turn stays open
V3InterruptKeepsTurn ==
    /\ Interrupted("elevenlabsV3")
    /\ own' = [own EXCEPT !.drop = TRUE]
    /\ UNCHANGED base
    /\ \/ Connected /\ link' = [link EXCEPT !.ws = "dying"] /\ wire' \in Prefixes(wire)
       \/ link' = [link EXCEPT !.ws = "none"] /\ wire' = << >>

V3Interrupt ==
    /\ Interrupted("elevenlabsV3")
    /\ own' = [own EXCEPT !.drop = TRUE]
    /\ base' = [base EXCEPT !.open = FALSE]
    /\ \/ Connected /\ link' = [link EXCEPT !.ws = "dying"] /\ wire' \in Prefixes(wire)
       \/ link' = [link EXCEPT !.ws = "none"] /\ wire' = << >>

\* The first text of a turn clears _turn_eos_emitted.  _classify_lost_socket: the
\* loss of a socket that was given up is not an error.
V3Send(i) ==
    /\ AtSend(i, senders[i].text)
    /\ LET s == senders[i]
           o == [own EXCEPT !.fed = @ /\ ~(s.text /\ ~own.flag), !.flag = @ \/ s.text,
                            !.seq = s.turn]
       IN /\ own' = o
          /\ IF link.ws = "open"
             THEN /\ wire' = wire \o Texts(i, 0) \o Ends(i, 0) /\ said' = Given(said, i)
                  /\ base' = [base EXCEPT !.last = @ \/ s.last]
             ELSE /\ base' = [base EXCEPT !.error = @ \/ ~own.drop,
                                          !.last = @ \/ (s.last /\ ~s.text)]
                  /\ UNCHANGED <<wire, said>>
    /\ UNCHANGED <<tts, pipe, link>>

V3Receive(more) ==
    /\ Reads("elevenlabsV3", more)
    /\ Yield(<<Hd>>)
    /\ own' = [own EXCEPT !.fed = @ \/ IsEnd, !.flag = @ /\ ~(IsEnd /\ base.open)]

\* ConnectionClosed in recv ends a turn that was sent whole and is still to end;
\* a socket found closed at the top of the loop ends nothing.
V3MeetsEnd ==
    /\ tts = "elevenlabsV3" /\ MeetsEnd /\ ~pipe.over /\ NoMoreSocket
    /\ LET ends == link.ws = "closing" /\ ~own.drop /\ base.last /\ ~own.fed
       IN IF link.ws = "closing" /\ base.error
          THEN /\ pipe' = [pipe EXCEPT !.over = TRUE, !.left = 0]
               /\ UNCHANGED <<base, said, own>>
          ELSE /\ Yield(IF ends THEN <<End(own.seq, 0)>> ELSE << >>)
               /\ own' = [own EXCEPT !.fed = @ \/ ends]
    /\ UNCHANGED <<tts, senders, wire>>

\* A new socket was not given up.
V3Dial == tts = "elevenlabsV3" /\ Dial([own EXCEPT !.drop = FALSE], FALSE, TRUE)
=============================================================================
