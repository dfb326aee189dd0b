------------------------ MODULE Transcribers_proofs ------------------------
(***************************************************************************)
(* For any number of utterances, runs and messages in flight, and every    *)
(* provider: the types; one closed packet per run with nothing behind it;  *)
(* one watchdog on a turn; and words a watchdog delivered are not          *)
(* delivered again by the provider's own end of the turn.                  *)
(***************************************************************************)
EXTENDS Transcribers, SequenceTheorems, TLAPS

Links ==
    [task : {"idle", "dialing", "streaming", "drained", "done", "gone"}, on : BOOLEAN,
     ws : {"none", "open", "lost"}, error : BOOLEAN, pump : BOOLEAN, beat : BOOLEAN,
     dogs : 0..2, tries : 0..2, runs : 0..MaxRuns, eos : BOOLEAN]
TurnStates ==
    [open : BOOLEAN, sent : BOOLEAN, final : SUBSET Utt, interim : SUBSET Utt,
     clock : BOOLEAN, flag : BOOLEAN]
Packets == [interim : BOOLEAN, words : SUBSET Utt, ended : BOOLEAN, closed : BOOLEAN]
Results == [turn : TurnStates, says : Packets, stop : BOOLEAN, error : BOOLEAN]
Hearings ==
    [times : [Utt -> 0..2], hanging : BOOLEAN, closes : 0..2, late : BOOLEAN,
     forced : SUBSET Utt]
Services ==
    [utt : 0..MaxUtt, bye : BOOLEAN,
     stage : {"quiet", "begun", "partial", "final", "eager", "resumed", "stopped", "over"}]
\* Only an error or the session's end may come before the first utterance.
Messages(p) == {m \in [kind : Says(p), utt : 0..MaxUtt] : m.kind \in {"error", "last"} \/ m.utt \in Utt}

TypeInv ==
    /\ stt \in Providers /\ link \in Links /\ turn \in TurnStates /\ heard \in Hearings
    /\ svc \in Services /\ (svc.stage # "quiet" => svc.utt \in Utt)
    /\ wire \in Seq(Messages(stt))

\* The providers that queue a second closed packet, and those without a watchdog.
Twice == {"sarvam", "assemblyai", "smallest", "gladia", "openai"}
Dogless == {"sarvam", "assemblyai", "azure", "google", "deepgramHttp", "assemblyaiHttp",
            "sarvamHttp"}

\* A run has reported no end before its receiver stops; Sarvam and AssemblyAI may
\* report one as it stops, and they have no watchdog.
ClosingInv ==
    /\ link.task \in {"idle", "dialing", "streaming"} => heard.closes = 0
    /\ stt \notin {"sarvam", "assemblyai"} => (link.task = "drained" => heard.closes = 0)
    /\ stt \notin Twice => heard.closes <= 1
    /\ stt # "soniox" => ~heard.late

\* A watchdog lives as long as its run; Gemini's for all the sessions of a run.
WatchdogInv ==
    /\ stt # "soniox" => /\ link.dogs <= 1
                         /\ link.task \in {"idle", "done", "gone"} => link.dogs = 0
                         /\ stt # "gemini" /\ link.task = "dialing" => link.dogs = 0
    /\ stt \in Dogless => link.dogs = 0

\* Smallest and Gladia close the socket themselves at the end of the stream, so their
\* service's last message never finds a watchdog alive.
PartingInv ==
    stt \in {"smallest", "gladia"} =>
        /\ \A i \in 1..Len(wire) : wire[i].kind # "last"
        /\ link.pump => link.task \in {"streaming", "drained"}
        /\ svc.bye => link.ws # "open" /\ link.task # "dialing"

\* The service goes on from utterance to utterance.  Words a watchdog delivered have
\* left the turn, and it is marked as sent until the service is past them.
Marked == {"flux", "elevenlabs"}
InTurn == turn.final \cup turn.interim
Past(u) == svc.utt > u /\ \A i \in 1..Len(wire) : wire[i].utt > u
OrderInv ==
    /\ \A i, j \in 1..Len(wire) : i <= j => wire[i].utt <= wire[j].utt
    /\ \A i \in 1..Len(wire) : wire[i].utt <= svc.utt
    /\ \A u \in InTurn \cup heard.forced :
           u <= svc.utt /\ \A i \in 1..Len(wire) : u <= wire[i].utt
ForcedInv ==
    \A u \in heard.forced : u \notin InTurn /\ (turn.sent \/ Past(u))
LateInv == stt \in Marked => OrderInv /\ ForcedInv

IInv == TypeInv /\ ClosingInv /\ WatchdogInv /\ PartingInv /\ LateInv

---------------------------------------------------------------------------
LEMMA HearShape ==
    ASSUME NEW h \in Hearings, NEW says \in Packets
    PROVE  /\ Hear(h, says) \in Hearings
           /\ Hear(h, says).closes = IF says.closed THEN AtMost(2, h.closes + 1) ELSE h.closes
           /\ Hear(h, says).late => h.late \/ (says.words # {} /\ h.closes > 0)
           /\ Hear(h, says).forced = h.forced
           /\ \A u \in Utt : u \notin says.words => Hear(h, says).times[u] = h.times[u]
<1> DEFINE times == [u \in Utt |-> AtMost(2, h.times[u] + (IF u \in says.words THEN 1 ELSE 0))]
           closes == AtMost(2, h.closes + (IF says.closed THEN 1 ELSE 0))
           hanging == /\ h.hanging \/ says.interim
                      /\ says.words = {} /\ ~says.ended /\ ~says.closed
           late == h.late \/ (says.words # {} /\ h.closes > 0)
<1>1. \A n \in 0..2 : AtMost(2, n) = n /\ AtMost(2, n + 0) = n /\ AtMost(2, n + 1) \in 0..2
  BY DEF AtMost
<1>2. h.times \in [Utt -> 0..2] /\ h.closes \in 0..2
  BY DEF Hearings
<1>3. times \in [Utt -> 0..2] /\ \A u \in Utt : u \notin says.words => times[u] = h.times[u]
  BY <1>1, <1>2
<1>4. closes \in 0..2 /\ closes = IF says.closed THEN AtMost(2, h.closes + 1) ELSE h.closes
  BY <1>1, <1>2
<1>5. hanging \in BOOLEAN /\ late \in BOOLEAN
  OBVIOUS
<1>6. Hear(h, says) = [h EXCEPT !.times = times, !.hanging = hanging, !.closes = closes,
                                !.late = late]
  BY DEF Hear, Hearings
<1>7. late => h.late \/ (says.words # {} /\ h.closes > 0)
  OBVIOUS
<1> HIDE DEF times, closes, hanging, late
<1> QED BY <1>3, <1>4, <1>5, <1>6, <1>7 DEF Hearings

LEMMA SaysTyped ==
    /\ Silent \in Packets /\ Interim \in Packets /\ Ended \in Packets /\ Closed \in Packets
    /\ \A ws \in SUBSET Utt : Words(ws) \in Packets /\ ~Words(ws).closed /\ Words(ws).words = ws
    /\ \A ws \in SUBSET Utt : /\ [Interim EXCEPT !.words = ws] \in Packets
                              /\ ~[Interim EXCEPT !.words = ws].closed
                              /\ [Interim EXCEPT !.words = ws].interim
    /\ ~Silent.closed /\ ~Interim.closed /\ ~Ended.closed /\ Closed.closed /\ Interim.interim
    /\ Silent.words = {} /\ Interim.words = {} /\ Ended.words = {} /\ Closed.words = {}
BY DEF Silent, Interim, Ended, Closed, Words, Packets

LEMMA ResultTyped ==
    ASSUME NEW t \in TurnStates, NEW says \in Packets
    PROVE  /\ Result(t, says) \in Results /\ Result(t, says).says = says
           /\ Result(t, says).turn = t
           /\ Stop(t, says) \in Results /\ Stop(t, says).says = says /\ Stop(t, says).stop
           /\ Stop(t, says).turn = t
           /\ Fail(t) \in Results /\ Fail(t).says = Silent /\ Fail(t).turn = t
           /\ [Result(t, says) EXCEPT !.error = TRUE] \in Results
           /\ [Result(t, says) EXCEPT !.error = TRUE].says = says
BY SaysTyped DEF Result, Stop, Fail, Results

\* Every reset leaves a typed turn without words.
LEMMA TurnsTyped ==
    /\ NoTurn \in TurnStates /\ DeepgramReset \in TurnStates /\ [NoTurn EXCEPT !.open = TRUE] \in TurnStates
    /\ [NoTurn EXCEPT !.sent = TRUE] \in TurnStates /\ PixaReset \in TurnStates
    /\ DeepgramReset.final = {} /\ DeepgramReset.interim = {} /\ DeepgramReset.sent
    /\ NoTurn.final = {} /\ NoTurn.interim = {}
    /\ [NoTurn EXCEPT !.sent = TRUE].final = {} /\ [NoTurn EXCEPT !.sent = TRUE].interim = {}
    /\ [NoTurn EXCEPT !.sent = TRUE].sent
BY DEF NoTurn, DeepgramReset, PixaReset, TurnStates

\* What a message of the service makes of a turn; only the session's end is reported
\* as a closed packet, and ends the receiver.
GoodResult(r, m) ==
    /\ r \in Results
    /\ r.says.closed => r.stop /\ m.kind = "last"
                        /\ stt \in {"sarvam", "assemblyai", "smallest", "gladia"}


\* The provider's turns, message by message.
MessageKinds(m) == m.kind \in Says(stt) /\ (m.kind \notin {"error", "last"} => m.utt \in Utt)

LEMMA Good ==
    \A m : \A t \in TurnStates, says \in Packets :
        /\ ~says.closed => /\ GoodResult(Result(t, says), m)
                           /\ GoodResult(Stop(t, says), m)
                           /\ GoodResult([Result(t, says) EXCEPT !.error = TRUE], m)
        /\ GoodResult(Fail(t), m)
        /\ m.kind = "last" /\ stt \in {"sarvam", "assemblyai", "smallest", "gladia"} =>
               GoodResult(Stop(t, says), m)
<1> SUFFICES ASSUME NEW t \in TurnStates, NEW says \in Packets, NEW m
             PROVE  /\ ~says.closed => /\ GoodResult(Result(t, says), m)
                                       /\ GoodResult(Stop(t, says), m)
                                       /\ GoodResult([Result(t, says) EXCEPT !.error = TRUE], m)
                    /\ GoodResult(Fail(t), m)
                    /\ m.kind = "last" /\ stt \in {"sarvam", "assemblyai", "smallest", "gladia"} =>
                           GoodResult(Stop(t, says), m)
  OBVIOUS
<1> QED BY ResultTyped, SaysTyped DEF GoodResult

LEMMA GoodQuiet ==
    \A m : \A t \in TurnStates :
        /\ GoodResult(Result(t, Silent), m) /\ GoodResult(Result(t, Interim), m)
        /\ GoodResult(Result(t, Ended), m)
        /\ \A ws \in SUBSET Utt : /\ GoodResult(Result(t, Words(ws)), m)
                                  /\ GoodResult(Result(t, [Interim EXCEPT !.words = ws]), m)
        /\ GoodResult(Fail(t), m) /\ GoodResult(Stop(t, Silent), m)
        /\ GoodResult([Result(t, Silent) EXCEPT !.error = TRUE], m)
BY Good, SaysTyped

LEMMA GoodLast ==
    \A m : \A t \in TurnStates :
        m.kind = "last" /\ stt \in {"sarvam", "assemblyai", "smallest", "gladia"} =>
            GoodResult(Stop(t, Closed), m)
BY Good, SaysTyped

LEMMA NovaTyped ==
    ASSUME turn \in TurnStates, stt = "nova", NEW m, MessageKinds(m)
    PROVE  GoodResult(NovaReceiver(m), m)
<1>1. m.kind \in {"started", "partial", "final", "endpoint", "ended"} /\ m.utt \in Utt
  BY DEF MessageKinds, Says
<1>2. CASE m.kind = "started"
  <2> DEFINE t == [turn EXCEPT !.flag = ~turn.open \/ turn.flag, !.sent = FALSE]
  <2>1. t \in TurnStates
    BY DEF TurnStates
  <2>2. NovaReceiver(m) = Result(t, Silent)
    BY <1>2 DEF NovaReceiver
  <2> QED BY <2>1, <2>2, GoodQuiet
<1>3. CASE m.kind = "ended"
  <2> DEFINE t == [turn EXCEPT !.open = FALSE, !.interim = {}, !.final = {}]
  <2>1. /\ [t EXCEPT !.sent = TRUE] \in TurnStates /\ [t EXCEPT !.flag = FALSE] \in TurnStates
        /\ turn.final \in SUBSET Utt
    BY DEF TurnStates
  <2>2. \/ NovaReceiver(m) = Result([t EXCEPT !.sent = TRUE], Words(turn.final))
        \/ NovaReceiver(m) = Result([t EXCEPT !.flag = FALSE], Ended)
    BY <1>3 DEF NovaReceiver, NovaUtteranceEnd
  <2> HIDE DEF t
  <2> QED BY <2>1, <2>2, GoodQuiet
<1>4. CASE m.kind \notin {"started", "ended"}
  <2> DEFINE said == [turn EXCEPT !.flag = FALSE, !.open = TRUE, !.interim = {m.utt},
                                  !.clock = TRUE, !.sent = FALSE]
             final == IF m.kind = "partial" THEN said.final ELSE said.final \cup {m.utt}
  <2>1. said \in TurnStates /\ final \in SUBSET Utt
    BY <1>1 DEF TurnStates
  <2>2. \/ NovaReceiver(m) = Result([said EXCEPT !.open = FALSE, !.interim = {}, !.final = {},
                                                 !.sent = TRUE], [Interim EXCEPT !.words = final])
        \/ NovaReceiver(m) = Result([said EXCEPT !.final = final], Interim)
    BY <1>4 DEF NovaReceiver, NovaResults
  <2> HIDE DEF said, final
  <2>3. /\ [said EXCEPT !.open = FALSE, !.interim = {}, !.final = {}, !.sent = TRUE] \in TurnStates
        /\ [said EXCEPT !.final = final] \in TurnStates
    BY <2>1 DEF TurnStates
  <2> QED BY <2>1, <2>2, <2>3, GoodQuiet
<1> QED BY <1>2, <1>3, <1>4

LEMMA FluxTyped ==
    ASSUME turn \in TurnStates, stt = "flux", NEW m, MessageKinds(m)
    PROVE  GoodResult(FluxReceiver(m), m)
<1>1. m.utt \in Utt
  BY DEF MessageKinds, Says
<1>2. /\ [turn EXCEPT !.open = TRUE, !.interim = {m.utt}, !.sent = FALSE, !.final = {},
                      !.clock = TRUE] \in TurnStates
      /\ [turn EXCEPT !.interim = {m.utt}, !.clock = TRUE] \in TurnStates
      /\ [turn EXCEPT !.flag = TRUE, !.clock = TRUE] \in TurnStates
      /\ [turn EXCEPT !.flag = FALSE] \in TurnStates
  BY <1>1 DEF TurnStates
<1>3. \E t \in TurnStates : \/ FluxReceiver(m) = Result(t, Interim)
                            \/ FluxReceiver(m) = Result(t, Silent)
                            \/ FluxReceiver(m) = Result(t, Words({m.utt}))
  BY <1>2, TurnsTyped DEF FluxReceiver, FluxStartOfTurn, FluxUpdate, FluxEager, FluxEndOfTurn
<1>4. {m.utt} \in SUBSET Utt
  BY <1>1
<1> QED BY <1>3, <1>4, GoodQuiet

LEMMA SonioxTyped ==
    ASSUME turn \in TurnStates, stt = "soniox", NEW m, MessageKinds(m)
    PROVE  GoodResult(SonioxReceiver(m), m)
<1>1. SonioxReset \in TurnStates /\ SonioxStart \in TurnStates /\ turn.final \in SUBSET Utt
  BY TurnsTyped DEF SonioxReset, SonioxStart, TurnStates
<1>2. CASE m.kind = "error"
  BY <1>2, GoodQuiet DEF SonioxReceiver
<1>3. CASE m.kind = "last"
  BY <1>3, GoodQuiet DEF SonioxReceiver
<1>4. CASE m.kind = "ended"
  BY <1>1, <1>4, GoodQuiet DEF SonioxReceiver
<1>5. CASE m.kind \notin {"error", "last", "ended"}
  <2> DEFINE final == SonioxStart.final \cup (IF m.kind = "partial" THEN {} ELSE {m.utt})
             interim == turn.final \cup {m.utt}
             t == [SonioxStart EXCEPT !.clock = TRUE, !.interim = interim, !.final = final]
  <2>1. m.utt \in Utt
    BY <1>5 DEF MessageKinds
  <2>2. final \in SUBSET Utt /\ interim \in SUBSET Utt
    BY <1>1, <2>1 DEF TurnStates
  <2>3. \/ SonioxReceiver(m) = Result(SonioxReset, [Interim EXCEPT !.words = t.final])
        \/ SonioxReceiver(m) = Result(t, Interim)
    BY <1>5 DEF SonioxReceiver
  <2> HIDE DEF final, interim
  <2>4. t \in TurnStates /\ t.final = final
    BY <1>1, <2>2 DEF TurnStates
  <2> HIDE DEF t
  <2> QED BY <1>1, <2>2, <2>3, <2>4, GoodQuiet
<1> QED BY <1>2, <1>3, <1>4, <1>5

LEMMA GeminiTyped ==
    ASSUME turn \in TurnStates, stt = "gemini", NEW m, MessageKinds(m)
    PROVE  GoodResult(GeminiReceiver(m), m)
<1>1. /\ GeminiStart \in TurnStates /\ GeminiReset \in TurnStates /\ Forced(turn) \in SUBSET Utt
      /\ GeminiStart.final \in SUBSET Utt
  BY TurnsTyped DEF GeminiStart, GeminiReset, TurnStates, Forced
<1>2. CASE m.kind = "partial"
  <2>1. m.utt \in Utt
    BY <1>2 DEF MessageKinds
  <2>2. [GeminiStart EXCEPT !.interim = {m.utt}, !.clock = TRUE] \in TurnStates
    BY <1>1, <2>1 DEF TurnStates
  <2> QED BY <1>2, <2>2, GoodQuiet, GoodLast DEF GeminiReceiver
<1>3. CASE m.kind = "endpoint"
  <2>1. m.utt \in Utt
    BY <1>3 DEF MessageKinds
  <2> DEFINE f == GeminiStart.final \cup {m.utt}
  <2>2. [GeminiStart EXCEPT !.final = f] \in TurnStates /\ f \in SUBSET Utt
    BY <1>1, <2>1 DEF TurnStates
  <2>3. \/ GeminiReceiver(m) = Result(GeminiReset, Words(f))
        \/ GeminiReceiver(m) = Result([GeminiStart EXCEPT !.final = f], Silent)
    BY <1>3 DEF GeminiReceiver
  <2> HIDE DEF f
  <2> QED BY <1>1, <2>2, <2>3, GoodQuiet, GoodLast
<1>4. CASE m.kind \notin {"partial", "endpoint"}
  <2>1. \/ GeminiReceiver(m) = Result(GeminiReset, Words(Forced(turn)))
        \/ GeminiReceiver(m) = Result(GeminiReset, Ended)
        \/ GeminiReceiver(m) = Result(turn, Silent)
        \/ GeminiReceiver(m) = Fail(turn)
    BY <1>4 DEF GeminiReceiver
  <2> QED BY <1>1, <2>1, GoodQuiet, GoodLast
<1> QED BY <1>2, <1>3, <1>4

LEMMA ElevenLabsTyped ==
    ASSUME turn \in TurnStates, stt = "elevenlabs", NEW m, MessageKinds(m)
    PROVE  GoodResult(ElevenLabsReceiver(m), m)
<1>1. CASE m.kind = "partial"
  <2>1. m.utt \in Utt
    BY <1>1 DEF MessageKinds
  <2>2. [turn EXCEPT !.open = TRUE, !.interim = {m.utt}, !.clock = TRUE, !.final = {m.utt},
                     !.sent = FALSE] \in TurnStates
    BY <2>1 DEF TurnStates
  <2> QED BY <1>1, <2>2, GoodQuiet, GoodLast DEF ElevenLabsReceiver, ElevenLabsPartial
<1>2. CASE m.kind = "endpoint"
  <2>1. {m.utt} \in SUBSET Utt
    BY <1>2 DEF MessageKinds
  <2> QED BY <1>2, <2>1, TurnsTyped, GoodQuiet, GoodLast
          DEF ElevenLabsReceiver, ElevenLabsCommitted, ElevenLabsReset
<1>3. CASE m.kind \notin {"partial", "endpoint"}
  BY <1>3, GoodQuiet, GoodLast DEF ElevenLabsReceiver
<1> QED BY <1>1, <1>2, <1>3

LEMMA PixaTyped ==
    ASSUME turn \in TurnStates, stt = "pixa", NEW m, MessageKinds(m)
    PROVE  GoodResult(PixaReceiver(m), m)
<1>1. {m.utt} \in SUBSET Utt
  BY DEF MessageKinds, Says
<1>2. [turn EXCEPT !.final = {m.utt}, !.clock = TRUE] \in TurnStates
  BY <1>1 DEF TurnStates
<1> QED BY <1>1, <1>2, TurnsTyped, GoodQuiet, GoodLast DEF PixaReceiver

LEMMA SarvamTyped ==
    ASSUME turn \in TurnStates, stt = "sarvam", NEW m, MessageKinds(m)
    PROVE  GoodResult(SarvamReceiver(m), m)
<1>1. CASE m.kind = "endpoint"
  <2>1. {m.utt} \in SUBSET Utt
    BY <1>1 DEF MessageKinds
  <2>2. [turn EXCEPT !.final = turn.final \cup {m.utt}] \in TurnStates
    BY <2>1 DEF TurnStates
  <2> QED BY <1>1, <2>1, <2>2, GoodQuiet, GoodLast DEF SarvamReceiver, SarvamData
<1>2. CASE m.kind \in {"started", "ended"}
  <2>1. [turn EXCEPT !.open = FALSE] \in TurnStates
    BY DEF TurnStates
  <2> QED BY <1>2, <2>1, TurnsTyped, GoodQuiet, GoodLast DEF SarvamReceiver, SarvamVad
<1>3. CASE m.kind \notin {"endpoint", "started", "ended"}
  BY <1>3, GoodQuiet, GoodLast DEF SarvamReceiver
<1> QED BY <1>1, <1>2, <1>3

LEMMA AssemblyAITyped ==
    ASSUME turn \in TurnStates, stt = "assemblyai", NEW m, MessageKinds(m)
    PROVE  GoodResult(AssemblyAIReceiver(m), m)
<1>1. CASE m.kind \in {"partial", "endpoint"}
  <2>1. {m.utt} \in SUBSET Utt
    BY <1>1 DEF MessageKinds
  <2>2. /\ [turn EXCEPT !.open = FALSE, !.interim = {}] \in TurnStates
        /\ [turn EXCEPT !.open = TRUE, !.interim = {m.utt}] \in TurnStates
    BY <2>1 DEF TurnStates
  <2> QED BY <1>1, <2>1, <2>2, GoodQuiet, GoodLast
          DEF AssemblyAIReceiver, AssemblyAITurn
<1>2. CASE m.kind \notin {"partial", "endpoint"}
  BY <1>2, GoodQuiet, GoodLast DEF AssemblyAIReceiver
<1> QED BY <1>1, <1>2

LEMMA SmallestTyped ==
    ASSUME turn \in TurnStates, stt = "smallest", NEW m, MessageKinds(m)
    PROVE  GoodResult(SmallestReceiver(m), m)
<1>1. CASE m.kind \in {"partial", "endpoint"}
  <2>1. {m.utt} \in SUBSET Utt
    BY <1>1 DEF MessageKinds
  <2>2. /\ [turn EXCEPT !.interim = {m.utt}, !.clock = TRUE] \in TurnStates
        /\ [turn EXCEPT !.final = turn.final \cup {m.utt}, !.clock = TRUE, !.sent = TRUE,
                        !.interim = {}] \in TurnStates
    BY <2>1 DEF TurnStates
  <2> QED BY <1>1, <2>1, <2>2, GoodQuiet, GoodLast DEF SmallestReceiver
<1>2. CASE m.kind \notin {"partial", "endpoint"}
  <2>1. m.kind = "last"
    BY <1>2 DEF MessageKinds, Says
  <2> QED BY <1>2, <2>1, GoodQuiet, GoodLast DEF SmallestReceiver
<1> QED BY <1>1, <1>2

LEMMA GladiaTyped ==
    ASSUME turn \in TurnStates, stt = "gladia", NEW m, MessageKinds(m)
    PROVE  GoodResult(GladiaReceiver(m), m)
<1>1. CASE m.kind \in {"partial", "endpoint"}
  <2>1. {m.utt} \in SUBSET Utt
    BY <1>1 DEF MessageKinds
  <2>2. [turn EXCEPT !.interim = {m.utt}, !.clock = TRUE] \in TurnStates
    BY <2>1 DEF TurnStates
  <2> QED BY <1>1, <2>1, <2>2, TurnsTyped, GoodQuiet, GoodLast
          DEF GladiaReceiver, GladiaTranscript, GladiaReset
<1>2. CASE m.kind \notin {"partial", "endpoint"}
  <2>1. [turn EXCEPT !.open = TRUE, !.interim = {}, !.sent = FALSE] \in TurnStates
    BY DEF TurnStates
  <2> QED BY <1>2, <2>1, GoodQuiet, GoodLast DEF GladiaReceiver
<1> QED BY <1>1, <1>2

LEMMA OpenAITyped ==
    ASSUME turn \in TurnStates, stt = "openai", NEW m, MessageKinds(m)
    PROVE  GoodResult(OpenAIReceiver(m), m)
<1>1. OpenAIReset \in TurnStates /\ OpenAIStart \in TurnStates
  <2>1. [turn EXCEPT !.flag = FALSE] \in TurnStates
    BY DEF TurnStates
  <2> QED BY <2>1, TurnsTyped DEF OpenAIReset, OpenAIStart
<1>2. [turn EXCEPT !.open = FALSE, !.flag = TRUE] \in TurnStates
  BY DEF TurnStates
<1>3. m.utt \in Utt => [turn EXCEPT !.interim = {m.utt}] \in TurnStates
  BY DEF TurnStates
<1>4. m.kind \in {"partial", "endpoint"} => m.utt \in Utt
  BY DEF MessageKinds
<1> QED BY <1>1, <1>2, <1>3, <1>4, GoodQuiet, GoodLast
        DEF OpenAIReceiver, OpenAICommit

LEMMA SdkTyped ==
    ASSUME turn \in TurnStates, stt \in {"azure", "google"}, NEW m, MessageKinds(m)
    PROVE  GoodResult(AzureReceiver(m), m) /\ GoodResult(GoogleReceiver(m), m)
<1>1. {m.utt} \in SUBSET Utt
  BY DEF MessageKinds, Says
<1>2. /\ [turn EXCEPT !.open = TRUE, !.interim = {m.utt}] \in TurnStates
      /\ [turn EXCEPT !.interim = {m.utt}] \in TurnStates
  BY <1>1 DEF TurnStates
<1> QED BY <1>1, <1>2, TurnsTyped, GoodQuiet, GoodLast
        DEF AzureReceiver, GoogleReceiver
---------------------------------------------------------------------------
\* A step keeps the invariant, and repeats no words a watchdog delivered.
Base == TypeInv /\ ClosingInv /\ WatchdogInv /\ PartingInv
NotRepeated == stt \in Marked => \A u \in heard.forced : heard'.times[u] <= heard.times[u]
KeptBy == IInv' /\ NotRepeated

\* A step that leaves the turn, the service's place and the words heard alone.
Still ==
    /\ stt' = stt /\ turn' = turn /\ svc'.utt = svc.utt
    /\ wire' = wire \/ wire' = << >>
    /\ heard'.forced = heard.forced
    /\ \A u \in Utt : heard'.times[u] = heard.times[u]

LEMMA StillRepeats ==
    ASSUME IInv, heard' = heard
    PROVE  NotRepeated
<1>1. heard.forced \in SUBSET Utt /\ heard.times \in [Utt -> 0..2]
  BY DEF IInv, TypeInv, Hearings
<1>2. \A u \in Utt : heard.times[u] \in 0..2
  BY <1>1
<1> QED BY <1>1, <1>2 DEF NotRepeated

LEMMA StillKept ==
    ASSUME IInv, Base', Still
    PROVE  KeptBy
<1>1. heard.forced \in SUBSET Utt /\ heard.times \in [Utt -> 0..2]
  BY DEF IInv, TypeInv, Hearings
<1>2. NotRepeated
  <2>1. \A u \in Utt : heard.times[u] \in 0..2
    BY <1>1
  <2> QED BY <1>1, <2>1 DEF NotRepeated, Still
<1>3. LateInv'
  <2> SUFFICES ASSUME stt \in Marked PROVE OrderInv' /\ ForcedInv'
    BY DEF LateInv, Still, Marked
  <2>1. OrderInv /\ ForcedInv
    BY DEF IInv, LateInv
  <2>2. Len(<< >>) = 0
    OBVIOUS
  <2>3. CASE wire' = wire
    BY <2>1, <2>3 DEF OrderInv, ForcedInv, Past, InTurn, Still
  <2>4. CASE wire' = << >>
    <3>1. 1..Len(wire') = {}
      BY <2>2, <2>4
    <3>2. InTurn' = InTurn /\ turn'.sent = turn.sent /\ svc'.utt = svc.utt
      BY DEF InTurn, Still
    <3> QED BY <2>1, <3>1, <3>2 DEF OrderInv, ForcedInv, Past, Still
  <2> QED BY <2>3, <2>4 DEF Still
<1> QED BY <1>2, <1>3 DEF KeptBy, IInv, Base

\* A step of the connection alone.
LEMMA LinkStep ==
    ASSUME IInv, UNCHANGED <<stt, turn, wire, svc, heard>>, link' \in Links,
           ClosingInv', WatchdogInv', PartingInv'
    PROVE  KeptBy
<1>1. TypeInv'
  BY DEF IInv, TypeInv, Messages
<1>2. Still
  BY DEF Still
<1> QED BY <1>1, <1>2, StillKept DEF Base

\* What the service adds to the wire: nothing, or a message about where it is.
Spoken ==
    /\ svc' \in Services /\ svc'.bye = svc.bye /\ svc.utt <= svc'.utt
    /\ svc'.stage # "quiet" => svc'.utt \in Utt
    /\ \/ wire' = wire
       \/ \E m \in Messages(stt) : /\ wire' = Append(wire, m) /\ m.utt = svc'.utt
                                   /\ m.kind = "last" => svc.bye

LEMMA SendSpoken ==
    \A kind \in Says(stt), stage \in {"quiet", "begun", "partial", "final", "eager", "resumed",
                                     "stopped", "over"} :
        /\ TypeInv /\ Send(kind, stage)
        /\ kind \notin {"error", "last"} \/ stage # "quiet" => svc.utt \in Utt
        /\ kind = "last" => svc.bye
        => Spoken
<1> SUFFICES ASSUME NEW kind \in Says(stt),
                    NEW stage \in {"quiet", "begun", "partial", "final", "eager", "resumed",
                                   "stopped", "over"},
                    TypeInv, Send(kind, stage),
                    kind \notin {"error", "last"} \/ stage # "quiet" => svc.utt \in Utt,
                    kind = "last" => svc.bye
             PROVE  Spoken
  OBVIOUS
<1> DEFINE m == [kind |-> kind, utt |-> svc.utt]
<1>1. svc \in Services /\ svc.utt \in 0..MaxUtt /\ svc.utt <= svc.utt
  BY TranscriberAssumption DEF TypeInv, Services
<1>2. /\ svc' \in Services /\ svc'.bye = svc.bye /\ svc'.utt = svc.utt
      /\ svc'.stage = stage
  BY <1>1 DEF Send, Services
<1>3. m \in Messages(stt) /\ m.utt = svc.utt /\ m.kind = kind /\ wire' = Append(wire, m)
  BY <1>1 DEF Messages, Send
<1> HIDE DEF m
<1> QED BY <1>1, <1>2, <1>3 DEF Spoken

LEMMA ServiceSpoken ==
    ASSUME TypeInv, ServiceSpeaks
    PROVE  Spoken
<1>1. svc \in Services /\ svc.utt \in 0..MaxUtt /\ (svc.stage # "quiet" => svc.utt \in Utt)
  BY DEF TypeInv, Services
<1>2. CASE Begin
  <2> DEFINE n == svc.utt + 1
             m == [kind |-> "started", utt |-> n]
  <2>1. n \in Utt /\ svc.utt <= n /\ n \in 0..MaxUtt
    BY <1>1, <1>2, TranscriberAssumption DEF Begin, Utt
  <2>2. svc' = [svc EXCEPT !.utt = n, !.stage = "begun"]
    BY <1>2 DEF Begin
  <2>3. "started" \in Says(stt) => m \in Messages(stt) /\ m.utt = n /\ m.kind = "started"
    BY <2>1 DEF Messages
  <2>4. wire' = wire \/ ("started" \in Says(stt) /\ wire' = Append(wire, m))
    BY <1>2 DEF Begin
  <2> HIDE DEF n, m
  <2>5. svc' \in Services /\ svc'.bye = svc.bye /\ svc'.utt = n
    BY <1>1, <2>1, <2>2 DEF Services
  <2> QED BY <2>1, <2>3, <2>4, <2>5 DEF Spoken
<1>3. CASE \E kind \in {"partial", "final", "eager", "resumed", "endpoint", "blank", "ended"} :
            \E stage \in {"quiet", "partial", "final", "eager", "resumed", "stopped", "over"} :
                svc.stage # "quiet" /\ Send(kind, stage)
  BY <1>1, <1>3, SendSpoken DEF Send
<1>4. CASE Send("error", svc.stage)
  <2>1. svc.stage \in {"quiet", "begun", "partial", "final", "eager", "resumed", "stopped", "over"}
    BY <1>1 DEF Services
  <2> QED BY <1>1, <1>4, <2>1, SendSpoken DEF Send
<1>5. CASE Send("last", svc.stage) /\ svc.bye
  <2>1. svc.stage \in {"quiet", "begun", "partial", "final", "eager", "resumed", "stopped", "over"}
    BY <1>1 DEF Services
  <2> QED BY <1>1, <1>5, <2>1, SendSpoken DEF Send
<1>6. \/ Begin
      \/ \E kind \in {"partial", "final", "eager", "resumed", "endpoint", "blank", "ended"} :
            \E stage \in {"quiet", "partial", "final", "eager", "resumed", "stopped", "over"} :
                svc.stage # "quiet" /\ Send(kind, stage)
      \/ Send("error", svc.stage)
      \/ Send("last", svc.stage) /\ svc.bye
  BY DEF ServiceSpeaks
<1> QED BY <1>2, <1>3, <1>4, <1>5, <1>6

LEMMA SpeaksKept ==
    ASSUME IInv, ServiceSpeaks
    PROVE  KeptBy
<1>1. Spoken /\ link.ws = "open" /\ UNCHANGED <<stt, link, turn, heard>>
  BY ServiceSpoken DEF IInv, ServiceSpeaks
<1>2. wire \in Seq(Messages(stt))
  BY DEF IInv, TypeInv
<1>3. CASE wire' = wire
  <2>1. TypeInv'
    BY <1>1, <1>3 DEF IInv, TypeInv, Spoken, Messages
  <2>2. ClosingInv' /\ WatchdogInv' /\ PartingInv'
    BY <1>1, <1>3 DEF IInv, ClosingInv, WatchdogInv, PartingInv, Spoken
  <2>3. ASSUME stt \in Marked PROVE OrderInv' /\ ForcedInv'
    <3>1. OrderInv /\ ForcedInv
      BY <2>3 DEF IInv, LateInv
    <3>2. InTurn' = InTurn /\ heard' = heard /\ turn' = turn
      BY <1>1 DEF InTurn
    <3>3. svc.utt \in Int /\ svc'.utt \in Int /\ svc.utt <= svc'.utt
      BY <1>1, TranscriberAssumption DEF IInv, TypeInv, Services, Spoken
    <3>4. wire \in Seq(Messages(stt)) /\ \A i \in 1..Len(wire) : wire[i].utt \in Int
      BY <1>2, TranscriberAssumption DEF Messages
    <3>5. InTurn \cup heard.forced \subseteq Int
      BY TranscriberAssumption DEF IInv, TypeInv, InTurn, TurnStates, Hearings, Utt
    <3>6. OrderInv'
      BY <1>3, <3>1, <3>2, <3>3, <3>4, <3>5 DEF OrderInv
    <3>7. ForcedInv'
      BY <1>3, <3>1, <3>2, <3>3, <3>4, <3>5 DEF ForcedInv, Past
    <3> QED BY <3>6, <3>7
  <2> QED BY <1>1, <2>1, <2>2, <2>3, StillRepeats DEF KeptBy, IInv, LateInv
<1>4. CASE wire' # wire
  <2>0. PICK m \in Messages(stt) : /\ wire' = Append(wire, m) /\ m.utt = svc'.utt
                                   /\ m.kind = "last" => svc.bye
    BY <1>1, <1>4 DEF Spoken
  <2>1. /\ wire' \in Seq(Messages(stt)) /\ Len(wire') = Len(wire) + 1 /\ Len(wire) \in Nat
        /\ \A i \in 1..Len(wire') : wire'[i] = IF i <= Len(wire) THEN wire[i] ELSE m
    <3> HIDE DEF Messages
    <3> QED BY <1>2, <2>0
  <2>2. TypeInv'
    BY <1>1, <2>1 DEF IInv, TypeInv, Spoken, Messages
  <2>3. ClosingInv' /\ WatchdogInv'
    BY <1>1 DEF IInv, ClosingInv, WatchdogInv
  <2>4. PartingInv'
    BY <1>1, <2>0, <2>1 DEF IInv, PartingInv, Spoken
  <2>5. ASSUME stt \in Marked PROVE OrderInv' /\ ForcedInv'
    <3>1. OrderInv /\ ForcedInv
      BY <2>5 DEF IInv, LateInv
    <3>2. InTurn' = InTurn /\ heard' = heard /\ turn' = turn
      BY <1>1 DEF InTurn
    <3>3. svc.utt \in Int /\ svc'.utt \in Int /\ svc.utt <= svc'.utt
      BY <1>1, TranscriberAssumption DEF IInv, TypeInv, Services, Spoken
    <3>4. \A i \in 1..Len(wire) : wire[i].utt \in Int
      BY <1>2, TranscriberAssumption DEF Messages
    <3>5. InTurn \cup heard.forced \subseteq Int
      BY TranscriberAssumption DEF IInv, TypeInv, InTurn, TurnStates, Hearings, Utt
    <3> DEFINE n == Len(wire)
    <3>6. /\ \A i \in 1..(n+1) : wire'[i].utt = IF i <= n THEN wire[i].utt ELSE svc'.utt
          /\ Len(wire') = n + 1 /\ n \in Nat
      BY <2>0, <2>1
    <3>7. OrderInv'
      <4> HIDE DEF n
      <4>1. \A i, j \in 1..n : i <= j => wire[i].utt <= wire[j].utt
        BY <3>1 DEF OrderInv, n
      <4>2. \A i \in 1..n : wire[i].utt <= svc.utt
        BY <3>1 DEF OrderInv, n
      <4>3. \A i, j \in 1..(n+1) : i <= j => wire'[i].utt <= wire'[j].utt
        BY <3>3, <3>4, <3>6, <4>1, <4>2 DEF n
      <4>4. \A i \in 1..(n+1) : wire'[i].utt <= svc'.utt
        BY <3>3, <3>4, <3>6, <4>2 DEF n
      <4>5. \A u \in InTurn \cup heard.forced :
                u <= svc'.utt /\ \A i \in 1..(n+1) : u <= wire'[i].utt
        BY <3>1, <3>3, <3>4, <3>5, <3>6 DEF OrderInv, n
      <4> QED BY <3>2, <3>6, <4>3, <4>4, <4>5 DEF OrderInv
    <3>8. ForcedInv'
      <4>1. \A u \in heard.forced : Past(u) => Past(u)'
        BY <3>1, <3>3, <3>4, <3>5, <3>6 DEF Past
      <4> QED BY <3>1, <3>2, <4>1 DEF ForcedInv
    <3> QED BY <3>7, <3>8
  <2> QED BY <1>1, <2>2, <2>3, <2>4, <2>5, StillRepeats DEF KeptBy, IInv, LateInv
<1> QED BY <1>3, <1>4

---------------------------------------------------------------------------
\* Steps of the connection that only bring its end nearer.
LEMMA LinkKept ==
    ASSUME IInv, UNCHANGED <<stt, turn, wire, svc, heard>>, link' \in Links,
           link'.task = link.task \/ (link.task = "streaming" /\ link'.task = "drained"),
           link'.dogs \in {link.dogs, 0} \/ stt = "soniox",
           link'.pump => link.pump, link'.ws = "open" => link.ws = "open"
    PROVE  KeptBy
<1>1. ClosingInv'
  BY DEF IInv, ClosingInv
<1>2. WatchdogInv'
  BY DEF IInv, WatchdogInv, Dogless
<1>3. PartingInv'
  BY DEF IInv, PartingInv
<1> QED BY <1>1, <1>2, <1>3, LinkStep

LEMMA DropsKept ==
    ASSUME IInv, ServiceDrops
    PROVE  KeptBy
<1>1. link' = [link EXCEPT !.ws = "lost"] /\ link \in Links
  BY DEF ServiceDrops, IInv, TypeInv
<1>2. /\ link' \in Links /\ link'.task = link.task /\ link'.dogs = link.dogs
      /\ link'.pump = link.pump /\ link'.ws = "lost"
  BY <1>1 DEF Links
<1> QED BY <1>2, LinkKept DEF ServiceDrops

\* The receiver stops, an error stored or not.
LEMMA DrainKept ==
    ASSUME IInv, UNCHANGED <<stt, turn, wire, svc, heard>>, link.task = "streaming",
           NEW e \in BOOLEAN, link' = [link EXCEPT !.task = "drained", !.error = e]
    PROVE  KeptBy
<1>1. link \in Links
  BY DEF IInv, TypeInv
<1>2. /\ link' \in Links /\ link'.task = "drained" /\ link'.dogs = link.dogs
      /\ link'.pump = link.pump /\ link'.ws = link.ws
  BY <1>1 DEF Links
<1> QED BY <1>2, LinkKept

LEMMA RunsDryKept ==
    ASSUME IInv, RunsDry \/ GeminiRunsDry \/ AzureCanceled, UNCHANGED stt
    PROVE  KeptBy
<1>1. link \in Links /\ link.error \in BOOLEAN
  BY DEF IInv, TypeInv, Links
<1>2. \A e \in BOOLEAN : (link.error \/ e) \in BOOLEAN
  OBVIOUS
<1>3. /\ link.task = "streaming" /\ UNCHANGED <<stt, turn, wire, svc, heard>>
      /\ \/ \E e \in BOOLEAN : link' = [link EXCEPT !.task = "drained", !.error = link.error \/ e]
         \/ link' = [link EXCEPT !.task = "drained"]
  BY DEF RunsDry, GeminiRunsDry, AzureCanceled
<1>4. [link EXCEPT !.task = "drained"] = [link EXCEPT !.task = "drained", !.error = link.error]
  BY <1>1 DEF Links
<1>5. PICK f \in BOOLEAN : link' = [link EXCEPT !.task = "drained", !.error = f]
  BY <1>1, <1>2, <1>3, <1>4
<1> QED BY <1>3, <1>5, DrainKept

LEMMA SendFailsKept ==
    ASSUME IInv, SendFails \/ BeatFails, UNCHANGED stt
    PROVE  KeptBy
<1>1. link \in Links /\ (link' = [link EXCEPT !.pump = FALSE] \/ link' = [link EXCEPT !.beat = FALSE])
  BY DEF IInv, TypeInv, SendFails, BeatFails
<1>2. /\ link' \in Links /\ link'.task = link.task /\ link'.dogs = link.dogs
      /\ link'.pump => link.pump
      /\ link'.ws = link.ws
  BY <1>1 DEF Links
<1> QED BY <1>2, LinkKept DEF SendFails, BeatFails

LEMMA ToggleKept ==
    ASSUME IInv, NEW dogs \in 0..2, Toggle(dogs), dogs = 0 \/ stt = "soniox", UNCHANGED stt
    PROVE  KeptBy
<1> DEFINE ws == IF link.ws = "open" THEN "lost" ELSE link.ws
<1>1. link \in Links /\ ws \in {"none", "lost"}
  BY DEF IInv, TypeInv, Links
<1>2. link' = [link EXCEPT !.on = FALSE, !.pump = FALSE, !.beat = FALSE, !.dogs = dogs, !.ws = ws]
  BY DEF Toggle, Toggled
<1> HIDE DEF ws
<1>3. /\ link' \in Links /\ link'.task = link.task /\ link'.dogs = dogs
      /\ ~link'.pump /\ link'.ws # "open"
  BY <1>1, <1>2 DEF Links
<1> QED BY <1>3, LinkKept DEF Toggle

LEMMA ForgetsKept ==
    ASSUME IInv, ServiceForgets
    PROVE  KeptBy
<1>1. /\ svc \in Services /\ svc' = [svc EXCEPT !.stage = "quiet"]
      /\ UNCHANGED <<stt, link, turn, wire, heard>>
  BY DEF IInv, TypeInv, ServiceForgets
<1>2. svc' \in Services /\ svc'.utt = svc.utt /\ svc'.bye = svc.bye /\ svc'.stage = "quiet"
  BY <1>1 DEF Services
<1>3. Still
  BY <1>1, <1>2 DEF Still
<1>4. TypeInv'
  BY <1>1, <1>2 DEF IInv, TypeInv, Messages
<1>5. ClosingInv' /\ WatchdogInv' /\ PartingInv'
  BY <1>1, <1>2 DEF IInv, ClosingInv, WatchdogInv, PartingInv
<1> QED BY <1>3, <1>4, <1>5, StillKept DEF Base

LEMMA LastPacketKept ==
    ASSUME IInv, NEW closes \in BOOLEAN, LastPacket(closes), UNCHANGED stt,
           stt \in {"smallest", "gladia"} => closes
    PROVE  KeptBy
<1> DEFINE ws == IF closes /\ link.ws = "open" THEN "lost" ELSE link.ws
<1>1. /\ link \in Links /\ svc \in Services /\ link.pump
      /\ ws \in {"none", "open", "lost"} /\ (closes => ws # "open")
  BY DEF IInv, TypeInv, Links, LastPacket
<1>2. /\ link' = [link EXCEPT !.pump = FALSE, !.eos = TRUE, !.ws = ws]
      /\ svc' = [svc EXCEPT !.bye = TRUE] /\ UNCHANGED <<stt, turn, wire, heard>>
  BY DEF LastPacket
<1> HIDE DEF ws
<1>3. /\ link' \in Links /\ link'.task = link.task /\ link'.dogs = link.dogs
      /\ ~link'.pump /\ link'.ws = ws
  BY <1>1, <1>2 DEF Links
<1>4. svc' \in Services /\ svc'.utt = svc.utt /\ svc'.stage = svc.stage
  BY <1>1, <1>2 DEF Services
<1>5. Still
  BY <1>2, <1>4 DEF Still
<1>6. TypeInv'
  BY <1>2, <1>3, <1>4 DEF IInv, TypeInv, Messages
<1>7. ClosingInv' /\ WatchdogInv'
  BY <1>2, <1>3 DEF IInv, ClosingInv, WatchdogInv, Dogless
<1>8. PartingInv'
  BY <1>1, <1>2, <1>3 DEF IInv, PartingInv
<1> QED BY <1>5, <1>6, <1>7, <1>8, StillKept DEF Base

LEMMA RunKept ==
    ASSUME IInv, Run, UNCHANGED stt
    PROVE  KeptBy
<1> DEFINE n == link.runs + 1
<1>1. /\ link \in Links /\ svc \in Services /\ heard \in Hearings
      /\ n \in 0..MaxRuns /\ link.task \in {"idle", "done"}
  BY TranscriberAssumption DEF IInv, TypeInv, Links, Run
<1>2. /\ link' = [link EXCEPT !.task = "dialing", !.ws = "none", !.error = FALSE,
                              !.tries = 0, !.runs = n]
      /\ svc' = [svc EXCEPT !.stage = "quiet", !.bye = FALSE]
      /\ heard' = [heard EXCEPT !.closes = 0]
      /\ wire' = << >> /\ UNCHANGED <<stt, turn>>
  BY DEF Run
<1> HIDE DEF n
<1>3. /\ link' \in Links /\ link'.task = "dialing" /\ link'.dogs = link.dogs
      /\ link'.pump = link.pump /\ link'.ws = "none"
  <2>1. link' \in Links
    BY <1>1, <1>2, 0 \in 0..2 DEF Links
  <2>2. /\ link'.task = "dialing" /\ link'.dogs = link.dogs /\ link'.pump = link.pump
        /\ link'.ws = "none"
    BY <1>1, <1>2 DEF Links
  <2> QED BY <2>1, <2>2
<1>4. svc' \in Services /\ svc'.utt = svc.utt /\ svc'.stage = "quiet" /\ ~svc'.bye
  BY <1>1, <1>2 DEF Services
<1>5. /\ heard' \in Hearings /\ heard'.closes = 0 /\ heard'.late = heard.late
      /\ heard'.forced = heard.forced /\ heard'.times = heard.times
  BY <1>1, <1>2 DEF Hearings
<1>6. Still
  BY <1>2, <1>4, <1>5 DEF Still
<1>7. TypeInv'
  BY <1>2, <1>3, <1>4, <1>5 DEF IInv, TypeInv
<1>8. ClosingInv' /\ WatchdogInv'
  BY <1>1, <1>2, <1>3, <1>5 DEF IInv, ClosingInv, WatchdogInv, Dogless
<1>9. PartingInv'
  <2>1. 1..Len(wire') = {}
    BY <1>2
  <2> QED BY <1>1, <1>2, <1>3, <1>4, <2>1 DEF IInv, PartingInv
<1> QED BY <1>6, <1>7, <1>8, <1>9, StillKept DEF Base

---------------------------------------------------------------------------
\* The ends of a run.
LEMMA ClosedHeard ==
    ASSUME heard \in Hearings
    PROVE  /\ Hear(heard, Closed) \in Hearings
           /\ heard.closes = 0 => Hear(heard, Closed).closes <= 1
           /\ Hear(heard, Closed).late => heard.late
           /\ Hear(heard, Closed).forced = heard.forced
           /\ \A u \in Utt : Hear(heard, Closed).times[u] = heard.times[u]
<1>1. Closed \in Packets /\ Closed.closed /\ Closed.words = {}
  BY SaysTyped
<1>2. /\ Hear(heard, Closed) \in Hearings
      /\ Hear(heard, Closed).closes = AtMost(2, heard.closes + 1)
      /\ Hear(heard, Closed).late => heard.late \/ (Closed.words # {} /\ heard.closes > 0)
      /\ Hear(heard, Closed).forced = heard.forced
      /\ \A u \in Utt : u \notin Closed.words => Hear(heard, Closed).times[u] = heard.times[u]
  BY <1>1, HearShape
<1>3. AtMost(2, 0 + 1) <= 1
  BY DEF AtMost
<1> QED BY <1>1, <1>2, <1>3

LEMMA EndKept ==
    ASSUME IInv, UNCHANGED <<stt, turn, svc>>, wire' = wire \/ wire' = << >>,
           link' \in Links, link'.task \in {"done", "gone"},
           link'.dogs = 0 \/ stt = "soniox", stt \in {"smallest", "gladia"} => ~link'.pump,
           link'.ws = "open" => link.ws = "open",
           heard' \in Hearings, heard'.closes <= 1 \/ stt \in Twice, heard'.late => heard.late,
           heard'.forced = heard.forced, \A u \in Utt : heard'.times[u] = heard.times[u]
    PROVE  KeptBy
<1>1. Still
  BY DEF Still
<1>2. TypeInv'
  <2>1. wire \in Seq(Messages(stt)) /\ << >> \in Seq(Messages(stt))
    BY DEF IInv, TypeInv
  <2>2. wire' \in Seq(Messages(stt))'
    BY <2>1 DEF Messages
  <2> QED BY <2>2 DEF IInv, TypeInv
<1>3. ClosingInv'
  BY DEF IInv, ClosingInv
<1>4. WatchdogInv'
  BY DEF IInv, WatchdogInv, Dogless
<1>5. PartingInv'
  <2>1. CASE wire' = wire
    BY <2>1 DEF IInv, PartingInv
  <2>2. CASE wire' = << >>
    <3>1. 1..Len(wire') = {}
      BY <2>2
    <3> QED BY <3>1 DEF IInv, PartingInv
  <2> QED BY <2>1, <2>2
<1> QED BY <1>1, <1>2, <1>3, <1>4, <1>5, StillKept DEF Base

\* The closed packet: a run that had not reported its end reports it once.
LEMMA ReportKept ==
    ASSUME IInv, UNCHANGED <<stt, turn, svc>>, wire' = wire \/ wire' = << >>,
           link' \in Links, link'.task \in {"done", "gone"}, link.task \notin {"idle", "done", "gone"},
           link'.dogs = 0 \/ stt = "soniox", stt \in {"smallest", "gladia"} => ~link'.pump,
           link'.ws = "open" => link.ws = "open", heard' = Hear(heard, Closed)
    PROVE  KeptBy
<1>1. heard \in Hearings /\ link \in Links
  BY DEF IInv, TypeInv
<1>2. stt \notin {"sarvam", "assemblyai"} => heard.closes = 0
  BY <1>1 DEF IInv, ClosingInv, Links
<1>3. heard'.closes <= 1 \/ stt \in Twice
  BY <1>1, <1>2, ClosedHeard DEF Twice
<1>4. /\ heard' \in Hearings /\ (heard'.late => heard.late) /\ heard'.forced = heard.forced
      /\ \A u \in Utt : heard'.times[u] = heard.times[u]
  BY <1>1, ClosedHeard
<1> QED BY <1>3, <1>4, EndKept

LEMMA FinallyKept ==
    ASSUME IInv, NEW dogs \in 0..2, Finally(dogs), dogs = 0 \/ stt = "soniox", UNCHANGED stt
    PROVE  KeptBy
<1>1. /\ link \in Links /\ link.task = "drained"
      /\ link' = [link EXCEPT !.task = "done", !.ws = "none", !.pump = FALSE, !.beat = FALSE,
                              !.dogs = dogs]
  BY DEF IInv, TypeInv, Finally
<1>2. /\ link' \in Links /\ link'.task = "done" /\ link'.dogs = dogs /\ ~link'.pump
      /\ link'.ws = "none"
  BY <1>1 DEF Links
<1> QED BY <1>1, <1>2, ReportKept DEF Finally

LEMMA CleanUpKept ==
    ASSUME IInv, NEW on \in BOOLEAN, NEW packet \in BOOLEAN, CleanUp(on, packet), UNCHANGED stt
    PROVE  KeptBy
<1>1. /\ link \in Links /\ link.task \notin {"idle", "gone"} /\ heard \in Hearings
      /\ link' = [link EXCEPT !.task = "gone", !.on = on, !.ws = "none", !.pump = FALSE,
                              !.beat = FALSE, !.dogs = 0]
      /\ wire' = << >> /\ UNCHANGED <<turn, svc>>
  BY DEF IInv, TypeInv, CleanUp
<1>2. /\ link' \in Links /\ link'.task = "gone" /\ link'.dogs = 0 /\ ~link'.pump
      /\ link'.ws = "none"
  <2>1. link' \in Links
    BY <1>1, 0 \in 0..2 DEF Links
  <2> QED BY <1>1, <2>1 DEF Links
<1>3. CASE packet /\ link.task # "done"
  <2>1. heard' = Hear(heard, Closed)
    BY <1>3 DEF CleanUp
  <2> QED BY <1>1, <1>2, <1>3, <2>1, ReportKept
<1>4. CASE ~(packet /\ link.task # "done")
  <2>1. heard' = [heard EXCEPT !.hanging = FALSE]
    BY <1>4 DEF CleanUp
  <2>2. /\ heard' \in Hearings /\ heard'.closes = heard.closes /\ heard'.late = heard.late
        /\ heard'.forced = heard.forced /\ heard'.times = heard.times
    BY <1>1, <2>1 DEF Hearings
  <2>3. heard'.closes <= 1 \/ stt \in Twice
    BY <2>2 DEF IInv, ClosingInv
  <2> QED BY <1>1, <1>2, <2>2, <2>3, EndKept
<1> QED BY <1>3, <1>4

\* The ends without a finally block of this shape.
LEMMA OtherEndsKept ==
    ASSUME IInv, UNCHANGED stt,
           \/ stt = "gemini" /\ GeminiRefused
           \/ stt = "azure" /\ AzureSessionStopped
           \/ stt = "google" /\ GoogleStreamEnds
    PROVE  KeptBy
<1>1. link \in Links /\ \A e \in BOOLEAN : (link.error \/ e) \in BOOLEAN
  BY DEF IInv, TypeInv
<1>2. CASE stt = "gemini" /\ GeminiRefused
  <2>1. link' = [link EXCEPT !.task = "done", !.error = TRUE, !.dogs = 0]
    BY <1>2 DEF GeminiRefused
  <2>2. link' \in Links
    BY <1>1, <2>1, 0 \in 0..2 DEF Links
  <2>3. link'.task = "done" /\ link'.dogs = 0 /\ link'.ws = link.ws
    BY <1>1, <2>1 DEF Links
  <2> QED BY <1>2, <2>3, <2>2, ReportKept DEF GeminiRefused
<1>3. CASE stt = "azure" /\ AzureSessionStopped
  <2>1. link' = [link EXCEPT !.task = "done"] /\ link.dogs = 0
    BY <1>3 DEF AzureSessionStopped, IInv, WatchdogInv, Dogless
  <2>2. link' \in Links /\ link'.task = "done" /\ link'.dogs = 0 /\ link'.ws = link.ws
    BY <1>1, <2>1 DEF Links
  <2> QED BY <1>3, <2>2, ReportKept DEF AzureSessionStopped
<1>4. CASE stt = "google" /\ GoogleStreamEnds
  <2>1. PICK f \in BOOLEAN : link' = [link EXCEPT !.task = "done", !.ws = "none", !.error = f]
    BY <1>1, <1>4 DEF GoogleStreamEnds
  <2>2. link.dogs = 0 /\ link.task \in {"drained", "streaming"}
    BY <1>4 DEF GoogleStreamEnds, IInv, WatchdogInv, Dogless
  <2>3. link' \in Links /\ link'.task = "done" /\ link'.dogs = 0 /\ link'.ws = "none"
    BY <1>1, <2>1, <2>2 DEF Links
  <2> QED BY <1>4, <2>2, <2>3, ReportKept DEF GoogleStreamEnds
<1> QED BY <1>2, <1>3, <1>4

---------------------------------------------------------------------------
\* Dialing.
LEMMA OpenedKept ==
    ASSUME IInv, NEW beat \in BOOLEAN, NEW dog \in BOOLEAN, link.task = "dialing",
           Opened(beat, dog), UNCHANGED <<stt, wire, svc>>,
           dog => stt \notin Dogless /\ (stt = "gemini" => link.dogs = 0)
    PROVE  KeptBy
<1> DEFINE dogs == AtMost(2, link.dogs + (IF dog THEN 1 ELSE 0))
<1>1. link \in Links /\ link.dogs \in 0..2
  BY DEF IInv, TypeInv, Links
<1>2. /\ dogs \in 0..2 /\ (~dog => dogs = link.dogs) /\ (link.dogs = 0 => dogs <= 1)
  <2>1. \A n \in 0..2 : /\ AtMost(2, n + 0) = n /\ AtMost(2, n + 1) \in 0..2
                        /\ n = 0 => AtMost(2, n + 1) <= 1 /\ AtMost(2, n + 0) <= 1
    BY DEF AtMost
  <2> QED BY <1>1, <2>1
<1>3. link' = [link EXCEPT !.task = "streaming", !.ws = "open", !.pump = TRUE,
                           !.beat = beat, !.dogs = dogs]
  BY DEF Opened
<1> HIDE DEF dogs
<1>4. /\ link' \in Links /\ link'.task = "streaming" /\ link'.dogs = dogs
  <2>1. link' \in Links
    BY <1>1, <1>2, <1>3 DEF Links
  <2> QED BY <1>1, <1>3, <2>1 DEF Links
<1>5. UNCHANGED <<stt, turn, wire, svc, heard>>
  BY DEF Opened
<1>6. ClosingInv'
  BY <1>4, <1>5 DEF IInv, ClosingInv
<1>7. WatchdogInv'
  BY <1>1, <1>2, <1>4, <1>5 DEF IInv, WatchdogInv, Dogless
<1>8. PartingInv'
  BY <1>4, <1>5 DEF IInv, PartingInv
<1> QED BY <1>4, <1>5, <1>6, <1>7, <1>8, LinkStep

LEMMA RefusedKept ==
    ASSUME IInv, NEW error \in BOOLEAN, NEW packets \in 0..2, Refused(error, packets),
           UNCHANGED <<stt, wire, svc>>, packets <= 1 \/ stt \in Twice
    PROVE  KeptBy
<1>1. /\ link \in Links /\ heard \in Hearings
      /\ link' = [link EXCEPT !.task = "done", !.on = FALSE, !.error = error, !.pump = FALSE,
                              !.beat = FALSE, !.dogs = 0]
      /\ heard' = [heard EXCEPT !.closes = packets, !.hanging = FALSE] /\ turn' = turn
  BY DEF IInv, TypeInv, Refused
<1>2. link' \in Links
  BY <1>1, 0 \in 0..2 DEF Links
<1>3. link'.task = "done" /\ link'.dogs = 0 /\ ~link'.pump /\ link'.ws = link.ws
  BY <1>1 DEF Links
<1>4. /\ heard' \in Hearings /\ heard'.closes = packets /\ heard'.late = heard.late
      /\ heard'.forced = heard.forced /\ heard'.times = heard.times
  BY <1>1 DEF Hearings
<1> QED BY <1>1, <1>2, <1>3, <1>4, EndKept

LEMMA AgainKept ==
    ASSUME IInv, DialsAgain, link.tries < 2, UNCHANGED <<stt, wire, svc>>
    PROVE  KeptBy
<1> DEFINE n == link.tries + 1
<1>1. link \in Links /\ n \in 0..2 /\ link' = [link EXCEPT !.tries = n]
  BY DEF IInv, TypeInv, Links, DialsAgain
<1> HIDE DEF n
<1>2. link' \in Links
  BY <1>1 DEF Links
<1>3. link'.task = link.task /\ link'.dogs = link.dogs /\ link'.pump = link.pump
      /\ link'.ws = link.ws
  BY <1>1 DEF Links
<1> QED BY <1>2, <1>3, LinkKept DEF DialsAgain

LEMMA DialKept ==
    ASSUME IInv, NEW outcomes, NEW beat \in BOOLEAN, NEW dog \in BOOLEAN, NEW error \in BOOLEAN,
           NEW packets \in 0..2, Dial(outcomes, beat, dog, error, packets), UNCHANGED stt,
           "again" \in outcomes => link.tries < 2, packets <= 1 \/ stt \in Twice,
           dog => stt \notin Dogless /\ (stt = "gemini" => link.dogs = 0)
    PROVE  KeptBy
<1>1. /\ link.task = "dialing" /\ UNCHANGED <<stt, wire, svc>>
      /\ Opened(beat, dog) \/ (DialsAgain /\ link.tries < 2) \/ Refused(error, packets)
  BY DEF Dial
<1> QED BY <1>1, OpenedKept, AgainKept, RefusedKept

LEMMA OpensKept ==
    ASSUME IInv, AzureRun \/ GoogleRun \/ HttpConnects, UNCHANGED stt,
           stt \in {"azure", "google", "deepgramHttp", "assemblyaiHttp", "sarvamHttp"}
    PROVE  KeptBy
<1>1. CASE link.task = "dialing" /\ Opened(FALSE, FALSE) /\ UNCHANGED <<wire, svc>>
  BY <1>1, OpenedKept
<1>2. CASE /\ link.task = "dialing" /\ UNCHANGED <<turn, wire, svc>>
           /\ link' = [link EXCEPT !.task = "done", !.error = TRUE, !.pump = FALSE]
           /\ heard' = Hear(heard, Closed)
  <2>1. link \in Links /\ link.dogs = 0
    BY DEF IInv, TypeInv, WatchdogInv, Dogless
  <2>2. link' \in Links
    BY <1>2, <2>1 DEF Links
  <2>3. link'.task = "done" /\ link'.dogs = 0 /\ ~link'.pump /\ link'.ws = link.ws
    BY <1>2, <2>1 DEF Links
  <2> QED BY <1>2, <2>2, <2>3, ReportKept
<1> QED BY <1>1, <1>2 DEF AzureRun, GoogleRun, HttpConnects

---------------------------------------------------------------------------
\* Steps that give the listener words.
LEMMA UnmarkedKept ==
    ASSUME IInv, Base', stt' = stt, stt \notin Marked
    PROVE  KeptBy
BY DEF KeptBy, IInv, LateInv, Base, NotRepeated

\* While a run has not reported its end, words are never late.
LEMMA WordsHeard ==
    ASSUME heard \in Hearings, NEW says \in Packets, ~says.closed, heard.closes = 0
    PROVE  /\ Hear(heard, says) \in Hearings /\ Hear(heard, says).closes = 0
           /\ Hear(heard, says).late => heard.late
BY HearShape

LEMMA RotateKept ==
    ASSUME IInv, stt = "gemini", GeminiRotate, UNCHANGED stt
    PROVE  KeptBy
<1>1. /\ link \in Links /\ svc \in Services /\ heard \in Hearings /\ turn \in TurnStates
      /\ heard.closes = 0 /\ link.task = "drained"
  BY DEF IInv, TypeInv, GeminiRotate, ClosingInv
<1>2. /\ link' = [link EXCEPT !.task = "dialing", !.ws = "none", !.pump = FALSE]
      /\ svc' = [svc EXCEPT !.stage = "quiet"] /\ wire' = << >>
  BY DEF GeminiRotate
<1>3. link' \in Links /\ link'.task = "dialing" /\ link'.dogs = link.dogs
  BY <1>1, <1>2 DEF Links
<1>4. svc' \in Services /\ svc'.stage = "quiet"
  BY <1>1, <1>2 DEF Services
<1>5. /\ turn' \in TurnStates /\ heard' \in Hearings /\ heard'.closes = 0
      /\ heard'.late => heard.late
  <2> DEFINE says == Words(Forced(turn))
  <2>1. Forced(turn) \in SUBSET Utt /\ GeminiReset \in TurnStates
    BY <1>1, TurnsTyped DEF Forced, TurnStates, GeminiReset
  <2>2. says \in Packets /\ ~says.closed
    BY <2>1, SaysTyped
  <2>3. \/ turn' = GeminiReset /\ heard' = Hear(heard, says)
        \/ UNCHANGED <<turn, heard>>
    BY DEF GeminiRotate, GeminiFlush
  <2> HIDE DEF says
  <2>4. CASE turn' = GeminiReset /\ heard' = Hear(heard, says)
    BY <1>1, <2>1, <2>2, <2>4, WordsHeard
  <2> QED BY <1>1, <2>3, <2>4
<1>6. TypeInv'
  BY <1>2, <1>3, <1>4, <1>5 DEF IInv, TypeInv
<1>7. ClosingInv'
  BY <1>5 DEF IInv, ClosingInv
<1>8. WatchdogInv'
  BY <1>1, <1>3 DEF IInv, WatchdogInv, Dogless
<1>9. PartingInv'
  BY DEF PartingInv
<1> QED BY <1>6, <1>7, <1>8, <1>9, UnmarkedKept DEF Base, Marked

Http == {"deepgramHttp", "assemblyaiHttp", "sarvamHttp"}
LEMMA HttpKept ==
    ASSUME IInv, stt \in Http, UNCHANGED stt,
           HttpTranscript \/ HttpEndOfStream \/ SarvamHttpFails \/ HttpFails
    PROVE  KeptBy
<1>1. /\ link \in Links /\ svc \in Services /\ heard \in Hearings
      /\ svc.utt \in 0..MaxUtt /\ link.tries \in 0..2
      /\ link.task = "streaming" /\ heard.closes = 0
  BY DEF IInv, TypeInv, Links, Services, ClosingInv, HttpTranscript, HttpEndOfStream,
         SarvamHttpFails, HttpFails
<1>2. CASE HttpTranscript
  <2> DEFINE n == svc.utt + 1
             says == Words({n})
  <2>1. n \in Utt /\ n \in 0..MaxUtt
    BY <1>1, <1>2, TranscriberAssumption DEF HttpTranscript, Utt
  <2>2. says \in Packets /\ ~says.closed
    <3>1. {n} \in SUBSET Utt
      BY <2>1
    <3> QED BY <3>1, SaysTyped
  <2>3. /\ svc' = [svc EXCEPT !.utt = n] /\ heard' = Hear(heard, says)
        /\ link' = [link EXCEPT !.tries = 0] /\ UNCHANGED <<stt, turn, wire>>
    BY <1>2 DEF HttpTranscript
  <2> HIDE DEF n, says
  <2>4. svc' \in Services /\ svc'.utt \in Utt /\ svc'.bye = svc.bye
    BY <1>1, <2>1, <2>3 DEF Services
  <2>5. link' \in Links /\ link'.task = link.task /\ link'.dogs = link.dogs
    <3>1. link' \in Links
      BY <1>1, <2>3, 0 \in 0..2 DEF Links
    <3> QED BY <1>1, <2>3, <3>1 DEF Links
  <2>6. heard' \in Hearings /\ heard'.closes = 0 /\ (heard'.late => heard.late)
    BY <1>1, <2>2, <2>3, WordsHeard
  <2>7. TypeInv'
    BY <2>3, <2>4, <2>5, <2>6 DEF IInv, TypeInv, Messages
  <2>8. ClosingInv' /\ WatchdogInv'
    BY <2>3, <2>5, <2>6 DEF IInv, ClosingInv, WatchdogInv
  <2>9. PartingInv' /\ stt \notin Marked
    BY DEF PartingInv, Marked, Http
  <2> QED BY <2>7, <2>8, <2>9, UnmarkedKept DEF Base
<1>3. CASE HttpEndOfStream
  <2>1. link' = [link EXCEPT !.task = "drained", !.pump = FALSE, !.eos = TRUE]
    BY <1>3 DEF HttpEndOfStream
  <2>2. /\ link' \in Links /\ link'.task = "drained" /\ link'.dogs = link.dogs
        /\ ~link'.pump /\ link'.ws = link.ws
    BY <1>1, <2>1 DEF Links
  <2> QED BY <1>1, <1>3, <2>2, LinkKept DEF HttpEndOfStream
<1>4. CASE SarvamHttpFails
  <2> DEFINE n == IF link.tries = 2 THEN 2 ELSE link.tries + 1
  <2>1. n \in 0..2
    BY <1>1
  <2>2. link' = [link EXCEPT !.task = "drained"] \/ link' = [link EXCEPT !.tries = n]
    BY <1>4 DEF SarvamHttpFails
  <2> HIDE DEF n
  <2>3. link' \in Links
    BY <1>1, <2>1, <2>2 DEF Links
  <2>4. /\ link'.task \in {"drained", link.task} /\ link'.dogs = link.dogs
        /\ link'.pump = link.pump /\ link'.ws = link.ws
    BY <1>1, <2>2 DEF Links
  <2> QED BY <1>1, <1>4, <2>3, <2>4, LinkKept DEF SarvamHttpFails
<1>5. CASE HttpFails
  <2>1. link' = [link EXCEPT !.task = "drained", !.error = TRUE, !.on = FALSE]
    BY <1>5 DEF HttpFails
  <2>2. /\ link' \in Links /\ link'.task = "drained" /\ link'.dogs = link.dogs
        /\ link'.pump = link.pump /\ link'.ws = link.ws
    BY <1>1, <2>1 DEF Links
  <2> QED BY <1>1, <1>5, <2>2, LinkKept DEF HttpFails
<1> QED BY <1>2, <1>3, <1>4, <1>5

\* What a watchdog does to a turn it found stuck.
Released(ws, says, t) ==
    /\ link.dogs > 0 /\ turn' = t
    /\ heard' = [Hear(heard, says) EXCEPT !.forced = Hear(heard, says).forced \cup ws]
    /\ UNCHANGED <<stt, link, wire, svc>>

LEMMA ReleaseKept ==
    ASSUME IInv, NEW ws \in SUBSET Utt, NEW says \in Packets, NEW t \in TurnStates,
           Released(ws, says, t), ~says.closed,
           stt \in Marked => /\ ws \subseteq InTurn /\ says.words = ws
                             /\ t.final = {} /\ t.interim = {} /\ t.sent
    PROVE  KeptBy
<1> DEFINE h == Hear(heard, says)
<1>1. /\ link \in Links /\ heard \in Hearings /\ link.dogs > 0 /\ turn' = t
      /\ UNCHANGED <<stt, link, wire, svc>>
      /\ heard' = [h EXCEPT !.forced = h.forced \cup ws]
  BY DEF IInv, TypeInv, Released
<1>2. h \in Hearings /\ h.closes = heard.closes /\ h.forced = heard.forced
      /\ (h.late => heard.late \/ heard.closes > 0)
      /\ \A u \in Utt : u \notin says.words => h.times[u] = heard.times[u]
  BY <1>1, HearShape
<1> HIDE DEF h
<1>3. /\ heard' \in Hearings /\ heard'.closes = heard.closes
      /\ heard'.forced = heard.forced \cup ws /\ heard'.late = h.late /\ heard'.times = h.times
  BY <1>1, <1>2 DEF Hearings
<1>4. stt # "soniox" => heard.closes = 0
  <2>1. stt # "soniox" => link.task \in {"dialing", "streaming", "drained"} /\ stt \notin Dogless
    BY <1>1 DEF IInv, WatchdogInv, Links
  <2> QED BY <2>1 DEF IInv, ClosingInv, Dogless
<1>5. TypeInv'
  BY <1>1, <1>3 DEF IInv, TypeInv, Messages
<1>6. ClosingInv'
  <2>1. stt # "soniox" => ~heard'.late
    BY <1>2, <1>3, <1>4 DEF IInv, ClosingInv
  <2> QED BY <1>1, <1>3, <2>1 DEF IInv, ClosingInv
<1>7. WatchdogInv' /\ PartingInv'
  BY <1>1 DEF IInv, WatchdogInv, PartingInv
<1>8. ASSUME stt \in Marked
      PROVE  OrderInv' /\ ForcedInv' /\ \A u \in heard.forced : heard'.times[u] <= heard.times[u]
  <2>1. OrderInv /\ ForcedInv
    BY <1>8 DEF IInv, LateInv
  <2>2. ws \subseteq InTurn /\ InTurn' = {} /\ turn'.sent
    BY <1>1, <1>8 DEF InTurn
  <2>3. OrderInv'
    BY <1>1, <1>3, <2>1, <2>2 DEF OrderInv
  <2>4. ForcedInv'
    BY <2>2 DEF ForcedInv
  <2>5. \A u \in heard.forced : heard'.times[u] <= heard.times[u]
    <3>1. \A u \in heard.forced : u \in Utt /\ u \notin says.words /\ heard.times[u] \in 0..2
      BY <1>1, <1>8, <2>1, <2>2 DEF ForcedInv, Hearings
    <3> QED BY <1>2, <1>3, <3>1
  <2> QED BY <2>3, <2>4, <2>5
<1> QED BY <1>1, <1>5, <1>6, <1>7, <1>8 DEF KeptBy, IInv, LateInv, NotRepeated

---------------------------------------------------------------------------
\* One message, whatever the receiver made of it.
Took(m, r, heeds) ==
    LET off == heeds /\ ~link.on /\ r.says # Silent
        h == IF off THEN heard ELSE Hear(heard, r.says)
    IN /\ turn' = r.turn
       /\ heard' = IF r.says.interim THEN [h EXCEPT !.forced = h.forced \ {m.utt}] ELSE h
       /\ link' = [link EXCEPT !.task = IF r.stop \/ off THEN "drained" ELSE link.task,
                               !.error = link.error \/ r.error]

\* What Flux and ElevenLabs make of a message: its words join the turn as an interim
\* that takes back the watchdog's mark, and go out only when the turn was not sent.
MarkedResult(r, m) ==
    stt \in Marked =>
        /\ r.turn.final \cup r.turn.interim \subseteq InTurn \cup {m.utt}
        /\ ~r.says.interim => r.turn.final \cup r.turn.interim \subseteq InTurn
        /\ turn.sent => r.turn.sent \/ r.says.interim
        /\ r.says.words \subseteq {m.utt}
        /\ r.says.words # {} => ~turn.sent

LEMMA TookTyped ==
    ASSUME IInv, NEW m, NEW r, NEW heeds \in BOOLEAN, GoodResult(r, m), Took(m, r, heeds),
           link.task = "streaming", UNCHANGED <<stt, svc>>, wire' \in Seq(Messages(stt)),
           \A i \in 1..Len(wire') : wire'[i].kind = "last" => \E j \in 1..Len(wire) : wire[j].kind = "last",
           m.kind = "last" => \E j \in 1..Len(wire) : wire[j].kind = "last"
    PROVE  Base'
<1> DEFINE off == heeds /\ ~link.on /\ r.says # Silent
           h == IF off THEN heard ELSE Hear(heard, r.says)
           error == link.error \/ r.error
           task == IF r.stop \/ off THEN "drained" ELSE link.task
<1>1. /\ link \in Links /\ heard \in Hearings /\ heard.closes = 0 /\ r \in Results
      /\ r.turn \in TurnStates /\ r.says \in Packets /\ svc \in Services
  BY DEF IInv, TypeInv, ClosingInv, GoodResult, Results
<1>2. /\ turn' = r.turn /\ link' = [link EXCEPT !.task = task, !.error = error]
      /\ heard' = IF r.says.interim THEN [h EXCEPT !.forced = h.forced \ {m.utt}] ELSE h
  BY DEF Took
<1>3. task \in {"drained", "streaming"} /\ error \in BOOLEAN /\ (r.stop => task = "drained")
  OBVIOUS
<1>4. /\ h \in Hearings /\ (h.late => heard.late) /\ (~r.says.closed => h.closes = 0)
      /\ h.closes <= 1
  <2>1. AtMost(2, 0 + 1) = 1
    BY DEF AtMost
  <2>2. /\ Hear(heard, r.says) \in Hearings
        /\ Hear(heard, r.says).closes = IF r.says.closed THEN AtMost(2, heard.closes + 1)
                                        ELSE heard.closes
        /\ Hear(heard, r.says).late => heard.late \/ (r.says.words # {} /\ heard.closes > 0)
    BY <1>1, HearShape
  <2>3. CASE off
    BY <1>1, <2>3
  <2>4. CASE ~off
    BY <1>1, <2>1, <2>2, <2>4
  <2> QED BY <2>3, <2>4
<1> HIDE DEF off, h, error, task
<1>5. /\ heard' \in Hearings /\ heard'.closes = h.closes /\ (heard'.late => heard.late)
  <2>1. h.forced \ {m.utt} \in SUBSET Utt
    BY <1>4 DEF Hearings
  <2> QED BY <1>2, <1>4, <2>1 DEF Hearings
<1>6. /\ link' \in Links /\ link'.task = task /\ link'.dogs = link.dogs
      /\ link'.pump = link.pump /\ link'.ws = link.ws
  BY <1>1, <1>2, <1>3 DEF Links
<1>7. TypeInv'
  BY <1>1, <1>2, <1>5, <1>6 DEF IInv, TypeInv, Messages
<1>8. stt \in {"smallest", "gladia"} => m.kind # "last" /\ ~r.says.closed
  BY DEF IInv, PartingInv, GoodResult
<1>9. ClosingInv'
  <2>1. r.says.closed => task = "drained" /\ stt \in {"sarvam", "assemblyai"}
    BY <1>3, <1>8 DEF GoodResult
  <2>2. heard'.closes # 0 => r.says.closed
    BY <1>4, <1>5
  <2>3. heard'.closes <= 1
    BY <1>4, <1>5
  <2> QED BY <1>5, <1>6, <2>1, <2>2, <2>3 DEF IInv, ClosingInv, Twice
<1>10. WatchdogInv'
  BY <1>3, <1>6 DEF IInv, WatchdogInv, Dogless
<1>11. PartingInv'
  BY <1>3, <1>6 DEF IInv, PartingInv
<1> QED BY <1>7, <1>9, <1>10, <1>11 DEF Base

LEMMA TookOrdered ==
    ASSUME IInv, stt \in Marked, NEW m, m = Head(wire), wire # << >>, NEW r,
           NEW heeds \in BOOLEAN, GoodResult(r, m), MarkedResult(r, m), Took(m, r, heeds),
           wire' = Tail(wire), UNCHANGED <<stt, svc>>
    PROVE  OrderInv' /\ ForcedInv' /\ \A u \in heard.forced : heard'.times[u] <= heard.times[u]
<1> DEFINE off == heeds /\ ~link.on /\ r.says # Silent
           h == IF off THEN heard ELSE Hear(heard, r.says)
<1>1. /\ OrderInv /\ ForcedInv /\ heard \in Hearings /\ r.says \in Packets
      /\ wire \in Seq(Messages(stt)) /\ heard.forced \in SUBSET Utt
  BY DEF IInv, TypeInv, LateInv, GoodResult, Results, Hearings
<1>2. /\ turn' = r.turn
      /\ heard' = IF r.says.interim THEN [h EXCEPT !.forced = h.forced \ {m.utt}] ELSE h
  BY DEF Took
<1>3. /\ h \in Hearings /\ h.forced = heard.forced
      /\ \A u \in Utt : u \notin r.says.words => h.times[u] = heard.times[u]
  BY <1>1, HearShape
<1> HIDE DEF off, h
<1>4. /\ heard'.forced = IF r.says.interim THEN heard.forced \ {m.utt} ELSE heard.forced
      /\ heard'.times = h.times
  BY <1>2, <1>3 DEF Hearings
<1>5. /\ Len(wire) \in Nat \ {0} /\ Len(wire') = Len(wire) - 1 /\ m = wire[1]
      /\ \A i \in 1..Len(wire') : i + 1 \in 1..Len(wire) /\ wire'[i] = wire[i + 1]
  <2> HIDE DEF Messages
  <2> QED BY <1>1
<1>6. /\ svc.utt \in Int /\ InTurn \cup heard.forced \subseteq Int /\ m.utt \in Int
      /\ \A i \in 1..Len(wire) : wire[i].utt \in Int
  <2>1. \A i \in 1..Len(wire) : wire[i].utt \in Int
    BY <1>1, TranscriberAssumption DEF Messages
  <2> QED BY <1>5, <2>1, TranscriberAssumption
          DEF IInv, TypeInv, Services, InTurn, TurnStates, Hearings, Utt
<1>7. /\ m.utt <= svc.utt /\ \A i \in 1..Len(wire') : m.utt <= wire'[i].utt
  BY <1>1, <1>5, <1>6 DEF OrderInv
<1>8. InTurn' \subseteq InTurn \cup {m.utt} /\ (~r.says.interim => InTurn' \subseteq InTurn)
  BY <1>2 DEF MarkedResult, InTurn
<1>9. OrderInv'
  <2>1. /\ \A i, j \in 1..Len(wire') : i <= j => wire'[i].utt <= wire'[j].utt
        /\ \A i \in 1..Len(wire') : wire'[i].utt <= svc'.utt
    BY <1>1, <1>5, <1>6 DEF OrderInv
  <2>2. \A u \in InTurn \cup heard.forced :
            u <= svc'.utt /\ \A i \in 1..Len(wire') : u <= wire'[i].utt
    BY <1>1, <1>5, <1>6 DEF OrderInv
  <2>3. heard'.forced \subseteq heard.forced
    BY <1>4
  <2> QED BY <1>7, <1>8, <2>1, <2>2, <2>3 DEF OrderInv
<1>10. \A u \in heard.forced : u <= m.utt
  BY <1>1, <1>5 DEF OrderInv
<1>11. ForcedInv'
  <2> SUFFICES ASSUME NEW u \in heard'.forced
               PROVE  u \notin InTurn' /\ (turn'.sent \/ Past(u)')
    BY DEF ForcedInv
  <2>1. u \in heard.forced /\ u \notin InTurn /\ (turn.sent \/ Past(u))
        /\ (r.says.interim => u # m.utt) /\ u \in Int
    BY <1>1, <1>4, <1>6 DEF ForcedInv
  <2>2. u \notin InTurn'
    BY <1>8, <2>1
  <2>3. CASE Past(u)
    BY <1>5, <1>6, <2>1, <2>2, <2>3 DEF Past
  <2>4. CASE turn.sent
    <3>1. CASE r.turn.sent
      BY <1>2, <2>2, <3>1
    <3>2. CASE r.says.interim
      <4>1. u < m.utt
        BY <1>6, <1>10, <2>1, <3>2
      <4>2. svc'.utt > u /\ \A i \in 1..Len(wire') : wire'[i].utt > u
        BY <1>5, <1>6, <1>7, <2>1, <4>1
      <4> QED BY <2>2, <4>2 DEF Past
    <3>3. r.turn.sent \/ r.says.interim
      BY <2>4 DEF MarkedResult
    <3> QED BY <3>1, <3>2, <3>3
  <2> QED BY <2>1, <2>3, <2>4
<1>12. \A u \in heard.forced : heard'.times[u] <= heard.times[u]
  <2>1. ASSUME NEW u \in heard.forced, u \in r.says.words PROVE FALSE
    <3>1. u = m.utt /\ ~turn.sent
      BY <2>1 DEF MarkedResult
    <3>2. Past(u)
      BY <1>1, <3>1 DEF ForcedInv
    <3>3. wire[1].utt > u
      BY <1>5, <3>2 DEF Past
    <3> QED BY <1>5, <1>6, <3>1, <3>3
  <2>2. \A u \in heard.forced : u \in Utt /\ heard.times[u] \in 0..2
    BY <1>1 DEF Hearings
  <2> QED BY <1>3, <1>4, <2>1, <2>2
<1> QED BY <1>9, <1>11, <1>12

LEMMA TookKept ==
    ASSUME IInv, link.task = "streaming", wire # << >>, NEW r, NEW heeds \in BOOLEAN,
           GoodResult(r, Head(wire)), MarkedResult(r, Head(wire)), Took(Head(wire), r, heeds),
           wire' = Tail(wire), UNCHANGED <<stt, svc>>
    PROVE  KeptBy
<1> DEFINE m == Head(wire)
<1>1. /\ Len(wire) \in Nat \ {0} /\ m = wire[1] /\ wire' \in Seq(Messages(stt))
      /\ \A i \in 1..Len(wire') : i + 1 \in 1..Len(wire) /\ wire'[i] = wire[i + 1]
  <2>1. wire \in Seq(Messages(stt))
    BY DEF IInv, TypeInv
  <2> HIDE DEF Messages
  <2> QED BY <2>1
<1>2. 1 \in 1..Len(wire)
  BY <1>1
<1>3. /\ m.kind = "last" => \E j \in 1..Len(wire) : wire[j].kind = "last"
      /\ \A i \in 1..Len(wire') : wire'[i].kind = "last" => \E j \in 1..Len(wire) : wire[j].kind = "last"
  BY <1>1, <1>2
<1>4. Base'
  BY <1>1, <1>3, TookTyped
<1>5. CASE stt \in Marked
  BY <1>4, <1>5, TookOrdered DEF KeptBy, Base, IInv, LateInv, NotRepeated
<1>6. CASE stt \notin Marked
  BY <1>4, <1>6, UnmarkedKept
<1> QED BY <1>5, <1>6

\* The two receivers the late end of a turn matters for.
LEMMA FluxMarked ==
    ASSUME turn \in TurnStates, NEW m
    PROVE  MarkedResult(FluxReceiver(m), m)
<1>1. \A t, says : Result(t, says).turn = t /\ Result(t, says).says = says
  BY DEF Result
<1>2. /\ Silent.words = {} /\ Interim.words = {} /\ Words({m.utt}).words = {m.utt} /\ Interim.interim
      /\ DeepgramReset.final = {} /\ DeepgramReset.interim = {} /\ DeepgramReset.sent
  BY SaysTyped, TurnsTyped DEF Words, Silent
<1>3. CASE m.kind = "started"
  <2> DEFINE t == [turn EXCEPT !.open = TRUE, !.interim = {m.utt}, !.sent = FALSE, !.final = {},
                               !.clock = TRUE]
  <2>1. FluxReceiver(m) = Result(t, Interim)
    BY <1>3 DEF FluxReceiver, FluxStartOfTurn
  <2>2. t.final = {} /\ t.interim = {m.utt}
    BY DEF TurnStates
  <2> HIDE DEF t
  <2> QED BY <1>1, <1>2, <2>1, <2>2 DEF MarkedResult
<1>4. CASE m.kind = "partial"
  <2> DEFINE t == [turn EXCEPT !.interim = {m.utt}, !.clock = TRUE]
  <2>1. FluxReceiver(m) = Result(t, Interim)
    BY <1>4 DEF FluxReceiver, FluxUpdate
  <2>2. t.final = turn.final /\ t.interim = {m.utt}
    BY DEF TurnStates
  <2> HIDE DEF t
  <2> QED BY <1>1, <1>2, <2>1, <2>2 DEF MarkedResult, InTurn
<1>5. CASE m.kind \in {"eager", "resumed"}
  <2> DEFINE eager == [turn EXCEPT !.flag = TRUE, !.clock = TRUE]
             resumed == [turn EXCEPT !.flag = FALSE]
             Alike(t) == /\ t.final = turn.final /\ t.interim = turn.interim
                         /\ t.sent = turn.sent
  <2>0. /\ Alike(eager) /\ Alike(resumed)
        /\ FluxReceiver(m) = Result(eager, Silent) \/ FluxReceiver(m) = Result(resumed, Silent)
    BY <1>5 DEF FluxReceiver, FluxEager, TurnStates
  <2> HIDE DEF eager, resumed
  <2>1. PICK t : FluxReceiver(m) = Result(t, Silent) /\ Alike(t)
    BY <2>0
  <2> QED BY <1>1, <1>2, <2>1 DEF MarkedResult, InTurn
<1>6. CASE m.kind \notin {"started", "partial", "eager", "resumed"}
  <2>1. \/ FluxReceiver(m) = Result(DeepgramReset, Silent)
        \/ ~turn.sent /\ FluxReceiver(m) = Result(DeepgramReset, Words({m.utt}))
    BY <1>6 DEF FluxReceiver, FluxEndOfTurn
  <2> QED BY <1>1, <1>2, <2>1 DEF MarkedResult
<1> QED BY <1>3, <1>4, <1>5, <1>6

LEMMA ElevenLabsMarked ==
    ASSUME turn \in TurnStates, NEW m
    PROVE  MarkedResult(ElevenLabsReceiver(m), m)
<1>1. \A t, says : /\ Result(t, says).turn = t /\ Result(t, says).says = says
                   /\ Stop(t, says).turn = t /\ Stop(t, says).says = says
  BY DEF Result, Stop
<1>2. /\ Silent.words = {} /\ Interim.words = {} /\ Words({m.utt}).words = {m.utt} /\ Interim.interim
      /\ NoTurn.final = {} /\ NoTurn.interim = {}
  BY SaysTyped, TurnsTyped DEF Words, Silent
<1>3. CASE m.kind = "partial"
  <2> DEFINE t == [turn EXCEPT !.open = TRUE, !.interim = {m.utt}, !.clock = TRUE,
                               !.final = {m.utt}, !.sent = FALSE]
  <2>1. ElevenLabsReceiver(m) = Result(t, Interim)
    BY <1>3 DEF ElevenLabsReceiver, ElevenLabsPartial
  <2>2. t.final = {m.utt} /\ t.interim = {m.utt}
    BY DEF TurnStates
  <2> HIDE DEF t
  <2> QED BY <1>1, <1>2, <2>1, <2>2 DEF MarkedResult
<1>4. CASE m.kind # "partial"
  <2>1. \/ ElevenLabsReceiver(m) = Result(turn, Silent)
        \/ ElevenLabsReceiver(m) = Stop(turn, Silent)
        \/ ~turn.sent /\ ElevenLabsReceiver(m) = Result(NoTurn, Words({m.utt}))
    BY <1>4 DEF ElevenLabsReceiver, ElevenLabsCommitted, ElevenLabsReset
  <2> QED BY <1>1, <1>2, <2>1 DEF MarkedResult, InTurn
<1> QED BY <1>3, <1>4

\* Every receiver's message.
Reads(r, heeds) ==
    /\ link.task = "streaming" /\ wire # << >> /\ Took(Head(wire), r, heeds)
    /\ wire' = Tail(wire) /\ svc' = svc

LEMMA ReceivesKept ==
    ASSUME IInv, UNCHANGED stt,
           \/ stt = "nova" /\ Receive(NovaReceiver)
           \/ stt = "flux" /\ Receive(FluxReceiver)
           \/ stt = "soniox" /\ Receive(SonioxReceiver)
           \/ stt = "gemini" /\ Receive(GeminiReceiver)
           \/ stt = "elevenlabs" /\ Receive(ElevenLabsReceiver)
           \/ stt = "pixa" /\ Receive(PixaReceiver)
           \/ stt = "sarvam" /\ Receive(SarvamReceiver)
           \/ stt = "assemblyai" /\ Receive(AssemblyAIReceiver)
           \/ stt = "smallest" /\ Receive(SmallestReceiver)
           \/ stt = "gladia" /\ Receive(GladiaReceiver)
           \/ stt = "openai" /\ Receive(OpenAIReceiver)
           \/ stt = "azure" /\ Take(AzureReceiver, FALSE)
           \/ stt = "google" /\ Receive(GoogleReceiver)
    PROVE  KeptBy
<1> DEFINE m == Head(wire)
<1>1. turn \in TurnStates /\ (wire # << >> => MessageKinds(m))
  <2>1. wire \in Seq(Messages(stt)) /\ turn \in TurnStates
    BY DEF IInv, TypeInv
  <2>2. wire # << >> => m \in Messages(stt)
    <3> HIDE DEF Messages
    <3> QED BY <2>1
  <2> QED BY <2>1, <2>2 DEF MessageKinds, Messages
<1>2. CASE stt = "nova" /\ Receive(NovaReceiver)
  <2>1. Reads(NovaReceiver(m), TRUE)
    BY <1>2 DEF Receive, Take, Took, Reads
  <2> QED BY <1>1, <1>2, <2>1, NovaTyped, TookKept DEF Reads, MarkedResult, Marked
<1>3. CASE stt = "flux" /\ Receive(FluxReceiver)
  <2>1. Reads(FluxReceiver(m), TRUE)
    BY <1>3 DEF Receive, Take, Took, Reads
  <2> QED BY <1>1, <1>3, <2>1, FluxTyped, FluxMarked, TookKept DEF Reads
<1>4. CASE stt = "soniox" /\ Receive(SonioxReceiver)
  <2>1. Reads(SonioxReceiver(m), TRUE)
    BY <1>4 DEF Receive, Take, Took, Reads
  <2> QED BY <1>1, <1>4, <2>1, SonioxTyped, TookKept DEF Reads, MarkedResult, Marked
<1>5. CASE stt = "gemini" /\ Receive(GeminiReceiver)
  <2>1. Reads(GeminiReceiver(m), TRUE)
    BY <1>5 DEF Receive, Take, Took, Reads
  <2> QED BY <1>1, <1>5, <2>1, GeminiTyped, TookKept DEF Reads, MarkedResult, Marked
<1>6. CASE stt = "elevenlabs" /\ Receive(ElevenLabsReceiver)
  <2>1. Reads(ElevenLabsReceiver(m), TRUE)
    BY <1>6 DEF Receive, Take, Took, Reads
  <2> QED BY <1>1, <1>6, <2>1, ElevenLabsTyped, ElevenLabsMarked, TookKept DEF Reads
<1>7. CASE stt = "pixa" /\ Receive(PixaReceiver)
  <2>1. Reads(PixaReceiver(m), TRUE)
    BY <1>7 DEF Receive, Take, Took, Reads
  <2> QED BY <1>1, <1>7, <2>1, PixaTyped, TookKept DEF Reads, MarkedResult, Marked
<1>8. CASE stt = "sarvam" /\ Receive(SarvamReceiver)
  <2>1. Reads(SarvamReceiver(m), TRUE)
    BY <1>8 DEF Receive, Take, Took, Reads
  <2> QED BY <1>1, <1>8, <2>1, SarvamTyped, TookKept DEF Reads, MarkedResult, Marked
<1>9. CASE stt = "assemblyai" /\ Receive(AssemblyAIReceiver)
  <2>1. Reads(AssemblyAIReceiver(m), TRUE)
    BY <1>9 DEF Receive, Take, Took, Reads
  <2> QED BY <1>1, <1>9, <2>1, AssemblyAITyped, TookKept DEF Reads, MarkedResult, Marked
<1>10. CASE stt = "smallest" /\ Receive(SmallestReceiver)
  <2>1. Reads(SmallestReceiver(m), TRUE)
    BY <1>10 DEF Receive, Take, Took, Reads
  <2> QED BY <1>1, <1>10, <2>1, SmallestTyped, TookKept DEF Reads, MarkedResult, Marked
<1>11. CASE stt = "gladia" /\ Receive(GladiaReceiver)
  <2>1. Reads(GladiaReceiver(m), TRUE)
    BY <1>11 DEF Receive, Take, Took, Reads
  <2> QED BY <1>1, <1>11, <2>1, GladiaTyped, TookKept DEF Reads, MarkedResult, Marked
<1>12. CASE stt = "openai" /\ Receive(OpenAIReceiver)
  <2>1. Reads(OpenAIReceiver(m), TRUE)
    BY <1>12 DEF Receive, Take, Took, Reads
  <2> QED BY <1>1, <1>12, <2>1, OpenAITyped, TookKept DEF Reads, MarkedResult, Marked
<1>13. CASE stt = "azure" /\ Take(AzureReceiver, FALSE)
  <2>1. Reads(AzureReceiver(m), FALSE)
    BY <1>13 DEF Receive, Take, Took, Reads
  <2> QED BY <1>1, <1>13, <2>1, SdkTyped, TookKept DEF Reads, MarkedResult, Marked
<1>14. CASE stt = "google" /\ Receive(GoogleReceiver)
  <2>1. Reads(GoogleReceiver(m), TRUE)
    BY <1>14 DEF Receive, Take, Took, Reads
  <2> QED BY <1>1, <1>14, <2>1, SdkTyped, TookKept DEF Reads, MarkedResult, Marked
<1> QED BY <1>2, <1>3, <1>4, <1>5, <1>6, <1>7, <1>8, <1>9, <1>10, <1>11, <1>12, <1>13, <1>14

---------------------------------------------------------------------------
\* The providers' coroutines, one by one.
LEMMA Fields ==
    ASSUME IInv
    PROVE  /\ link.error \in BOOLEAN /\ link.on \in BOOLEAN /\ link.dogs \in 0..2
           /\ 0 \in 0..2 /\ 1 \in 0..2 /\ 2 \in 0..2
           /\ (link.dogs = 0) \in BOOLEAN /\ (link.task # "dialing") \in BOOLEAN
           /\ TRUE \in BOOLEAN /\ FALSE \in BOOLEAN /\ 1 <= 1
<1>1. link \in Links
  BY DEF IInv, TypeInv
<1>2. link.error \in BOOLEAN /\ link.on \in BOOLEAN /\ link.dogs \in 0..2
  BY <1>1 DEF Links
<1>3. 0 \in 0..2 /\ 1 \in 0..2 /\ 2 \in 0..2
  OBVIOUS
<1> QED BY <1>2, <1>3

LEMMA DialsKept ==
    ASSUME IInv, UNCHANGED stt,
           \/ stt = "nova" /\ Dial(DeepgramConnect, TRUE, TRUE, TRUE, 1)
           \/ stt = "flux" /\ Dial(DeepgramConnect, TRUE, TRUE, TRUE, 1)
           \/ stt = "soniox" /\ Dial(SonioxConnect, FALSE, TRUE, TRUE, 1)
           \/ stt = "elevenlabs" /\ Dial(ElevenLabsConnect, FALSE, TRUE, link.error, 1)
           \/ stt = "pixa" /\ Dial(PixaConnect, TRUE, TRUE, link.error, 1)
           \/ stt = "gemini" /\ Dial({"open"}, FALSE, link.dogs = 0, TRUE, 1)
           \/ stt = "sarvam" /\ Dial(SarvamConnect, TRUE, FALSE, TRUE, 1)
           \/ stt = "assemblyai" /\ Dial(AssemblyAIConnect, TRUE, FALSE, link.error, 1)
           \/ stt = "smallest" /\ Dial(SmallestConnect, TRUE, TRUE, link.error, 1)
           \/ stt = "gladia" /\ Dial(GladiaConnect, TRUE, TRUE, FALSE, 1)
           \/ stt = "openai" /\ Dial(OpenAIConnect, TRUE, TRUE, TRUE, 2)
    PROVE  KeptBy
<1>1. CASE stt = "nova" /\ Dial(DeepgramConnect, TRUE, TRUE, TRUE, 1)
  <2>1. "again" \in DeepgramConnect => link.tries < 2
    BY DEF DeepgramConnect
  <2>2. TRUE => stt \notin Dogless /\ (stt = "gemini" => link.dogs = 0)
    BY <1>1 DEF Dogless
  <2> QED BY <1>1, <2>1, <2>2, Fields, DialKept, Zenon
<1>2. CASE stt = "flux" /\ Dial(DeepgramConnect, TRUE, TRUE, TRUE, 1)
  <2>1. "again" \in DeepgramConnect => link.tries < 2
    BY DEF DeepgramConnect
  <2>2. TRUE => stt \notin Dogless /\ (stt = "gemini" => link.dogs = 0)
    BY <1>2 DEF Dogless
  <2> QED BY <1>2, <2>1, <2>2, Fields, DialKept, Zenon
<1>3. CASE stt = "soniox" /\ Dial(SonioxConnect, FALSE, TRUE, TRUE, 1)
  <2>1. "again" \in SonioxConnect => link.tries < 2
    BY DEF SonioxConnect
  <2>2. TRUE => stt \notin Dogless /\ (stt = "gemini" => link.dogs = 0)
    BY <1>3 DEF Dogless
  <2> QED BY <1>3, <2>1, <2>2, Fields, DialKept, Zenon
<1>4. CASE stt = "elevenlabs" /\ Dial(ElevenLabsConnect, FALSE, TRUE, link.error, 1)
  <2>1. "again" \in ElevenLabsConnect => link.tries < 2
    BY DEF ElevenLabsConnect
  <2>2. TRUE => stt \notin Dogless /\ (stt = "gemini" => link.dogs = 0)
    BY <1>4 DEF Dogless
  <2> QED BY <1>4, <2>1, <2>2, Fields, DialKept, Zenon
<1>5. CASE stt = "pixa" /\ Dial(PixaConnect, TRUE, TRUE, link.error, 1)
  <2>1. "again" \in PixaConnect => link.tries < 2
    BY DEF PixaConnect
  <2>2. TRUE => stt \notin Dogless /\ (stt = "gemini" => link.dogs = 0)
    BY <1>5 DEF Dogless
  <2> QED BY <1>5, <2>1, <2>2, Fields, DialKept, Zenon
<1>6. CASE stt = "gemini" /\ Dial({"open"}, FALSE, link.dogs = 0, TRUE, 1)
  BY <1>6, Fields, DialKept DEF Dogless
<1>7. CASE stt = "sarvam" /\ Dial(SarvamConnect, TRUE, FALSE, TRUE, 1)
  <2>1. "again" \in SarvamConnect => link.tries < 2
    BY DEF SarvamConnect, ThreeTries
  <2>2. 1 <= 1 \/ stt \in Twice
    BY <1>7 DEF Dogless
  <2> QED BY <1>7, <2>1, <2>2, Fields, DialKept, Zenon
<1>8. CASE stt = "assemblyai" /\ Dial(AssemblyAIConnect, TRUE, FALSE, link.error, 1)
  <2>1. "again" \in AssemblyAIConnect => link.tries < 2
    BY DEF AssemblyAIConnect
  <2>2. 1 <= 1 \/ stt \in Twice
    BY <1>8 DEF Dogless
  <2> QED BY <1>8, <2>1, <2>2, Fields, DialKept, Zenon
<1>9. CASE stt = "smallest" /\ Dial(SmallestConnect, TRUE, TRUE, link.error, 1)
  <2>1. "again" \in SmallestConnect => link.tries < 2
    BY DEF SmallestConnect, ThreeTries
  <2>2. TRUE => stt \notin Dogless /\ (stt = "gemini" => link.dogs = 0)
    BY <1>9 DEF Dogless
  <2> QED BY <1>9, <2>1, <2>2, Fields, DialKept, Zenon
<1>10. CASE stt = "gladia" /\ Dial(GladiaConnect, TRUE, TRUE, FALSE, 1)
  <2>1. "again" \in GladiaConnect => link.tries < 2
    BY DEF GladiaConnect, ThreeTries
  <2>2. TRUE => stt \notin Dogless /\ (stt = "gemini" => link.dogs = 0)
    BY <1>10 DEF Dogless
  <2> QED BY <1>10, <2>1, <2>2, Fields, DialKept, Zenon
<1>11. CASE stt = "openai" /\ Dial(OpenAIConnect, TRUE, TRUE, TRUE, 2)
  <2>1. "again" \in OpenAIConnect => link.tries < 2
    BY DEF OpenAIConnect
  <2>2. TRUE => stt \notin Dogless /\ (stt = "gemini" => link.dogs = 0)
    BY <1>11 DEF Dogless
  <2>3. 2 <= 1 \/ stt \in Twice
    BY <1>11 DEF Twice
  <2> QED BY <1>11, <2>1, <2>2, <2>3, Fields, DialKept, Zenon
<1> QED BY <1>1, <1>2, <1>3, <1>4, <1>5, <1>6, <1>7, <1>8, <1>9, <1>10, <1>11

LEMMA WatchdogsKept ==
    ASSUME IInv, TurnWatchdog \/ SessionWatchdog
    PROVE  KeptBy
<1>1. turn \in TurnStates /\ turn.final \in SUBSET Utt /\ turn.interim \in SUBSET Utt
  BY DEF IInv, TypeInv, TurnStates
<1>2. Forced(turn) \in SUBSET Utt /\ Forced(turn) \subseteq InTurn
  BY <1>1 DEF Forced, InTurn
<1>3. /\ \A ws \in SUBSET Utt : Words(ws) \in Packets /\ ~Words(ws).closed /\ Words(ws).words = ws
      /\ Ended \in Packets /\ ~Ended.closed /\ Ended.words = {}
      /\ Silent \in Packets /\ ~Silent.closed
      /\ {} \in SUBSET Utt
  BY SaysTyped
<1>4. CASE NovaWatchdog
  <2>1. Released(Forced(turn), Words(Forced(turn)), DeepgramReset) /\ stt \notin Marked
    BY <1>4 DEF NovaWatchdog, NovaForce, Release, Released, Marked
  <2> QED BY <1>2, <1>3, <2>1, TurnsTyped, ReleaseKept
<1>5. CASE FluxWatchdog
  <2>1. \/ Released(Forced(turn), Words(Forced(turn)), DeepgramReset)
        \/ Released({}, Ended, DeepgramReset)
    BY <1>5 DEF FluxWatchdog, FluxRelease, Release, Released
  <2> QED BY <1>2, <1>3, <2>1, TurnsTyped, ReleaseKept
<1>6. CASE SonioxWatchdog
  <2>1. Released(Forced(turn), Words(Forced(turn)), SonioxReset) /\ stt \notin Marked
    BY <1>6 DEF SonioxWatchdog, Release, Released, Marked
  <2>2. SonioxReset \in TurnStates
    BY TurnsTyped DEF SonioxReset
  <2> QED BY <1>2, <1>3, <2>1, <2>2, ReleaseKept
<1>7. CASE GeminiWatchdog
  <2>1. Released(Forced(turn), Words(Forced(turn)), GeminiReset) /\ stt \notin Marked
    BY <1>7 DEF GeminiWatchdog, Release, Released, Marked
  <2>2. GeminiReset \in TurnStates
    BY TurnsTyped DEF GeminiReset
  <2> QED BY <1>2, <1>3, <2>1, <2>2, ReleaseKept
<1>8. CASE ElevenLabsWatchdog
  <2> DEFINE t == [NoTurn EXCEPT !.sent = TRUE]
  <2>1. Released(Forced(turn), Words(Forced(turn)), t)
    BY <1>8 DEF ElevenLabsWatchdog, ElevenLabsForce, ElevenLabsReset, Release, Released
  <2>2. t \in TurnStates /\ t.final = {} /\ t.interim = {} /\ t.sent
    BY TurnsTyped
  <2> HIDE DEF t
  <2> QED BY <1>2, <1>3, <2>1, <2>2, ReleaseKept
<1>9. CASE PixaWatchdog
  <2>1. Released(turn.final, Words(turn.final), PixaReset) /\ stt \notin Marked
    BY <1>9 DEF PixaWatchdog, PixaForce, Release, Released, Marked
  <2> QED BY <1>1, <1>3, <2>1, TurnsTyped, ReleaseKept
<1>10. CASE SmallestWatchdog
  <2>1. Released(SmallestForced, Words(SmallestForced), SmallestReset) /\ stt \notin Marked
    BY <1>10 DEF SmallestWatchdog, SmallestForce, Release, Released, Marked
  <2>2. SmallestReset \in TurnStates /\ SmallestForced \in SUBSET Utt
    BY <1>1, TurnsTyped DEF SmallestReset, SmallestForced
  <2> QED BY <1>3, <2>1, <2>2, ReleaseKept
<1>11. CASE GladiaWatchdog
  <2>1. Released(turn.interim, Words(turn.interim), GladiaReset) /\ stt \notin Marked
    BY <1>11 DEF GladiaWatchdog, GladiaForce, Release, Released, Marked
  <2>2. GladiaReset \in TurnStates
    BY TurnsTyped DEF GladiaReset
  <2> QED BY <1>1, <1>3, <2>1, <2>2, ReleaseKept
<1>12. CASE OpenAIWatchdog
  <2>1. Released({}, Silent, OpenAIReset) /\ stt \notin Marked
    BY <1>12 DEF OpenAIWatchdog, Release, Released, Marked
  <2>2. OpenAIReset \in TurnStates
    <3>1. [turn EXCEPT !.flag = FALSE] \in TurnStates
      BY <1>1 DEF TurnStates
    <3> QED BY <3>1, TurnsTyped DEF OpenAIReset
  <2> QED BY <1>3, <2>1, <2>2, ReleaseKept
<1> QED BY <1>4, <1>5, <1>6, <1>7, <1>8, <1>9, <1>10, <1>11, <1>12
        DEF TurnWatchdog, SessionWatchdog

LEMMA SendersKept ==
    ASSUME IInv, TurnSender \/ SessionSender
    PROVE  KeptBy
<1>1. CASE SendFails /\ UNCHANGED stt
  BY <1>1, SendFailsKept
<1>2. CASE BeatFails /\ UNCHANGED stt
  BY <1>2, SendFailsKept
<1>3. CASE LastPacket(TRUE) /\ UNCHANGED stt
  <2>1. stt \in {"smallest", "gladia"} => TRUE
    OBVIOUS
  <2> QED BY <1>3, <2>1, Fields, LastPacketKept, Zenon
<1>4. CASE LastPacket(FALSE) /\ stt \notin {"smallest", "gladia"} /\ UNCHANGED stt
  <2>1. stt \in {"smallest", "gladia"} => FALSE
    BY <1>4
  <2> QED BY <1>4, <2>1, Fields, LastPacketKept, Zenon
<1>5. CASE TurnSender
  BY <1>1, <1>2, <1>3, <1>4, <1>5
     DEF TurnSender, DeepgramSender, SonioxSender, GeminiSender, ElevenLabsSender, PixaSender,
         DeepgramHeartbeat, PixaHeartbeat
<1>6. CASE SessionSender
  BY <1>1, <1>2, <1>3, <1>4, <1>6
     DEF SessionSender, SarvamSender, AssemblyAISender, SmallestSender, GladiaSender,
         OpenAISender, AzureSender, GoogleSender, SarvamHeartbeat, AssemblyAIHeartbeat,
         SmallestHeartbeat, GladiaHeartbeat, OpenAIHeartbeat
<1> QED BY <1>5, <1>6

LEMMA StopsKept ==
    ASSUME IInv, TurnStops \/ SessionStops
    PROVE  KeptBy
<1>1. CASE Toggle(0) /\ UNCHANGED stt
  BY <1>1, Fields, ToggleKept
<1>2. CASE SonioxToggle
  <2> DEFINE dogs == IF link.dogs > 1 THEN 1 ELSE 0
  <2>1. dogs \in 0..2 /\ Toggle(dogs) /\ stt = "soniox" /\ UNCHANGED stt
    BY <1>2 DEF SonioxToggle
  <2> HIDE DEF dogs
  <2> QED BY <2>1, ToggleKept
<1>3. CASE \E on, packet \in BOOLEAN : CleanUp(on, packet) /\ UNCHANGED stt
  BY <1>3, CleanUpKept
<1>4. CleanUp(link.on, TRUE) \/ CleanUp(FALSE, TRUE) \/ CleanUp(link.on, FALSE)
      \/ CleanUp(link.on, link.task # "dialing") \/ CleanUp(FALSE, link.task # "dialing")
      => \E on, packet \in BOOLEAN : CleanUp(on, packet)
  BY Fields, Zenon
<1>5. CASE TurnStops
  BY <1>1, <1>2, <1>3, <1>4, <1>5
     DEF TurnStops, DeepgramToggle, GeminiToggle, ElevenLabsToggle, PixaToggle,
         DeepgramCleanup, SonioxCleanup, GeminiCleanup, ElevenLabsCleanup, PixaCleanup
<1>6. CASE SessionStops
  BY <1>1, <1>2, <1>3, <1>4, <1>6
     DEF SessionStops, SarvamToggle, AssemblyAIToggle, SmallestToggle, GladiaToggle,
         OpenAIToggle, AzureToggle, GoogleToggle, SarvamCleanup, AssemblyAICleanup,
         SmallestCleanup, GladiaCleanup, OpenAICleanup, AzureCleanup, GoogleCleanup
<1> QED BY <1>5, <1>6

LEMMA TranscribesKept ==
    ASSUME IInv, TurnTranscribe \/ SessionTranscribe
    PROVE  KeptBy
<1>1. CASE RunsDry /\ UNCHANGED stt
  BY <1>1, RunsDryKept
<1>2. CASE Finally(0) /\ UNCHANGED stt
  BY <1>2, Fields, FinallyKept
<1>3. CASE DeepgramTranscribe
  BY <1>1, <1>2, <1>3, DialsKept, ReceivesKept DEF DeepgramTranscribe, Stream
<1>4. CASE SonioxTranscribe
  <2>1. CASE stt = "soniox" /\ Finally(link.dogs) /\ UNCHANGED stt
    BY <2>1, Fields, FinallyKept
  <2> QED BY <1>1, <1>4, <2>1, DialsKept, ReceivesKept DEF SonioxTranscribe, Stream
<1>5. CASE GeminiTranscribe
  <2>1. CASE GeminiRunsDry /\ UNCHANGED stt
    BY <2>1, RunsDryKept
  <2>2. CASE GeminiFinally /\ UNCHANGED stt
    BY <1>2, <2>2 DEF GeminiFinally
  <2>3. CASE stt = "gemini" /\ GeminiRotate /\ UNCHANGED stt
    BY <2>3, RotateKept
  <2>4. CASE stt = "gemini" /\ GeminiRefused /\ UNCHANGED stt
    BY <2>4, OtherEndsKept
  <2> QED BY <1>5, <2>1, <2>2, <2>3, <2>4, DialsKept, ReceivesKept DEF GeminiTranscribe
<1>6. CASE ElevenLabsTranscribe
  BY <1>1, <1>2, <1>6, DialsKept, ReceivesKept DEF ElevenLabsTranscribe, Stream
<1>7. CASE PixaTranscribe
  BY <1>1, <1>2, <1>7, DialsKept, ReceivesKept DEF PixaTranscribe, Stream
<1>8. CASE SarvamTranscribe
  BY <1>1, <1>2, <1>8, DialsKept, ReceivesKept DEF SarvamTranscribe, Stream
<1>9. CASE AssemblyAITranscribe
  BY <1>1, <1>2, <1>9, DialsKept, ReceivesKept DEF AssemblyAITranscribe, Stream
<1>10. CASE SmallestTranscribe
  BY <1>1, <1>2, <1>10, DialsKept, ReceivesKept DEF SmallestTranscribe, Stream
<1>11. CASE GladiaTranscribe
  BY <1>1, <1>2, <1>11, DialsKept, ReceivesKept DEF GladiaTranscribe, Stream
<1>12. CASE OpenAITranscribe
  BY <1>1, <1>2, <1>12, DialsKept, ReceivesKept DEF OpenAITranscribe, Stream
<1>13. CASE AzureTranscribe
  <2>1. CASE AzureCanceled /\ UNCHANGED stt
    BY <2>1, RunsDryKept
  <2>2. CASE stt = "azure" /\ AzureRun /\ UNCHANGED stt
    BY <2>2, OpensKept
  <2>3. CASE stt = "azure" /\ AzureSessionStopped /\ UNCHANGED stt
    BY <2>3, OtherEndsKept
  <2> QED BY <1>13, <2>1, <2>2, <2>3, ReceivesKept DEF AzureTranscribe
<1>14. CASE GoogleTranscribe
  <2>1. CASE stt = "google" /\ GoogleRun /\ UNCHANGED stt
    BY <2>1, OpensKept
  <2>2. CASE stt = "google" /\ GoogleStreamEnds /\ UNCHANGED stt
    BY <2>2, OtherEndsKept
  <2> QED BY <1>14, <2>1, <2>2, ReceivesKept DEF GoogleTranscribe
<1>15. CASE HttpTranscribe
  <2>1. stt \in Http /\ UNCHANGED stt
    BY <1>15 DEF HttpTranscribe, Http
  <2>2. CASE HttpConnects
    BY <2>1, <2>2, OpensKept DEF Http
  <2>3. CASE HttpTranscript \/ HttpEndOfStream \/ SarvamHttpFails \/ HttpFails
    BY <2>1, <2>3, HttpKept
  <2> QED BY <1>2, <1>15, <2>1, <2>2, <2>3 DEF HttpTranscribe
<1> QED BY <1>3, <1>4, <1>5, <1>6, <1>7, <1>8, <1>9, <1>10, <1>11, <1>12, <1>13, <1>14, <1>15
        DEF TurnTranscribe, SessionTranscribe

---------------------------------------------------------------------------
LEMMA SttInitial == SttInit => IInv
<1> SUFFICES ASSUME SttInit PROVE IInv
  OBVIOUS
<1>1. /\ stt \in Providers /\ link = NoLink /\ turn = NoTurn /\ wire = << >>
      /\ svc = [utt |-> 0, stage |-> "quiet", bye |-> FALSE] /\ heard = NothingHeard
  BY DEF SttInit
<1>2. 0 \in 0..2 /\ 0 \in 0..MaxRuns /\ 0 \in 0..MaxUtt
  BY TranscriberAssumption
<1>3. link \in Links /\ link.task = "idle" /\ link.dogs = 0 /\ ~link.pump
  BY <1>1, <1>2 DEF NoLink, Links
<1>4. heard \in Hearings /\ heard.closes = 0 /\ ~heard.late /\ heard.forced = {}
  <2>1. [u \in Utt |-> 0] \in [Utt -> 0..2]
    BY <1>2
  <2> DEFINE zeros == [u \in Utt |-> 0]
  <2>2. heard = [times |-> zeros, hanging |-> FALSE, closes |-> 0, late |-> FALSE, forced |-> {}]
    BY <1>1 DEF NothingHeard
  <2> HIDE DEF zeros
  <2> QED BY <1>2, <2>1, <2>2 DEF Hearings, zeros
<1>5. svc \in Services /\ svc.stage = "quiet" /\ ~svc.bye
  BY <1>1, <1>2 DEF Services
<1>6. turn \in TurnStates /\ InTurn = {}
  BY <1>1, TurnsTyped DEF InTurn
<1>7. wire \in Seq(Messages(stt)) /\ 1..Len(wire) = {}
  BY <1>1
<1>8. TypeInv
  BY <1>1, <1>3, <1>4, <1>5, <1>6, <1>7 DEF TypeInv
<1>9. ClosingInv /\ WatchdogInv
  BY <1>3, <1>4 DEF ClosingInv, WatchdogInv
<1>10. PartingInv
  BY <1>3, <1>5, <1>7 DEF PartingInv
<1>11. LateInv
  BY <1>4, <1>6, <1>7 DEF LateInv, OrderInv, ForcedInv
<1> QED BY <1>8, <1>9, <1>10, <1>11 DEF IInv

\* Every step keeps the invariant, and repeats no words a watchdog delivered.
LEMMA SttInductive == IInv /\ [SttNext]_sttVars => KeptBy
<1> SUFFICES ASSUME IInv, [SttNext]_sttVars PROVE KeptBy
  OBVIOUS
<1>1. CASE UNCHANGED sttVars
  <2>1. UNCHANGED <<stt, link, turn, wire, svc, heard>>
    BY <1>1 DEF sttVars
  <2>2. Base'
    BY <2>1 DEF Base, IInv, TypeInv, ClosingInv, WatchdogInv, PartingInv, Messages
  <2>3. LateInv' /\ Still
    BY <2>1 DEF IInv, LateInv, OrderInv, ForcedInv, Past, InTurn, Still
  <2> QED BY <2>2, <2>3, StillKept
<1>2. CASE Run /\ UNCHANGED stt
  BY <1>2, RunKept
<1> QED BY <1>1, <1>2, SpeaksKept, ForgetsKept, DropsKept, TranscribesKept, WatchdogsKept,
           SendersKept, StopsKept DEF SttNext

LEMMA SttInvariant == SttSpec => []IInv
<1>1. IInv /\ [SttNext]_sttVars => IInv'
  BY SttInductive DEF KeptBy
<1> QED BY SttInitial, <1>1, PTL DEF SttSpec

\* The fields of the connection, the turn and the queue keep their types.
THEOREM SttTypeCorrect == SttSpec => []SttTypeOK
<1>1. IInv => SttTypeOK
  <2> SUFFICES ASSUME IInv PROVE SttTypeOK
    OBVIOUS
  <2>1. /\ stt \in Providers /\ link \in Links /\ turn \in TurnStates /\ heard \in Hearings
        /\ svc \in Services /\ wire \in Seq(Messages(stt))
    BY DEF IInv, TypeInv
  <2>2. \A i \in DOMAIN wire : wire[i].utt \in 0..MaxUtt
    BY <2>1 DEF Messages
  <2>3. svc.utt \in 0..MaxUtt
    BY <2>1 DEF Services
  <2>4. heard.closes \in 0..2 /\ heard.times \in [Utt -> 0..2] /\ heard.forced \subseteq Utt
    BY <2>1 DEF Hearings
  <2> QED BY <2>1, <2>2, <2>3, <2>4 DEF SttTypeOK, Links, TurnStates
<1> QED BY SttInvariant, <1>1, PTL

\* A run queues one closed packet and no transcript behind it (but for the providers the
\* property names), whichever of the receiver, the watchdog and cleanup comes first.
THEOREM ClosedOnceAndLastCorrect == SttSpec => []ClosedOnceAndLast
<1>1. IInv => ClosedOnceAndLast
  BY DEF IInv, ClosingInv, ClosedOnceAndLast, Twice
<1> QED BY SttInvariant, <1>1, PTL

\* However often a connection is dialed again, one watchdog watches its turn (Soniox's
\* finally block leaves its own behind).
THEOREM OneWatchdogCorrect == SttSpec => []OneWatchdog
<1>1. IInv => OneWatchdog
  BY DEF IInv, WatchdogInv, OneWatchdog
<1> QED BY SttInvariant, <1>1, PTL

\* Flux and ElevenLabs never deliver again what their watchdog delivered: the words have
\* left the turn, and it stays marked as sent until the service is past them.
THEOREM LateFinalNotRepeatedCorrect == SttSpec => LateFinalNotRepeated
<1>1. IInv /\ [SttNext]_sttVars
      => [\A u \in heard.forced :
             stt \in {"flux", "elevenlabs"} => (heard.times[u])' <= heard.times[u]]_sttVars
  BY SttInductive DEF KeptBy, NotRepeated, Marked
<1> QED BY SttInvariant, <1>1, PTL DEF SttSpec, LateFinalNotRepeated
=============================================================================
