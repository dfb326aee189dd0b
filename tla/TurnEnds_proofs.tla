------------------------- MODULE TurnEnds_proofs -------------------------
(***************************************************************************)
(* Every turn gets its end: a turn of Kalpa or of ElevenLabs v3 that was   *)
(* pushed whole is not left open, as long as no socket is lost and the     *)
(* turns follow one another.  The invariants say of every moment before    *)
(* who still has the end: a sender, the service or the wire.               *)
(***************************************************************************)
EXTENDS KalpaSynthesizer_proofs

\* As long as no socket is lost and the turns follow one another.
Steady == link.lost = 0 /\ Alone
\* The turn that is spoken.
Current == pipe.turn \in pipe.ids /\ ~pipe.cut
Of(i) == senders[i].turn = pipe.turn
Owing == \E i \in DOMAIN senders : Of(i) /\ senders[i].last
NoneLeft == pipe.left = 0 /\ \A i \in DOMAIN senders : ~Of(i)
Due == Current /\ pipe.turn \notin said.ended /\ ~pipe.over /\ ~base.error

\* The turn that is spoken is the only valid one; a turn that is open is this one, and
\* so are its labels.
TurnAlone ==
    /\ pipe.ids \subseteq {pipe.turn} /\ said.ended \subseteq 1..pipe.turn
    /\ base.open => pipe.turn \in pipe.ids /\ (~pipe.cut => LabelsIn(base, pipe.ids))

\* A frame is played, or the stored connection_error is raised instead.
Plays(m) ==
    /\ ~base.error /\ UNCHANGED pipe
    /\ base' = Labelled(base, m.kind) /\ said' = Heard(said, Label(base), m)
Raises == base.error /\ pipe' = [pipe EXCEPT !.over = TRUE, !.left = 0] /\ UNCHANGED <<base, said>>

LEMMA YieldOne ==
    ASSUME NEW STATE m, Yield(<<m>>)
    PROVE  Plays(m) \/ Raises
<1> DEFINE f == <<m>>
<1>1. f # << >> /\ Len(f) = 1 /\ f[1] = m  OBVIOUS
<1>2. Yield(f)  OBVIOUS
<1> HIDE DEF f
<1>3. QED  BY <1>1, <1>2 DEF Yield, Plays, Raises

LEMMA OverFields ==
    ASSUME pipe \in Calling, NEW over \in BOOLEAN, NEW left \in {0, pipe.left},
           pipe' = [pipe EXCEPT !.over = over, !.left = left]
    PROVE  /\ pipe'.over = over /\ pipe'.left = left /\ pipe'.overlap = pipe.overlap
           /\ pipe'.turn = pipe.turn /\ pipe'.ids = pipe.ids /\ pipe'.cut = pipe.cut
           /\ pipe'.silent = pipe.silent
BY DEF Calling

\* What an end does that is heard under a valid label, and what other frames do.
LEMMA HeardEnds ==
    ASSUME NEW s \in Verdicts, NEW l, NEW m \in Messages, pipe \in Calling
    PROVE  /\ s.ended \subseteq Heard(s, l, m).ended
           /\ Heard(s, l, m).ended \subseteq s.ended \cup pipe.ids
           /\ m.kind # "audio" /\ l \in pipe.ids => l \in Heard(s, l, m).ended
           /\ m.kind # "audio" => Heard(s, l, m).late = s.late
           /\ m.kind = "audio" => Heard(s, l, m).ended = s.ended
           /\ Heard(s, l, m).late => s.late \/ (l \in pipe.ids /\ l \in s.ended)
<1>0. pipe.ids \subseteq Turns  BY DEF Calling
<1> DEFINE exact == tts \in Exact
           unsilenced == tts \in Unsilenced
           late == s.late \/ l \in s.ended
           clipped == s.clipped \/ (exact /\ m.turn \notin pipe.ids)
           part == IF exact THEN s.parts[l] \cup {m.part} ELSE s.parts[l]
<1>a. CASE m.kind = "audio" /\ l = m.turn /\ l \in pipe.ids
  <2>1. Heard(s, l, m) = [s EXCEPT !.parts[l] = part, !.late = late]  BY <1>a DEF Heard
  <2> HIDE DEF part, exact
  <2>2. Heard(s, l, m).ended = s.ended /\ Heard(s, l, m).late = late  BY <2>1 DEF Verdicts
  <2>3. QED  BY <1>a, <2>2
<1>b. CASE m.kind = "audio" /\ ~(l = m.turn /\ l \in pipe.ids)
  <2>1. Heard(s, l, m) \in {[s EXCEPT !.foreign = exact], [s EXCEPT !.mute = unsilenced], s}
    BY <1>b DEF Heard
  <2> HIDE DEF exact, unsilenced
  <2>2. Heard(s, l, m).ended = s.ended /\ Heard(s, l, m).late = s.late  BY <2>1 DEF Verdicts
  <2>3. QED  BY <1>b, <2>2
<1>c. CASE m.kind # "audio" /\ l \in pipe.ids
  <2>1. Heard(s, l, m) \in {[s EXCEPT !.ended = s.ended \cup {l}],
                            [s EXCEPT !.clipped = clipped, !.ended = s.ended \cup {l}]}
    BY <1>c DEF Heard
  <2> HIDE DEF clipped, exact
  <2>2. Heard(s, l, m).ended = s.ended \cup {l} /\ Heard(s, l, m).late = s.late  BY <2>1 DEF Verdicts
  <2>3. QED  BY <1>c, <2>2
<1>d. CASE m.kind # "audio" /\ l \notin pipe.ids
  <2>1. Heard(s, l, m) = s  BY <1>d DEF Heard
  <2>2. QED  BY <1>d, <2>1
<1>e. QED  BY <1>a, <1>b, <1>c, <1>d

LEMMA LabelledOpen ==
    ASSUME NEW b \in Bases, NEW kind
    PROVE  /\ kind # "end" => Labelled(b, kind).open = b.open
           /\ kind = "end" => ~Labelled(b, kind).open
<1> DEFINE op == b.open /\ kind # "end"
           sk == IF kind = "end" THEN 0 ELSE b.sock
           q == IF b.q = << >> THEN b.q ELSE Tail(b.q)
           l == Label(b)
<1>1. Labelled(b, kind) = [b EXCEPT !.q = q, !.meta = l, !.open = op, !.sock = sk]  BY DEF Labelled
<1>2. b.open \in BOOLEAN  BY DEF Bases
<1> HIDE DEF q, l, sk, op
<1>3. Labelled(b, kind).open = op  BY <1>1 DEF Bases
<1>4. QED  BY <1>2, <1>3 DEF op

\* A step that is none of the call's: it loses no socket back, and it ends valid turns
\* only.
Ongoing ==
    /\ tts' = tts /\ pipe'.overlap = pipe.overlap /\ pipe'.silent = pipe.silent
    /\ link'.lost >= link.lost
    /\ said.ended \subseteq said'.ended /\ said'.ended \subseteq said.ended \cup pipe.ids

LEMMA YieldOngoing ==
    ASSUME TypeInv, NEW STATE m, m \in Messages, Yield(<<m>>), UNCHANGED tts, link'.lost = link.lost
    PROVE  /\ Ongoing
           /\ pipe'.turn = pipe.turn /\ pipe'.ids = pipe.ids /\ pipe'.cut = pipe.cut
           /\ pipe.over => pipe'.over
           /\ pipe'.over \/ Plays(m)
           /\ m.kind # "audio" /\ pipe.turn \in pipe.ids /\ pipe.ids \subseteq {pipe.turn} /\ LabelsIn(base, pipe.ids) =>
                 pipe'.over \/ pipe.turn \in said'.ended
<1>0. pipe \in Calling /\ base \in Bases /\ said \in Verdicts /\ link \in Sockets /\ link.lost \in Nat
  BY DEF TypeInv, Sockets
<1>1. CASE Raises
  <2> DEFINE over == TRUE
             left == 0
  <2>1. over \in BOOLEAN /\ left \in {0, pipe.left} /\ pipe' = [pipe EXCEPT !.over = over, !.left = left]
    BY <1>1 DEF Raises
  <2> HIDE DEF over, left
  <2>2. /\ pipe'.over = over /\ pipe'.overlap = pipe.overlap
        /\ pipe'.turn = pipe.turn /\ pipe'.ids = pipe.ids /\ pipe'.cut = pipe.cut /\ pipe'.silent = pipe.silent
    BY <1>0, <2>1, OverFields
  <2>3. pipe'.over  BY <2>2 DEF over
  <2>4. UNCHANGED said  BY <1>1 DEF Raises
  <2>5. QED  BY <1>0, <2>2, <2>3, <2>4 DEF Ongoing
<1>2. CASE Plays(m)
  <2>1. pipe' = pipe /\ said' = Heard(said, Label(base), m)  BY <1>2 DEF Plays
  <2>2. /\ said.ended \subseteq said'.ended /\ said'.ended \subseteq said.ended \cup pipe.ids
        /\ m.kind # "audio" /\ Label(base) \in pipe.ids => Label(base) \in said'.ended
    BY <1>0, <2>1, HeardEnds
  <2>3. LabelsIn(base, pipe.ids) => Label(base) \in pipe.ids  BY <1>0, LabelledIn
  <2>4. QED  BY <1>0, <1>2, <2>1, <2>2, <2>3 DEF Ongoing
<1>3. QED  BY <1>1, <1>2, YieldOne

---------------------------------------------------------------------------
\* Whether the call was steady so far: an answer that no step takes back.

LEMMA PushSteady ==
    ASSUME TypeInv, pipe' = [pipe EXCEPT !.left = @ - 1], link' = link, tts' = tts, Steady'
    PROVE  Steady
<1> DEFINE l == pipe.left - 1
<1>1. pipe \in Calling /\ pipe' = [pipe EXCEPT !.left = l]  BY DEF TypeInv
<1> HIDE DEF l
<1>2. pipe'.overlap = pipe.overlap /\ pipe'.silent = pipe.silent  BY <1>1 DEF Calling
<1>3. QED  BY <1>2 DEF Steady, Alone, Told

LEMMA CutSteady ==
    ASSUME TypeInv, pipe' = CutPipe, link'.lost = link.lost, Steady'
    PROVE  Steady
<1>1. pipe \in Calling  BY DEF TypeInv
<1>2. pipe'.overlap = pipe.overlap /\ pipe'.silent = pipe.silent  BY <1>1 DEF CutPipe, Calling
<1>3. QED  BY <1>2 DEF Steady, Alone, Told

LEMMA DialOngoing ==
    ASSUME TypeInv, NEW STATE fresh, NEW rejects \in BOOLEAN, Dial(fresh, FALSE, rejects)
    PROVE  /\ Down /\ ~pipe.over /\ UNCHANGED <<tts, pipe, senders, said>> /\ Ongoing
           /\ base.error => base'.error
           /\ base'.open = base.open /\ base'.q = base.q /\ base'.meta = base.meta
           /\ link'.unmet => link.unmet \/ link.ws = "closed"
           /\ \/ link'.ws = "open" /\ wire' = << >> /\ own' = fresh
              \/ link'.ws = link.ws /\ wire' = wire /\ own' = own
<1>1. link \in Sockets /\ base \in Bases /\ link.lost \in Nat  BY DEF TypeInv, Sockets
<1>2. Down /\ ~pipe.over /\ UNCHANGED <<tts, pipe, senders, said>>  BY DEF Dial
<1>3. CASE /\ link' = [link EXCEPT !.ws = "open", !.n = @ + 1, !.tries = 0,
                                   !.forgot = @ \/ (FALSE /\ base.error),
                                   !.unmet = @ \/ (link.ws = "closed" /\ tts \in LossSettlers)]
           /\ own' = fresh /\ base' = [base EXCEPT !.error = @ /\ ~FALSE] /\ wire' = << >>
  <2> DEFINE e == base.error /\ ~FALSE
             g == link.forgot \/ (FALSE /\ base.error)
             u == link.unmet \/ (link.ws = "closed" /\ tts \in LossSettlers)
             n == link.n + 1
             z == 0
  <2>1. base' = [base EXCEPT !.error = e]  BY <1>3
  <2>2. link' = [link EXCEPT !.ws = "open", !.n = n, !.tries = z, !.forgot = g, !.unmet = u]  BY <1>3
  <2>3. (base.error => e) /\ (u => link.unmet \/ link.ws = "closed")  OBVIOUS
  <2> HIDE DEF e, g, u, n, z
  <2>4. base'.error = e /\ base'.open = base.open /\ base'.q = base.q /\ base'.meta = base.meta
    BY <1>1, <2>1 DEF Bases
  <2>5. link'.lost = link.lost /\ link'.ws = "open" /\ link'.unmet = u  BY <1>1, <2>2 DEF Sockets
  <2>6. QED  BY <1>1, <1>2, <1>3, <2>3, <2>4, <2>5 DEF Ongoing
<1>4. CASE /\ link' = [link EXCEPT !.tries = @ + 1]
           /\ \E rejected \in {FALSE, rejects} :
                 base' = [base EXCEPT !.error = @ \/ rejected \/ link.tries = MaxFails - 1]
           /\ UNCHANGED <<own, wire>>
  <2>1. PICK rejected \in {FALSE, rejects} :
           base' = [base EXCEPT !.error = @ \/ rejected \/ link.tries = MaxFails - 1]
    BY <1>4
  <2> DEFINE e == base.error \/ rejected \/ link.tries = MaxFails - 1
             k == link.tries + 1
  <2>2. base' = [base EXCEPT !.error = e]  BY <2>1
  <2>3. link' = [link EXCEPT !.tries = k]  BY <1>4
  <2>4. base.error => e  OBVIOUS
  <2> HIDE DEF e, k
  <2>5. base'.error = e /\ base'.open = base.open /\ base'.q = base.q /\ base'.meta = base.meta
    BY <1>1, <2>2 DEF Bases
  <2>6. link'.lost = link.lost /\ link'.ws = link.ws /\ link'.unmet = link.unmet
    BY <1>1, <2>3 DEF Sockets
  <2>7. QED  BY <1>1, <1>2, <1>4, <2>4, <2>5, <2>6 DEF Ongoing
<1>5. QED  BY <1>3, <1>4 DEF Dial

LEMMA GivesUpOngoing ==
    ASSUME TypeInv, GivesUp
    PROVE  /\ Ongoing /\ pipe'.over /\ UNCHANGED <<tts, base, link, senders, own, wire, said>>
           /\ pipe'.turn = pipe.turn /\ pipe'.ids = pipe.ids /\ pipe'.cut = pipe.cut /\ pipe'.left = 0
<1> DEFINE over == TRUE
           left == 0
<1>1. pipe \in Calling /\ link.lost \in Nat  BY DEF TypeInv, Sockets
<1>2. /\ over \in BOOLEAN /\ left \in {0, pipe.left} /\ pipe' = [pipe EXCEPT !.over = over, !.left = left]
      /\ UNCHANGED <<tts, base, link, senders, own, wire, said>>
  BY DEF GivesUp
<1>3. over /\ left = 0  OBVIOUS
<1> HIDE DEF over, left
<1>4. /\ pipe'.over = over /\ pipe'.left = left /\ pipe'.overlap = pipe.overlap
      /\ pipe'.turn = pipe.turn /\ pipe'.ids = pipe.ids /\ pipe'.cut = pipe.cut
      /\ pipe'.silent = pipe.silent
  BY <1>1, <1>2, OverFields
<1>5. QED  BY <1>1, <1>2, <1>3, <1>4 DEF Ongoing

LEMMA LoseSteady ==
    ASSUME TypeInv, Lose
    PROVE  ~Steady'
<1>1. link \in Sockets /\ link.lost \in Nat  BY DEF TypeInv, Sockets
<1>2. CASE link' = [link EXCEPT !.ws = "closing", !.lost = @ + 1]
  <2>1. link'.lost = link.lost + 1  BY <1>1, <1>2 DEF Sockets
  <2>2. QED  BY <1>1, <2>1 DEF Steady
<1>3. CASE link' = [link EXCEPT !.ws = "closed", !.lost = IF @ = 0 THEN 1 ELSE @]
  <2>1. link'.lost = IF link.lost = 0 THEN 1 ELSE link.lost  BY <1>1, <1>3 DEF Sockets
  <2>2. QED  BY <1>1, <2>1 DEF Steady
<1>4. QED  BY <1>2, <1>3 DEF Lose

LEMMA StillOngoing ==
    ASSUME TypeInv, UNCHANGED <<tts, pipe, link>>, said'.ended = said.ended
    PROVE  Ongoing
<1>1. link.lost \in Nat  BY DEF TypeInv, Sockets
<1>2. QED  BY <1>1 DEF Ongoing

---------------------------------------------------------------------------
\* The turn alone.

\* The providers that stamp a turn's labels and close the turn when it is barged in on.
Closing == {"kalpa", "elevenlabsV3"}

LEMMA StartsAlone ==
    ASSUME TypeInv, StartTurn
    PROVE  ~pipe'.overlap => ~pipe.overlap /\ pipe.ids = {}
<1> DEFINE t == pipe.turn + 1
           l == IF t \in Pairs THEN 2 ELSE 1
           o == pipe.overlap \/ pipe.ids # {}
           I == pipe.ids \cup {t}
<1>1. pipe' = [pipe EXCEPT !.turn = t, !.ids = I, !.overlap = o, !.left = l]  BY DEF StartTurn
<1>2. pipe \in Calling  BY DEF TypeInv
<1>3. o <=> (pipe.overlap \/ pipe.ids # {})  OBVIOUS
<1> HIDE DEF t, l, o, I
<1>4. pipe'.overlap = o  BY <1>1, <1>2 DEF Calling
<1>5. QED  BY <1>3, <1>4

LEMMA CallsSteady ==
    ASSUME TypeInv, Calls
    PROVE  /\ Steady' => Steady
           /\ Steady' => ~Retire
           /\ Steady' /\ StartTurn => pipe.ids = {}
<1>1. CASE StartTurn
  <2>1. pipe'.silent = pipe.silent /\ link' = link  BY <1>1, StartTurnStep
  <2>2. ~pipe'.overlap => ~pipe.overlap /\ pipe.ids = {}  BY <1>1, StartsAlone
  <2>3. ~Retire
    BY <1>1, <2>1, StartTurnStep, RetireStep DEF TypeInv, Calling
  <2>4. QED  BY <1>1, <2>1, <2>2, <2>3 DEF Steady, Alone, Told
<1>2. CASE Retire
  <2>1. pipe'.silent  BY <1>2, RetireStep
  <2>2. QED  BY <2>1 DEF Steady, Alone, Told
<1>3. CASE Invalidate
  <2>1. pipe' = [pipe EXCEPT !.ids = {}, !.cut = FALSE] /\ link' = link /\ pipe.cut  BY <1>3 DEF Invalidate
  <2>2. pipe'.overlap = pipe.overlap /\ pipe'.silent = pipe.silent  BY <2>1 DEF TypeInv, Calling
  <2>3. ~Retire /\ ~StartTurn  BY <2>1 DEF Retire, StartTurn
  <2>4. QED  BY <2>1, <2>2, <2>3 DEF Steady, Alone, Told
<1>4. QED  BY <1>1, <1>2, <1>3 DEF Calls

LEMMA AloneCalls ==
    ASSUME LabelInv, TurnAlone, Calls, Steady', tts \in Closing
    PROVE  TurnAlone'
<1>1. TypeInv /\ TurnsKnown /\ CutCloses /\ pipe.turn \in Nat  BY NoTurnZero DEF LabelInv
<1>2. ~Retire  BY <1>1, CallsSteady
<1>3. CASE StartTurn
  <2>1. pipe.ids = {}  BY <1>1, <1>3, CallsSteady
  <2>2. /\ UNCHANGED <<base, said>> /\ pipe'.turn = pipe.turn + 1 /\ pipe'.ids = {pipe.turn + 1}
    BY <1>1, <1>3, <2>1, StartTurnStep
  <2>3. ~base.open  BY <2>1 DEF TurnAlone
  <2>4. said.ended \subseteq 1..pipe.turn  BY DEF TurnAlone
  <2>5. QED  BY <1>1, <2>2, <2>3, <2>4 DEF TurnAlone
<1>4. CASE Invalidate
  <2>1. /\ UNCHANGED <<base, said>> /\ pipe'.turn = pipe.turn /\ pipe'.ids = {} /\ pipe.cut
    BY <1>1, <1>4, InvalidateStep
  <2>2. ~base.open  BY <1>1, <2>1 DEF CutCloses, Watched, Unsilenced, Exact, Closing
  <2>3. said.ended \subseteq 1..pipe.turn  BY DEF TurnAlone
  <2>4. QED  BY <2>1, <2>2, <2>3 DEF TurnAlone
<1>5. QED  BY <1>2, <1>3, <1>4 DEF Calls

LEMMA AloneAsks ==
    ASSUME LabelInv, TurnAlone, Asks, tts \in Closing
    PROVE  TurnAlone'
<1>1. CutQuiet  BY DEF LabelInv
<1>2. /\ said' = said /\ pipe.left # 0 /\ pipe.turn \in pipe.ids /\ pipe'.turn = pipe.turn
      /\ pipe'.ids = pipe.ids /\ pipe'.cut = pipe.cut
      /\ tts \in Unsilenced /\ (base.open => QueueIn(base, pipe.ids)) => LabelsIn(base', pipe.ids)
  BY DEF Asks
<1>3. ~pipe.cut  BY <1>1, <1>2 DEF CutQuiet
<1>4. base.open => QueueIn(base, pipe.ids)  BY <1>3 DEF TurnAlone, LabelsIn, QueueIn
<1>5. LabelsIn(base', pipe.ids)  BY <1>2, <1>4 DEF Unsilenced, Exact, Closing
<1>6. QED  BY <1>2, <1>5 DEF TurnAlone

LEMMA AloneBarges ==
    ASSUME TurnAlone, Barges, tts \in Closing
    PROVE  TurnAlone'
<1>1. /\ said' = said /\ pipe'.turn = pipe.turn /\ pipe'.ids = pipe.ids /\ ~base'.open
  BY DEF Barges, Unsilenced, Exact, Closing
<1>2. QED  BY <1>1 DEF TurnAlone

LEMMA AloneOnward ==
    ASSUME LabelInv, TurnAlone, Onward, Ongoing
    PROVE  TurnAlone'
<1>1. /\ pipe'.turn = pipe.turn /\ pipe'.ids = pipe.ids /\ pipe'.cut = pipe.cut
  BY DEF Onward, SameCall
<1>2. /\ base'.open => base.open
      /\ LabelsIn(base, pipe.ids) => LabelsIn(base', pipe.ids)
  BY DEF Onward, SameLabels
<1>3. said'.ended \subseteq 1..pipe.turn  BY DEF Ongoing, TurnAlone, LabelInv, TurnsKnown
<1>4. QED  BY <1>1, <1>2, <1>3 DEF TurnAlone

LEMMA OngoingSteady ==
    ASSUME TypeInv, Ongoing, Steady', link'.lost \in Nat
    PROVE  Steady
BY DEF Ongoing, Steady, Alone, Told, TypeInv, Sockets

---------------------------------------------------------------------------
\* ElevenLabs v3.  A turn that was pushed whole has its end in a sender or on the wire.

V3Socket == link.ws \in {"none", "open", "dying"} /\ (link.ws = "none" => wire = << >>)
EndOn(w) == \E k \in DOMAIN w : w[k].turn = pipe.turn /\ w[k].kind = "end"
EndDue == Due /\ pipe.left = 0 => Owing \/ EndOn(wire)
V3Inv == tts = "elevenlabsV3" /\ Steady => TurnAlone /\ V3Socket /\ EndDue

LEMMA V3Cases ==
    ASSUME TypeInv, tts = "elevenlabsV3", [SpeakNext]_synVars
    PROVE  \/ Calls
           \/ Push(TRUE, V3Push, 0)
           \/ V3Interrupt
           \/ \E i \in DOMAIN senders : Waits(i, Connected) \/ (\E again : Drops(i, again)) \/ V3Send(i)
           \/ \E more : V3Receive(more)
           \/ V3MeetsEnd \/ GivesUp \/ Lose \/ V3Dial
           \/ UNCHANGED synVars
<1>1. Interrupts => V3Interrupt
  BY DEF Interrupts, Interrupted, ElevenInterrupt, CartesiaInterrupt, DeepgramInterrupt, RimeInterrupt,
         MayaInterrupt, PixaInterrupt, SonioxInterrupt, KalpaInterrupt, PlainInterrupt
<1>2. \A i \in DOMAIN senders :
         Sending(i) => Waits(i, Connected) \/ (\E again : Drops(i, again)) \/ V3Send(i)
  BY DEF Sending
<1>3. \A more : Receives(more) => V3Receive(more)
  BY DEF Receives, ElevenReceive, CartesiaReceive, RimeReceive, MayaReceive, PixaReceive,
         SonioxReceive, KalpaReceive, PlainReceive, Reads
<1>4. Ending => V3MeetsEnd \/ GivesUp
  BY DEF Ending, SarvamMeetsEnd, SonioxMeetsEnd, KalpaMeetsEnd
<1>5. Dials => V3Dial
  BY DEF Dials, ElevenDial, CartesiaDial, DeepgramDial, SarvamDial, SmallestDial, RimeDial,
         MayaDial, PixaDial, SonioxDial, KalpaDial
<1>6. Pushes => Push(TRUE, V3Push, 0)  BY DEF Pushes
<1>7. ~Render /\ ~ServiceFails /\ ~Slots  BY DEF Render, ServiceFails, OnKalpa, Slots
<1>8. QED  BY <1>1, <1>2, <1>3, <1>4, <1>5, <1>6, <1>7 DEF SpeakNext

\* A sender that leaves, and the others.
LEMMA WithoutKeeps ==
    ASSUME senders \in Seq(Senders), NEW i \in DOMAIN senders, senders' = Without(i)
    PROVE  /\ \A j \in DOMAIN senders : j # i => \E k \in DOMAIN senders' : senders'[k] = senders[j]
           /\ \A k \in DOMAIN senders' : \E j \in DOMAIN senders : j # i /\ senders'[k] = senders[j]
<1>0. Len(senders) \in Nat /\ DOMAIN senders = 1..Len(senders) /\ i \in 1..Len(senders)
  BY LenProperties
<1>1. /\ senders' \in Seq(Senders) /\ Len(senders') = Len(senders) - 1
      /\ \A j \in DOMAIN senders' : /\ j \in 1..(Len(senders) - 1)
                                    /\ senders'[j] = IF j < i THEN senders[j] ELSE senders[j + 1]
  BY WithoutType
<1>2. DOMAIN senders' = 1..(Len(senders) - 1)  BY <1>1, LenProperties
<1>3. ASSUME NEW j \in DOMAIN senders, j # i
      PROVE  \E k \in DOMAIN senders' : senders'[k] = senders[j]
  <2>1. CASE j < i
    <3>1. j \in DOMAIN senders'  BY <1>0, <1>2, <2>1
    <3>2. senders'[j] = senders[j]  BY <1>1, <2>1, <3>1
    <3>3. QED  BY <3>1, <3>2
  <2>2. CASE i < j
    <3>1. j - 1 \in DOMAIN senders' /\ ~(j - 1 < i) /\ (j - 1) + 1 = j  BY <1>0, <1>2, <2>2
    <3>2. senders'[j - 1] = senders[j]  BY <1>1, <3>1
    <3>3. QED  BY <3>1, <3>2
  <2>3. QED  BY <1>0, <1>3, <2>1, <2>2
<1>4. ASSUME NEW k \in DOMAIN senders'
      PROVE  \E j \in DOMAIN senders : j # i /\ senders'[k] = senders[j]
  <2>1. k \in 1..(Len(senders) - 1)  BY <1>2
  <2>2. CASE k < i
    <3>1. k \in DOMAIN senders /\ k # i /\ senders'[k] = senders[k]  BY <1>0, <1>1, <2>1, <2>2
    <3>2. QED  BY <3>1
  <2>3. CASE ~(k < i)
    <3>1. k + 1 \in DOMAIN senders /\ k + 1 # i /\ senders'[k] = senders[k + 1]
      BY <1>0, <1>1, <2>1, <2>3
    <3>2. QED  BY <3>1
  <2>4. QED  BY <2>2, <2>3
<1>5. QED  BY <1>3, <1>4

LEMMA WaitingKeeps ==
    ASSUME senders \in Seq(Senders), NEW i \in DOMAIN senders,
           senders' = [senders EXCEPT ![i].waits = TRUE]
    PROVE  /\ DOMAIN senders' = DOMAIN senders
           /\ \A j \in DOMAIN senders :
                 /\ senders'[j].turn = senders[j].turn /\ senders'[j].text = senders[j].text
                 /\ senders'[j].last = senders[j].last /\ senders'[j].epoch = senders[j].epoch
<1> DEFINE w == TRUE
           s == [senders[i] EXCEPT !.waits = w]
<1>1. senders' = [senders EXCEPT ![i] = s]  OBVIOUS
<1>2. senders[i] \in Senders  BY ElementOfSeq
<1>3. w \in BOOLEAN  OBVIOUS
<1> HIDE DEF w
<1>4. /\ s.turn = senders[i].turn /\ s.text = senders[i].text /\ s.last = senders[i].last
      /\ s.epoch = senders[i].epoch
  BY <1>2, <1>3 DEF Senders
<1> HIDE DEF s
<1>5. QED  BY <1>1, <1>4

LEMMA EndDueStill ==
    ASSUME EndDue, pipe'.turn = pipe.turn,
           Due' /\ pipe'.left = 0 => Due /\ pipe.left = 0,
           Due' /\ Owing => Owing' \/ EndOn(wire'),
           Due' /\ EndOn(wire) => EndOn(wire')
    PROVE  EndDue'
BY DEF EndDue, EndOn

\* A step that neither asks, barges in nor is the call's leaves what is due due.
LEMMA DueWas ==
    ASSUME SameCall, Ongoing, pipe.over => pipe'.over, base.error => base'.error,
           pipe'.over \/ pipe'.left = pipe.left
    PROVE  /\ Due' => Due
           /\ Due' /\ pipe'.left = 0 => pipe.left = 0
           /\ Due' => ~pipe'.over /\ pipe'.turn = pipe.turn /\ pipe.turn \in pipe.ids
BY DEF SameCall, Ongoing, Due, Current

LEMMA V3Starts ==
    ASSUME LabelInv, V3Socket, EndDue, TurnAlone, tts = "elevenlabsV3", Calls, Steady'
    PROVE  V3Socket' /\ EndDue'
<1>1. TypeInv  BY DEF LabelInv
<1>2. CASE StartTurn
  <2>1. UNCHANGED <<link, wire>> /\ pipe'.left # 0  BY <1>1, <1>2, StartTurnStep
  <2>2. QED  BY <2>1 DEF V3Socket, EndDue
<1>3. CASE Invalidate
  <2>1. UNCHANGED <<link, wire>> /\ pipe'.ids = {}  BY <1>1, <1>3, InvalidateStep
  <2>2. QED  BY <2>1 DEF V3Socket, EndDue, Due, Current
<1>4. QED  BY <1>1, <1>2, <1>3, CallsSteady DEF Calls

LEMMA V3Pushes ==
    ASSUME LabelInv, V3Socket, EndDue, tts = "elevenlabsV3", Push(TRUE, V3Push, 0)
    PROVE  V3Socket' /\ EndDue'
<1>1. TypeInv /\ pipe \in Calling /\ senders \in Seq(Senders)  BY DEF LabelInv, TypeInv
<1>2. /\ Pushing /\ pipe' = [pipe EXCEPT !.left = pipe.left - 1] /\ UNCHANGED <<tts, link, wire, said>>
      /\ \E text \in BOOLEAN : senders' = Append(senders, Pushed(text, pipe.left = 1, 0))
  BY SynthesizerAssumption DEF Push
<1>3. pipe.left > 0 /\ pipe.turn \in pipe.ids /\ pipe.left \in {0, 1, 2}  BY <1>1, <1>2 DEF Pushing, Calling
<1> DEFINE l == pipe.left - 1
<1>4. l \in {0, 1, 2}  BY <1>3
<1> HIDE DEF l
<1>5. pipe'.left = l /\ pipe'.turn = pipe.turn  BY <1>1, <1>2, <1>4 DEF Calling, l
<1>7. V3Socket'  BY <1>2 DEF V3Socket
<1>8. ASSUME pipe'.left = 0 PROVE Owing'
  <2>1. pipe.left = 1  BY <1>3, <1>5, <1>8 DEF l
  <2> DEFINE last == pipe.left = 1
  <2>2. last \in BOOLEAN /\ last  BY <2>1
  <2>3. PICK text \in BOOLEAN : senders' = Append(senders, Pushed(text, last, 0))  BY <1>2
  <2> HIDE DEF last
  <2>4. Pushed(text, last, 0) \in Senders /\ Pushed(text, last, 0).turn = pipe.turn
    BY <1>1, <1>3, <2>2, PushedType
  <2>5. Pushed(text, last, 0).last = last  BY DEF Pushed
  <2>6. /\ DOMAIN senders' = 1..(Len(senders) + 1)
        /\ senders'[Len(senders) + 1] = Pushed(text, last, 0)
    BY <1>1, <2>3, <2>4, AppendSender
  <2>7. Len(senders) \in Nat  BY <1>1, LenProperties
  <2>8. Len(senders) + 1 \in DOMAIN senders'  BY <2>6, <2>7
  <2>9. QED  BY <1>5, <2>2, <2>4, <2>5, <2>6, <2>8 DEF Owing, Of
<1>9. EndDue'  BY <1>8 DEF EndDue
<1>10. QED  BY <1>7, <1>9

LEMMA V3Cuts ==
    ASSUME LabelInv, V3Socket, tts = "elevenlabsV3", V3Interrupt
    PROVE  V3Socket' /\ EndDue'
<1>1. /\ pipe \in Calling /\ link \in Sockets  BY DEF LabelInv, TypeInv
<1>2. pipe' = CutPipe
      /\ \/ Connected /\ link' = [link EXCEPT !.ws = "dying"]
         \/ link' = [link EXCEPT !.ws = "none"] /\ wire' = << >>
  BY DEF V3Interrupt, Interrupted
<1>3. pipe'.cut
  BY <1>1, <1>2 DEF CutPipe, Calling
<1>4. link'.ws \in {"none", "dying"} /\ (link'.ws = "none" => wire' = << >>)
  BY <1>1, <1>2 DEF Sockets
<1>5. V3Socket'  BY <1>4 DEF V3Socket
<1>6. EndDue'  BY <1>3 DEF EndDue, Due, Current
<1>7. QED  BY <1>5, <1>6

\* The senders.
LEMMA V3Sends ==
    ASSUME LabelInv, V3Socket, EndDue, tts = "elevenlabsV3", NEW i \in DOMAIN senders,
           Waits(i, Connected) \/ (\E again : Drops(i, again)) \/ V3Send(i)
    PROVE  V3Socket' /\ EndDue' /\ Ongoing
<1>1. /\ TypeInv /\ senders \in Seq(Senders) /\ base \in Bases /\ said \in Verdicts /\ wire \in Seq(Messages)
      /\ link.lost \in Nat
  BY DEF LabelInv, TypeInv, Sockets
<1>2. UNCHANGED <<tts, pipe, link>>  BY DEF Waits, Drops, V3Send
<1>3. said' \in {said, Given(said, i)}  BY DEF Waits, Drops, V3Send
<1>4. said'.ended = said.ended  BY <1>1, <1>3, GivenType
<1>5. Ongoing  BY <1>1, <1>2, <1>4 DEF Ongoing
<1>6. CASE Waits(i, Connected)
  <2>1. UNCHANGED <<base, wire, said>> /\ senders' = [senders EXCEPT ![i].waits = TRUE]
    BY <1>6 DEF Waits
  <2>2. /\ DOMAIN senders' = DOMAIN senders
        /\ \A j \in DOMAIN senders : senders'[j].turn = senders[j].turn /\ senders'[j].last = senders[j].last
    BY <1>1, <2>1, WaitingKeeps
  <2>3. Owing => Owing'  BY <1>2, <2>2 DEF Owing, Of
  <2>4. QED  BY <1>2, <1>5, <2>1, <2>3 DEF V3Socket, EndDue, EndOn, Due, Current
<1>7. CASE \E again : Drops(i, again)
  <2>1. UNCHANGED <<base, wire, said>> /\ senders' = Without(i) /\ (Stale(senders[i]) \/ (base.error /\ ~Connected))
    BY <1>7 DEF Drops
  <2>2. \A j \in DOMAIN senders : j # i => \E k \in DOMAIN senders' : senders'[k] = senders[j]
    BY <1>1, <2>1, WithoutKeeps
  <2>3. Due => senders[i].turn # pipe.turn
    BY <2>1 DEF Due, Current, Stale
  <2>4. Due /\ Owing => Owing'  BY <1>2, <2>2, <2>3 DEF Owing, Of
  <2>5. QED  BY <1>2, <1>5, <2>1, <2>4 DEF V3Socket, EndDue, EndOn, Due, Current
<1>8. CASE V3Send(i)
  <2>1. senders' = Without(i) /\ Connected  BY <1>8 DEF V3Send, AtSend
  <2>2. link.ws = "open"  BY <2>1 DEF Connected, V3Socket
  <2>3. wire' = (wire \o Texts(i, 0)) \o Ends(i, 0)  BY <1>8, <2>2 DEF V3Send
  <2>4. base'.error = base.error
    <3> DEFINE x == base.last \/ senders[i].last
    <3>1. base' = [base EXCEPT !.last = x]  BY <1>8, <2>2 DEF V3Send
    <3> HIDE DEF x
    <3>2. QED  BY <1>1, <3>1 DEF Bases
  <2>5. \A j \in DOMAIN senders : j # i => \E k \in DOMAIN senders' : senders'[k] = senders[j]
    BY <1>1, <2>1, WithoutKeeps
  <2> DEFINE r == Texts(i, 0) \o Ends(i, 0)
  <2>6. Texts(i, 0) \in Seq(Messages) /\ Ends(i, 0) \in Seq(Messages)
    <3>1. Rendering(Texts(i, 0), senders[i].turn) /\ Rendering(Ends(i, 0), senders[i].turn)
      BY <1>1, TextsRendering
    <3>2. QED  BY <3>1 DEF Rendering
  <2>7. wire \o Texts(i, 0) \in Seq(Messages)  BY <1>1, <2>6, ConcatProperties
  <2>8. EndOn(wire) => EndOn(wire')
    <3>1. ASSUME NEW k \in DOMAIN wire PROVE k \in DOMAIN wire' /\ wire'[k] = wire[k]
      BY <1>1, <2>3, <2>6, <2>7, ConcatProperties, LenProperties
    <3>2. QED  BY <3>1 DEF EndOn
  <2>9. ASSUME Of(i), senders[i].last PROVE EndOn(wire')
    <3>1. Ends(i, 0) = <<End(pipe.turn, 0)>>  BY <2>9 DEF Ends, Of
    <3>2. Len(Ends(i, 0)) = 1 /\ Ends(i, 0)[1] = End(pipe.turn, 0)  BY <3>1
    <3>3. Len(wire \o Texts(i, 0)) \in Nat  BY <2>7, LenProperties
    <3> DEFINE k == Len(wire \o Texts(i, 0)) + 1
    <3>4. k \in DOMAIN wire' /\ wire'[k] = End(pipe.turn, 0)
      BY <2>3, <2>6, <2>7, <3>2, <3>3, ConcatProperties, LenProperties
    <3>5. End(pipe.turn, 0).turn = pipe.turn /\ End(pipe.turn, 0).kind = "end"  BY DEF End
    <3>6. QED  BY <3>4, <3>5 DEF EndOn
  <2>10. Owing => Owing' \/ EndOn(wire')
    <3>1. SUFFICES ASSUME Owing PROVE Owing' \/ EndOn(wire')  OBVIOUS
    <3>2. PICK j \in DOMAIN senders : Of(j) /\ senders[j].last  BY <3>1 DEF Owing
    <3>3. CASE j = i  BY <2>9, <3>2, <3>3
    <3>4. CASE j # i
      <4>1. PICK k \in DOMAIN senders' : senders'[k] = senders[j]  BY <2>5, <3>4
      <4>2. QED  BY <1>2, <3>2, <4>1 DEF Owing, Of
    <3>5. QED  BY <3>3, <3>4
  <2>11. Due' => Due  BY <1>2, <1>4, <2>4 DEF Due, Current
  <2>12. EndDue'  BY <1>2, <2>8, <2>10, <2>11, EndDueStill
  <2>13. V3Socket'  BY <1>2, <2>2 DEF V3Socket
  <2>14. QED  BY <1>5, <2>12, <2>13
<1>9. QED  BY <1>6, <1>7, <1>8

LEMMA V3Reads ==
    ASSUME LabelInv, V3Socket, EndDue, TurnAlone, Told, NEW more, V3Receive(more)
    PROVE  V3Socket' /\ EndDue' /\ Ongoing
<1>1. /\ TypeInv /\ NextHolds /\ wire \in Seq(Messages) /\ base \in Bases /\ pipe \in Calling
  BY DEF LabelInv, TypeInv
<1>2. /\ tts = "elevenlabsV3" /\ wire # << >> /\ Read(more) /\ UNCHANGED <<tts, link, senders>>
      /\ Yield(<<Hd>>) /\ link.ws \in {"open", "closing", "dying"} /\ ~pipe.over
  BY DEF V3Receive, Reads, Reading
<1>3. Hd \in Messages /\ Hd.turn \in Flying /\ 1 \in DOMAIN wire /\ Hd = wire[1]  BY <1>1, <1>2, ReadWire
<1>4. /\ Ongoing
      /\ pipe'.turn = pipe.turn /\ pipe'.ids = pipe.ids /\ pipe'.cut = pipe.cut
      /\ pipe'.over \/ Plays(Hd)
      /\ Hd.kind # "audio" /\ pipe.turn \in pipe.ids /\ pipe.ids \subseteq {pipe.turn} /\ LabelsIn(base, pipe.ids) =>
            pipe'.over \/ pipe.turn \in said'.ended
  BY <1>1, <1>2, <1>3, YieldOngoing
<1>5. V3Socket'  BY <1>2 DEF V3Socket
<1>6. Due' => Plays(Hd)  BY <1>4 DEF Due
<1>7. Due' => Due
  <2>1. SUFFICES ASSUME Due' PROVE Due  OBVIOUS
  <2>2. base' = Labelled(base, Hd.kind) /\ ~base.error  BY <1>6, <2>1 DEF Plays
  <2>3. pipe.turn \notin said.ended  BY <1>4, <2>1 DEF Due, Ongoing
  <2>4. QED  BY <1>2, <1>4, <2>1, <2>2, <2>3 DEF Due, Current
<1>8. Due' /\ pipe'.left = 0 => Due /\ pipe.left = 0  BY <1>6, <1>7 DEF Plays
<1>9. Owing => Owing'  BY <1>2, <1>4 DEF Owing, Of
<1>10. Due' /\ EndOn(wire) => EndOn(wire')
  <2>1. SUFFICES ASSUME Due', EndOn(wire) PROVE EndOn(wire')  OBVIOUS
  <2>2. PICK k \in DOMAIN wire : wire[k].turn = pipe.turn /\ wire[k].kind = "end"  BY <2>1 DEF EndOn
  <2>3. wire' = (IF more THEN wire ELSE Tail(wire)) /\ (more => Hd.kind = "audio")
    BY <1>2 DEF Read, Hd
  <2>4. CASE more  BY <2>1, <2>3, <2>4
  <2>5. CASE ~more /\ k # 1
    <3>1. Len(Tail(wire)) = Len(wire) - 1 /\ Tail(wire) \in Seq(Messages)
      BY <1>1, <1>2, HeadTailProperties
    <3>2. k \in 1..Len(wire) /\ Len(wire) \in Nat /\ DOMAIN Tail(wire) = 1..(Len(wire) - 1)
      BY <1>1, <3>1, LenProperties
    <3>3. k - 1 \in DOMAIN Tail(wire) /\ k - 1 \in 1..Len(Tail(wire))  BY <2>5, <3>1, <3>2
    <3>4. Tail(wire)[k - 1] = wire[k]
      <4>1. Tail(wire)[k - 1] = wire[(k - 1) + 1]  BY <1>1, <1>2, <3>3, HeadTailProperties
      <4>2. (k - 1) + 1 = k  BY <3>2
      <4>3. QED  BY <4>1, <4>2
    <3>5. QED  BY <2>2, <2>3, <2>5, <3>3, <3>4 DEF EndOn
  <2>6. CASE ~more /\ k = 1
    <3>1. Hd.kind # "audio" /\ Hd.turn = pipe.turn  BY <1>3, <2>2, <2>6
    <3>2. pipe.turn \in pipe.ids  BY <1>7, <2>1 DEF Due, Current
    <3>3. LabelsIn(base, pipe.ids)
      BY <1>1, <1>2, <1>3, <3>1, <3>2 DEF NextHolds, Watched, Unsilenced, Exact
    <3>4. pipe'.over \/ pipe.turn \in said'.ended  BY <1>4, <3>1, <3>2, <3>3 DEF TurnAlone
    <3>5. QED  BY <1>4, <2>1, <3>4 DEF Due
  <2>7. QED  BY <2>4, <2>5, <2>6
<1>11. EndDue'  BY <1>4, <1>8, <1>9, <1>10, EndDueStill
<1>12. QED  BY <1>4, <1>5, <1>11

\* The end of a socket that was given up, a dial, and the rest.
LEMMA V3Rest ==
    ASSUME LabelInv, V3Socket, EndDue, Steady', tts = "elevenlabsV3",
           V3MeetsEnd \/ GivesUp \/ Lose \/ V3Dial \/ UNCHANGED synVars
    PROVE  V3Socket' /\ EndDue'
<1>1. TypeInv /\ link \in Sockets  BY DEF LabelInv, TypeInv
<1>2. CASE V3MeetsEnd
  <2>1. /\ MeetsEnd /\ link' = [link EXCEPT !.ws = "none"] /\ UNCHANGED <<tts, senders, wire>> /\ ~pipe.over
    BY <1>2 DEF V3MeetsEnd, NoMoreSocket
  <2>2. link.ws = "dying" /\ wire = << >>  BY <2>1 DEF MeetsEnd, V3Socket
  <2>3. Yield(<< >>)  BY <1>2, <2>2 DEF V3MeetsEnd
  <2>4. UNCHANGED <<pipe, base, said>>  BY <2>3, YieldNothing
  <2>5. link'.ws = "none"  BY <1>1, <2>1 DEF Sockets
  <2>6. QED  BY <1>1, <2>1, <2>2, <2>4, <2>5 DEF V3Socket, EndDue, EndOn, Due, Current, Owing, Of
<1>3. CASE GivesUp
  <2>1. pipe'.over /\ UNCHANGED <<link, wire>>  BY <1>1, <1>3, GivesUpOngoing
  <2>2. QED  BY <2>1 DEF V3Socket, EndDue, Due
<1>4. CASE Lose  BY <1>1, <1>4, LoseSteady
<1>5. CASE V3Dial
  <2> DEFINE fresh == [own EXCEPT !.drop = FALSE]
             rejects == TRUE
  <2>1. Dial(fresh, FALSE, rejects) /\ rejects \in BOOLEAN  BY <1>5 DEF V3Dial
  <2> HIDE DEF fresh, rejects
  <2>2. /\ link.ws = "none" /\ UNCHANGED <<tts, pipe, senders, said>>
        /\ base.error => base'.error
        /\ (link'.ws = "open" /\ wire' = << >>) \/ (link'.ws = "none" /\ wire' = wire)
    BY <1>1, <2>1, DialOngoing DEF Down, V3Socket
  <2>3. wire = << >>  BY <2>2 DEF V3Socket
  <2>4. Due' => Due  BY <2>2 DEF Due, Current
  <2>5. QED  BY <2>2, <2>3, <2>4 DEF V3Socket, EndDue, EndOn, Owing, Of
<1>6. CASE UNCHANGED synVars
  <2>1. UNCHANGED <<tts, pipe, base, link, senders, wire, said>>  BY <1>6 DEF synVars
  <2>2. QED  BY <1>1, <2>1 DEF V3Socket, EndDue, EndOn, Due, Current, Owing, Of
<1>7. QED  BY <1>2, <1>3, <1>4, <1>5, <1>6

LEMMA V3Ongoing ==
    ASSUME TypeInv, tts = "elevenlabsV3", Steady',
           \/ \E i \in DOMAIN senders : Waits(i, Connected) \/ (\E again : Drops(i, again)) \/ V3Send(i)
           \/ \E more : V3Receive(more)
           \/ V3MeetsEnd \/ GivesUp \/ Lose \/ V3Dial \/ UNCHANGED synVars
    PROVE  Ongoing
<1>1. link \in Sockets /\ pipe \in Calling /\ said \in Verdicts /\ link.lost \in Nat
  BY DEF TypeInv, Sockets
<1>2. CASE \E i \in DOMAIN senders : Waits(i, Connected) \/ (\E again : Drops(i, again)) \/ V3Send(i)
  <2>1. PICK i \in DOMAIN senders : Waits(i, Connected) \/ (\E again : Drops(i, again)) \/ V3Send(i)
    BY <1>2
  <2>2. UNCHANGED <<tts, pipe, link>> /\ said' \in {said, Given(said, i)}
    BY <2>1 DEF Waits, Drops, V3Send
  <2>3. said'.ended = said.ended  BY <1>1, <2>2, GivenType
  <2>4. QED  BY <2>2, <2>3, StillOngoing
<1>3. CASE \E more : V3Receive(more)
  <2>1. PICK more : V3Receive(more)  BY <1>3
  <2>2. wire # << >> /\ Read(more) /\ UNCHANGED <<tts, link>> /\ Yield(<<Hd>>)
    BY <2>1 DEF V3Receive, Reads, Reading
  <2>3. Hd \in Messages  BY <2>2, ReadWire
  <2>4. QED  BY <2>2, <2>3, YieldOngoing
<1>4. CASE V3MeetsEnd
  <2>1. link' = [link EXCEPT !.ws = "none"] /\ UNCHANGED tts  BY <1>4 DEF V3MeetsEnd, NoMoreSocket
  <2>2. link'.lost = link.lost  BY <1>1, <2>1 DEF Sockets
  <2>3. \/ Raises \/ Yield(<< >>) \/ Yield(<<End(own.seq, 0)>>)
    BY <1>4 DEF V3MeetsEnd, Raises
  <2>4. End(own.seq, 0) \in Messages
    <3>1. own.seq \in 0..MaxTurn  BY StreamOwnType DEF StreamOwns
    <3>2. QED  BY <3>1, EndType
  <2>5. CASE Raises
    <3> DEFINE over == TRUE
               left == 0
    <3>1. over \in BOOLEAN /\ left \in {0, pipe.left} /\ pipe' = [pipe EXCEPT !.over = over, !.left = left]
      BY <2>5 DEF Raises
    <3> HIDE DEF over, left
    <3>2. pipe'.overlap = pipe.overlap /\ pipe'.silent = pipe.silent  BY <1>1, <3>1, OverFields
    <3>3. QED  BY <1>1, <2>1, <2>2, <2>5, <3>2 DEF Ongoing, Raises
  <2>6. CASE Yield(<< >>)
    <3>1. UNCHANGED <<pipe, base, said>>  BY <2>6, YieldNothing
    <3>2. QED  BY <1>1, <2>1, <2>2, <3>1 DEF Ongoing
  <2>7. CASE Yield(<<End(own.seq, 0)>>)  BY <2>1, <2>2, <2>4, <2>7, YieldOngoing
  <2>8. QED  BY <2>3, <2>5, <2>6, <2>7
<1>5. CASE GivesUp  BY <1>5, GivesUpOngoing
<1>6. CASE Lose  BY <1>6, LoseSteady
<1>7. CASE V3Dial
  <2> DEFINE fresh == [own EXCEPT !.drop = FALSE]
             rejects == TRUE
  <2>1. Dial(fresh, FALSE, rejects) /\ rejects \in BOOLEAN  BY <1>7 DEF V3Dial
  <2> HIDE DEF fresh, rejects
  <2>2. QED  BY <2>1, DialOngoing
<1>8. CASE UNCHANGED synVars
  <2>1. UNCHANGED <<tts, pipe, link, said>>  BY <1>8 DEF synVars
  <2>2. QED  BY <2>1, StillOngoing
<1>9. QED  BY <1>2, <1>3, <1>4, <1>5, <1>6, <1>7, <1>8

LEMMA V3Next ==
    ASSUME LabelInv, V3Inv, [SpeakNext]_synVars
    PROVE  V3Inv'
<1>1. TypeInv  BY DEF LabelInv
<1>2. TypeInv' /\ tts' = tts
  BY <1>1, SpeakStep, StartTurnStep, RetireStep, InvalidateStep DEF Asks, Barges, Onward
<1>3. link'.lost \in Nat  BY <1>2 DEF TypeInv, Sockets
<1> SUFFICES ASSUME tts = "elevenlabsV3", Steady'
             PROVE  TurnAlone' /\ V3Socket' /\ EndDue'
  BY <1>2 DEF V3Inv
<1>4. tts \in Closing  BY DEF Closing
<1>5. CASE Calls
  <2>1. TurnAlone /\ V3Socket /\ EndDue  BY <1>1, <1>5, CallsSteady DEF V3Inv
  <2>2. QED  BY <1>4, <1>5, <2>1, AloneCalls, V3Starts
<1>6. CASE Push(TRUE, V3Push, 0)
  <2>1. Asks  BY <1>1, <1>6, PushesStep DEF Pushes
  <2>2. pipe' = [pipe EXCEPT !.left = @ - 1] /\ link' = link  BY <1>6 DEF Push
  <2>3. TurnAlone /\ V3Socket /\ EndDue  BY <1>1, <1>2, <2>2, PushSteady DEF V3Inv
  <2>4. QED  BY <1>4, <1>6, <2>1, <2>3, AloneAsks, V3Pushes
<1>7. CASE V3Interrupt
  <2>1. Barges /\ pipe' = CutPipe  BY <1>1, <1>7, V3InterruptStep DEF V3Interrupt, Interrupted
  <2>2. link'.lost = link.lost
    <3>1. link \in Sockets  BY <1>1 DEF TypeInv
    <3>2. link' = [link EXCEPT !.ws = "dying"] \/ link' = [link EXCEPT !.ws = "none"]
      BY <1>7 DEF V3Interrupt
    <3>3. QED  BY <3>1, <3>2 DEF Sockets
  <2>3. TurnAlone /\ V3Socket /\ EndDue  BY <1>1, <2>1, <2>2, CutSteady DEF V3Inv
  <2>4. QED  BY <1>4, <1>7, <2>1, <2>3, AloneBarges, V3Cuts
<1>8. CASE \/ \E i \in DOMAIN senders : Waits(i, Connected) \/ (\E again : Drops(i, again)) \/ V3Send(i)
           \/ \E more : V3Receive(more)
           \/ V3MeetsEnd \/ GivesUp \/ Lose \/ V3Dial \/ UNCHANGED synVars
  <2>1. Ongoing  BY <1>1, <1>8, V3Ongoing
  <2>2. Steady  BY <1>1, <1>3, <2>1, OngoingSteady
  <2>3. TurnAlone /\ V3Socket /\ EndDue  BY <2>2 DEF V3Inv
  <2>4. Onward
    <3>2. (\E i \in DOMAIN senders : Waits(i, Connected) \/ (\E again : Drops(i, again)) \/ V3Send(i)) => Onward
      BY <1>1, WaitsStep, DropsStep, V3SendStep
    <3>3. (\E more : V3Receive(more)) => Onward  BY <1>1, V3ReceiveStep
    <3>4. V3MeetsEnd => Onward  BY <1>1, V3MeetsEndStep
    <3>5. GivesUp \/ Lose \/ UNCHANGED synVars => Onward  BY <1>1, GivesUpStep, LoseStep, StutterStep
    <3>6. V3Dial => Onward  BY <1>1, DialsStep DEF Dials
    <3>7. QED  BY <1>8, <3>2, <3>3, <3>4, <3>5, <3>6
  <2>5. TurnAlone'  BY <2>1, <2>3, <2>4, AloneOnward
  <2>6. V3Socket' /\ EndDue'
    BY <1>8, <2>2, <2>3, V3Sends, V3Reads, V3Rest DEF Steady, Alone
  <2>7. QED  BY <2>5, <2>6
<1>9. QED  BY <1>1, <1>5, <1>6, <1>7, <1>8, V3Cases

---------------------------------------------------------------------------
\* Kalpa.  A turn that was pushed whole is owed its end by a sender, or by a slot whose
\* response is on its way.

\* The slot is taken, by a turn that was not barged in on.
Live == ~own.slot.idle /\ ~own.slot.gone

\* The socket was not lost; nothing failed.
NoErrors ==
    /\ link.ws \in {"none", "open", "closing"} /\ ~link.unmet /\ ~own.crossed
    /\ \A k \in DOMAIN wire : wire[k].kind # "error"
\* The open utterance is the turn's that is spoken.
UtteranceMine ==
    /\ own.dirty = 0
    /\ own.utt.turn # 0 => own.utt.turn = pipe.turn /\ Current /\ (~own.slot.idle => ~own.slot.gone)
\* The senders of that turn were passed by by no interruption; the last one comes last.
SendersMine ==
    /\ own.at = "end" => Me.last
    /\ \A i \in DOMAIN senders : ~senders[i].text => senders[i].last
    /\ Current => \A i \in DOMAIN senders : Of(i) =>
          /\ senders[i].epoch = own.igen
          /\ senders[i].last => pipe.left = 0 /\ \A j \in DOMAIN senders : Of(j) => j <= i
\* A live slot: its response is not cancelled, and its turn's labels are open.
LiveSlot ==
    Live => /\ \A k \in DOMAIN wire : wire[k].kind # "cancelled"
            /\ link.ws = "closing" => wire = << >>
            /\ own.utt.turn = 0 => NoneLeft
            /\ ~pipe.over => base.open
\* The receiver knows of the response r, or is about to.
Announced(r) == own.resp.rid = r \/ (wire # << >> /\ wire[1].kind = "created" /\ wire[1].ctx = r)
Responding ==
    /\ \A k \in DOMAIN wire : wire[k].kind = "created" => k = 1 /\ own.resp.rid = 0
    /\ \A k \in DOMAIN wire : wire[k].kind \in {"done", "cancelled"} => Announced(wire[k].ctx)
    /\ Up /\ own.svc.resp # 0 => Announced(own.svc.resp)
    /\ Up /\ own.svc.resp = 0 /\ NoSettle(wire) => wire = << >> /\ own.resp.rid = 0
\* A turn that ended has nothing left to say.
Ended ==
    /\ Current /\ pipe.turn \in said.ended =>
          own.slot.idle /\ (own.utt.dead \/ (NoneLeft /\ own.utt.turn = 0))
    /\ own.utt.dead /\ ~pipe.over => pipe.turn \in said.ended
    /\ ~said.late
\* A turn whose senders are still to come is open.
SenderOpen ==
    Current /\ pipe.turn \notin said.ended /\ ~pipe.over /\ (\E i \in DOMAIN senders : Of(i))
        => base.open
\* The end is on its way: the text was flushed, or its socket is about to close.
Answer ==
    /\ Live /\ own.utt.turn = 0
    /\ \/ link.ws = "closing"
       \/ Up /\ (own.svc.flushed \/ \E k \in DOMAIN wire : wire[k].kind = "done")
\* A sender without text will find the utterance open that it is to flush.
Textless ==
    \/ pipe.left = 1 /\ pipe.turn \in Pairs
    \/ \E i \in DOMAIN senders : Of(i) /\ ~senders[i].text
Texted == own.utt.turn # 0 \/ \E j \in DOMAIN senders : Of(j) /\ senders[j].text
Owed ==
    Due => /\ Textless => Texted
           /\ own.at = "end" /\ Of(1) => own.utt.turn # 0
           /\ pipe.left = 0 => Owing \/ Answer

Going ==
    NoErrors /\ UtteranceMine /\ SendersMine /\ LiveSlot /\ Responding /\ Ended /\ SenderOpen /\ Owed
KalpaGoes == LabelInv /\ EndInv /\ ApartInv /\ OnceInv /\ TurnAlone /\ Steady /\ tts = "kalpa" /\ Going

LEMMA GoesTypes ==
    ASSUME TypeInv, tts = "kalpa"
    PROVE  /\ own \in KalpaOwns /\ senders \in Seq(Senders) /\ wire \in Seq(Messages)
           /\ pipe \in Calling /\ base \in Bases /\ link \in Sockets /\ said \in Verdicts
           /\ own.utt.turn \in 0..MaxTurn /\ own.utt.dead \in BOOLEAN
           /\ own.slot.idle \in BOOLEAN /\ own.slot.gone \in BOOLEAN
           /\ own.resp.rid \in Nat /\ own.svc \in Services /\ own.at \in {"text", "end"}
           /\ pipe.turn \in Nat /\ pipe.left \in {0, 1, 2} /\ pipe.ids \subseteq Turns
           /\ pipe.cut \in BOOLEAN /\ pipe.over \in BOOLEAN /\ link.n \in Nat
<1>1. own \in KalpaOwns  BY KalpaOwnType
<1>2. /\ own.utt.turn \in 0..MaxTurn /\ own.utt.dead \in BOOLEAN /\ own.svc \in Services
      /\ own.slot.idle \in BOOLEAN /\ own.slot.gone \in BOOLEAN /\ own.resp.rid \in Nat
      /\ own.at \in {"text", "end"}
  BY <1>1, KalpaParts, KalpaType
<1>3. MaxTurn \in Nat  BY SynthesizerAssumption
<1>4. pipe.turn \in 0..MaxTurn /\ pipe.left \in {0, 1, 2} /\ pipe.ids \subseteq Turns /\ pipe.cut \in BOOLEAN
      /\ pipe.over \in BOOLEAN
  BY DEF TypeInv, Calling
<1>5. QED  BY <1>1, <1>2, <1>3, <1>4 DEF TypeInv, Sockets

\* What goes with Going.
LEMMA GoesFacts ==
    ASSUME KalpaGoes
    PROVE  /\ TypeInv /\ Told /\ Calm /\ CalmParts /\ CalmOnce /\ KeepInv /\ LockHeld /\ Epochs /\ CutQuiet
           /\ Awaits => own.utt.turn = 0 /\ ~Live
           /\ Fresh => Current /\ Me.turn = pipe.turn /\ 1 \in DOMAIN senders /\ Of(1)
           /\ Live => own.slot.slot = pipe.turn /\ Current
           /\ own.utt.turn # 0 => own.utt.turn = pipe.turn /\ Current
           /\ own.utt.dead => own.utt.turn # 0
           /\ own.utt.dead /\ ~pipe.over => pipe.turn \in said.ended /\ own.slot.idle
           /\ own.slot.idle => wire = << >>
<1>1. /\ TypeInv /\ Told /\ tts = "kalpa" /\ CutQuiet /\ ApartInv /\ OnceInv /\ Epochs /\ SlotValid
      /\ pipe.ids \subseteq {pipe.turn}
  BY DEF KalpaGoes, LabelInv, Steady, Alone, EndInv, TurnAlone
<1>2. NoErrors /\ UtteranceMine /\ LiveSlot /\ Ended  BY DEF KalpaGoes, Going
<1>3. Calm /\ CalmParts /\ CalmOnce /\ KeepInv /\ LockHeld /\ ChunksOwn
  BY <1>1, <1>2 DEF Calm, Met, NoErrors, ApartInv, OnceInv, KeepInv
<1>4. Fresh => Current /\ Me.turn = pipe.turn /\ 1 \in DOMAIN senders /\ Of(1)
  <2>1. SUFFICES ASSUME Fresh PROVE Current /\ Me.turn = pipe.turn /\ 1 \in DOMAIN senders /\ Of(1)
    OBVIOUS
  <2>2. ~pipe.cut /\ Me.turn \in pipe.ids  BY <1>1, <2>1, FreshCall
  <2>3. 1 \in DOMAIN senders  BY <1>1, <2>1, MeType DEF Fresh
  <2>4. QED  BY <1>1, <2>2, <2>3 DEF Current, Of, Me
<1>5. Live => own.slot.slot = pipe.turn /\ Current
  BY <1>1 DEF Live, SlotValid, Epochs, Current
<1>6. own.utt.turn # 0 => own.utt.turn = pipe.turn /\ Current  BY <1>2 DEF UtteranceMine
<1>7. Awaits => own.utt.turn = 0 /\ ~Live
  <2>1. SUFFICES ASSUME Awaits PROVE own.utt.turn = 0 /\ ~Live  OBVIOUS
  <2>2. own.slotted /\ senders # << >> /\ Me.waits /\ ~Retired(Me)
    BY <1>3, <2>1 DEF Awaits, LockHeld
  <2>3. 1 \in DOMAIN senders
    BY <1>1, <2>2, LenProperties, EmptySeq DEF TypeInv
  <2>4. Me.turn = pipe.turn  BY <1>1, <2>2 DEF Retired
  <2>5. own.utt.turn # Me.turn  BY <1>3, <2>2 DEF CalmOnce, SlotAwaited
  <2>6. own.utt.turn = 0  BY <1>6, <2>4, <2>5
  <2>7. Of(1)  BY <2>4 DEF Of, Me
  <2>8. ~NoneLeft  BY <2>3, <2>7 DEF NoneLeft
  <2>9. QED  BY <1>2, <2>6, <2>8 DEF LiveSlot
<1>8. own.utt.dead => own.utt.turn # 0  BY <1>3 DEF ChunksOwn
<1>9. own.utt.dead /\ ~pipe.over => pipe.turn \in said.ended /\ own.slot.idle
  BY <1>2, <1>6, <1>8 DEF Ended
<1>10. own.slot.idle => wire = << >>  BY <1>3 DEF CalmParts, SlotEmpty
<1>11. QED  BY <1>1, <1>3, <1>4, <1>5, <1>6, <1>7, <1>8, <1>9, <1>10

---------------------------------------------------------------------------
\* The senders become fewer, in their order.

SameSender(s, t) == s.turn = t.turn /\ s.text = t.text /\ s.last = t.last /\ s.epoch = t.epoch
\* All senders stay but m, if it is one.
Thinned(m) ==
    \E h \in [DOMAIN senders' -> DOMAIN senders] :
       /\ \A j \in DOMAIN senders' : SameSender(senders'[j], senders[h[j]])
       /\ \A j, k \in DOMAIN senders' : j < k => h[j] < h[k]
       /\ \A i \in DOMAIN senders : i # m => \E j \in DOMAIN senders' : h[j] = i

LEMMA ThinnedSame == ASSUME senders \in Seq(Senders), senders' = senders PROVE Thinned(0)
<1>1. \A i \in DOMAIN senders : SameSender(senders[i], senders[i])  BY DEF SameSender
<1> DEFINE h == [j \in DOMAIN senders |-> j]
<1>2. h \in [DOMAIN senders' -> DOMAIN senders] /\ \A j \in DOMAIN senders : h[j] = j  OBVIOUS
<1> HIDE DEF h
<1>3. QED  BY <1>1, <1>2 DEF Thinned

LEMMA ThinnedWaits ==
    ASSUME senders \in Seq(Senders), NEW i \in DOMAIN senders, senders' = [senders EXCEPT ![i].waits = TRUE]
    PROVE  Thinned(0)
<1>1. DOMAIN senders' = DOMAIN senders /\ \A j \in DOMAIN senders : SameSender(senders'[j], senders[j])
  BY WaitingKeeps DEF SameSender
<1> DEFINE h == [j \in DOMAIN senders |-> j]
<1>2. h \in [DOMAIN senders' -> DOMAIN senders] /\ \A j \in DOMAIN senders : h[j] = j  BY <1>1
<1> HIDE DEF h
<1>3. QED  BY <1>1, <1>2 DEF Thinned

LEMMA ThinnedWithout ==
    ASSUME senders \in Seq(Senders), NEW i \in DOMAIN senders, senders' = Without(i)
    PROVE  Thinned(i)
<1>1. /\ senders' \in Seq(Senders) /\ Len(senders') = Len(senders) - 1
      /\ \A j \in DOMAIN senders' : senders'[j] = IF j < i THEN senders[j] ELSE senders[j + 1]
  BY WithoutType
<1>2. /\ Len(senders) \in Nat /\ DOMAIN senders = 1..Len(senders)
      /\ DOMAIN senders' = 1..(Len(senders) - 1) /\ i \in Nat
  BY <1>1, LenProperties
<1> DEFINE h == [j \in DOMAIN senders' |-> IF j < i THEN j ELSE j + 1]
<1>3. h \in [DOMAIN senders' -> DOMAIN senders]  BY <1>2
<1>4. \A j \in DOMAIN senders' : h[j] = IF j < i THEN j ELSE j + 1  OBVIOUS
<1> HIDE DEF h
<1>5. \A j \in DOMAIN senders' : SameSender(senders'[j], senders[h[j]])  BY <1>1, <1>4 DEF SameSender
<1>6. \A j, k \in DOMAIN senders' : j < k => h[j] < h[k]  BY <1>2, <1>4
<1>7. ASSUME NEW n \in DOMAIN senders, n # i PROVE \E j \in DOMAIN senders' : h[j] = n
  <2>1. CASE n < i
    <3>1. n \in DOMAIN senders'  BY <1>2, <2>1
    <3>2. QED  BY <1>4, <2>1, <3>1
  <2>2. CASE n > i
    <3>1. n - 1 \in DOMAIN senders' /\ ~(n - 1 < i) /\ (n - 1) + 1 = n  BY <1>2, <2>2
    <3>2. QED  BY <1>4, <3>1
  <2>3. QED  BY <1>2, <1>7, <2>1, <2>2
<1>8. QED  BY <1>3, <1>5, <1>6, <1>7 DEF Thinned

LEMMA ThinnedTail ==
    ASSUME senders \in Seq(Senders), senders # << >>, senders' = Tail(senders)
    PROVE  Thinned(1) /\ 1 \in DOMAIN senders /\ Len(senders) \in Nat
           /\ DOMAIN senders' = 1..(Len(senders) - 1) /\ \A j \in DOMAIN senders' : senders'[j] = senders[j + 1]
<1>1. /\ senders' \in Seq(Senders) /\ Len(senders') = Len(senders) - 1
      /\ \A j \in 1..Len(senders') : senders'[j] = senders[j + 1]
  BY HeadTailProperties
<1>2. /\ Len(senders) \in Nat /\ DOMAIN senders = 1..Len(senders) /\ Len(senders) # 0
      /\ DOMAIN senders' = 1..(Len(senders) - 1) /\ DOMAIN senders' = 1..Len(senders')
  BY <1>1, LenProperties, EmptySeq
<1>3. \A j \in DOMAIN senders' : senders'[j] = senders[j + 1]  BY <1>1, <1>2
<1> DEFINE h == [j \in DOMAIN senders' |-> j + 1]
<1>4. h \in [DOMAIN senders' -> DOMAIN senders]  BY <1>2
<1>5. \A j \in DOMAIN senders' : h[j] = j + 1  OBVIOUS
<1> HIDE DEF h
<1>6. \A j \in DOMAIN senders' : SameSender(senders'[j], senders[h[j]])  BY <1>3, <1>5 DEF SameSender
<1>7. \A j, k \in DOMAIN senders' : j < k => h[j] < h[k]  BY <1>2, <1>5
<1>8. ASSUME NEW n \in DOMAIN senders, n # 1 PROVE \E j \in DOMAIN senders' : h[j] = n
  <2>1. n - 1 \in DOMAIN senders' /\ (n - 1) + 1 = n  BY <1>2, <1>8
  <2>2. QED  BY <1>5, <2>1
<1>9. 1 \in DOMAIN senders  BY <1>2
<1>10. QED  BY <1>2, <1>3, <1>4, <1>6, <1>7, <1>8, <1>9 DEF Thinned

\* What is said of the turn's senders is said of those that are left.
LEMMA ThinnedTurn ==
    ASSUME senders \in Seq(Senders), senders' \in Seq(Senders), NEW m, Thinned(m), pipe'.turn = pipe.turn, pipe'.left = pipe.left,
           pipe'.ids = pipe.ids, pipe'.cut = pipe.cut, own'.igen = own.igen
    PROVE  /\ (\E i \in DOMAIN senders' : Of(i)') => \E i \in DOMAIN senders : Of(i)
           /\ NoneLeft => NoneLeft'
           /\ (\A i \in DOMAIN senders : ~senders[i].text => senders[i].last)
                => \A i \in DOMAIN senders' : ~senders'[i].text => senders'[i].last
           /\ SendersMine /\ (own'.at = "end" => Me'.last) => SendersMine'
           /\ Textless' => Textless
           /\ ~(m \in DOMAIN senders /\ Of(m)) =>
                 /\ Owing => Owing'
                 /\ Texted /\ own'.utt.turn = own.utt.turn => Texted'
           /\ Owing => Owing' \/ (m \in DOMAIN senders /\ Of(m) /\ senders[m].last)
           /\ Texted => Texted' \/ own.utt.turn # 0 \/ (m \in DOMAIN senders /\ Of(m) /\ senders[m].text)
<1>1. PICK h \in [DOMAIN senders' -> DOMAIN senders] :
       /\ \A j \in DOMAIN senders' : SameSender(senders'[j], senders[h[j]])
       /\ \A j, k \in DOMAIN senders' : j < k => h[j] < h[k]
       /\ \A i \in DOMAIN senders : i # m => \E j \in DOMAIN senders' : h[j] = i
  BY DEF Thinned
<1>2. \A j \in DOMAIN senders' : /\ h[j] \in DOMAIN senders /\ (Of(j)' <=> Of(h[j]))
                                 /\ senders'[j].text = senders[h[j]].text
                                 /\ senders'[j].last = senders[h[j]].last
                                 /\ senders'[j].epoch = senders[h[j]].epoch
  BY <1>1 DEF SameSender, Of
<1>3. (\E i \in DOMAIN senders' : Of(i)') => \E i \in DOMAIN senders : Of(i)  BY <1>2
<1>4. NoneLeft => NoneLeft'  BY <1>2 DEF NoneLeft
<1>5. (\A i \in DOMAIN senders : ~senders[i].text => senders[i].last)
         => \A i \in DOMAIN senders' : ~senders'[i].text => senders'[i].last
  BY <1>2
<1>6. ASSUME SendersMine, own'.at = "end" => Me'.last PROVE SendersMine'
  <2>1. ASSUME Current, NEW i \in DOMAIN senders', Of(i)'
        PROVE  /\ senders'[i].epoch = own.igen
               /\ senders'[i].last => pipe.left = 0
    BY <1>2, <1>6, <2>1 DEF SendersMine
  <2>2. ASSUME Current, NEW i \in DOMAIN senders', Of(i)', senders'[i].last, NEW j \in DOMAIN senders', Of(j)'
        PROVE  j <= i
    <3>1. h[j] <= h[i]  BY <1>2, <1>6, <2>2 DEF SendersMine
    <3>2. h[i] \in Nat /\ h[j] \in Nat /\ i \in Int /\ j \in Int
      <4>1. DOMAIN senders = 1..Len(senders) /\ Len(senders) \in Nat  BY LenProperties
      <4>2. h[i] \in Nat /\ h[j] \in Nat  BY <1>2, <4>1
      <4>3. DOMAIN senders' = 1..Len(senders') /\ Len(senders') \in Nat  BY LenProperties
      <4>4. QED  BY <4>2, <4>3
    <3>3. i < j => h[i] < h[j]  BY <1>1
    <3>4. QED  BY <3>1, <3>2, <3>3
  <2>4. QED  BY <1>5, <1>6, <2>1, <2>2 DEF SendersMine, Current
<1>7. Textless' => Textless  BY <1>2 DEF Textless
<1>8. Owing => Owing' \/ (m \in DOMAIN senders /\ Of(m) /\ senders[m].last)
  <2>1. ASSUME NEW i \in DOMAIN senders, Of(i), senders[i].last, i # m PROVE Owing'
    <3>1. PICK j \in DOMAIN senders' : h[j] = i  BY <1>1, <2>1
    <3>2. QED  BY <1>2, <2>1, <3>1 DEF Owing
  <2>2. QED  BY <2>1 DEF Owing
<1>9. ASSUME NEW i \in DOMAIN senders, Of(i), senders[i].text, i # m PROVE Texted'
  <2>1. PICK j \in DOMAIN senders' : h[j] = i  BY <1>1, <1>9
  <2>2. QED  BY <1>2, <1>9, <2>1 DEF Texted
<1>10. Texted => Texted' \/ own.utt.turn # 0 \/ (m \in DOMAIN senders /\ Of(m) /\ senders[m].text)
  BY <1>9 DEF Texted
<1>11. ~(m \in DOMAIN senders /\ Of(m)) /\ Texted /\ own'.utt.turn = own.utt.turn => Texted'
  BY <1>9 DEF Texted
<1>12. QED  BY <1>3, <1>4, <1>5, <1>6, <1>7, <1>8, <1>11, <1>10

---------------------------------------------------------------------------
\* A sender goes on or leaves, and nothing is sent.

LEMMA GoesThin ==
    ASSUME KalpaGoes, senders' \in Seq(Senders), UNCHANGED <<tts, pipe, base, link, wire, said>>,
           Alike(own', own), NEW m, Thinned(m),
           own'.at = "end" => Me'.last, own'.at = "end" /\ Due /\ Of(1)' => own.utt.turn # 0,
           m \in DOMAIN senders /\ Of(m) => ~Due
    PROVE  Going'
<1>1. Going /\ TypeInv /\ senders \in Seq(Senders)  BY GoesTypes DEF KalpaGoes, LabelInv
<1>2. /\ own'.igen = own.igen /\ own'.utt = own.utt /\ own'.dirty = own.dirty /\ own'.slot = own.slot
      /\ own'.resp = own.resp /\ own'.svc = own.svc /\ own'.crossed = own.crossed
  BY DEF Alike
<1>3. /\ (\E i \in DOMAIN senders' : Of(i)') => \E i \in DOMAIN senders : Of(i)
      /\ NoneLeft => NoneLeft'
      /\ SendersMine /\ (own'.at = "end" => Me'.last) => SendersMine'
      /\ Textless' => Textless
      /\ ~(m \in DOMAIN senders /\ Of(m)) => /\ Owing => Owing'
                                             /\ Texted /\ own'.utt.turn = own.utt.turn => Texted'
  BY <1>1, <1>2, ThinnedTurn
<1>4. Due' => Due  BY DEF Due, Current
<1>5. Live' <=> Live  BY <1>2 DEF Live
<1>6. NoErrors'  BY <1>1, <1>2 DEF Going, NoErrors
<1>7. UtteranceMine'  BY <1>1, <1>2 DEF Going, UtteranceMine, Current
<1>8. SendersMine'  BY <1>1, <1>3 DEF Going
<1>9. LiveSlot'  BY <1>1, <1>2, <1>3, <1>5 DEF Going, LiveSlot
<1>10. Responding'  BY <1>1, <1>2 DEF Going, Responding, Announced, Up
<1>11. Ended'  BY <1>1, <1>2, <1>3 DEF Going, Ended, Current
<1>12. SenderOpen'  BY <1>1, <1>3 DEF Going, SenderOpen, Current
<1>13. Owed'
  <2>1. SUFFICES ASSUME Due' PROVE /\ Textless' => Texted'
                                   /\ own'.at = "end" /\ Of(1)' => own'.utt.turn # 0
                                   /\ pipe'.left = 0 => Owing' \/ Answer'
    BY DEF Owed
  <2>2. Due /\ ~(m \in DOMAIN senders /\ Of(m))  BY <1>4, <2>1
  <2>4. Answer => Answer'  BY <1>2, <1>5 DEF Answer, Up
  <2>5. (Textless => Texted) /\ (pipe.left = 0 => Owing \/ Answer)  BY <1>1, <2>2 DEF Going, Owed
  <2>6. QED  BY <1>2, <1>3, <2>1, <2>2, <2>4, <2>5
<1>14. QED  BY <1>6, <1>7, <1>8, <1>9, <1>10, <1>11, <1>12, <1>13 DEF Going

LEMMA GoesStarts ==
    ASSUME KalpaGoes, TypeInv', NEW i \in DOMAIN senders, KalpaStarts(i)
    PROVE  Going'
<1>1. /\ TypeInv /\ tts = "kalpa" /\ LockHeld /\ SendersMine /\ Owed  BY GoesFacts DEF KalpaGoes, Going
<1>2. /\ senders \in Seq(Senders) /\ own \in KalpaOwns /\ senders' \in Seq(Senders)
  BY <1>1, GoesTypes DEF TypeInv
<1>3. UNCHANGED <<tts, pipe, base, link, wire, said>> /\ own' = own  BY DEF KalpaStarts
<1>4. Alike(own', own)  BY <1>3 DEF Alike
<1>5. own.at = "end" => Me' = Me
  <2>1. SUFFICES ASSUME own.at = "end" PROVE Me' = Me  OBVIOUS
  <2>2. senders # << >> /\ Me.waits  BY <1>1, <2>1 DEF LockHeld
  <2>3. QED  BY <1>2, <2>2, StartsOthers
<1>6. own'.at = "end" => Me'.last  BY <1>1, <1>3, <1>5 DEF SendersMine
<1>7. own'.at = "end" /\ Due /\ Of(1)' => own.utt.turn # 0
  BY <1>1, <1>3, <1>5 DEF Owed, Of, Me
<1>8. CASE senders' = Without(i) /\ Retired(senders[i])
  <2>1. Thinned(i)  BY <1>2, <1>8, ThinnedWithout
  <2>2. Of(i) => ~Due  BY <1>1, <1>8 DEF Due, SendersMine, Retired, Current, Of
  <2>3. QED  BY <1>2, <1>3, <1>4, <1>6, <1>7, <2>1, <2>2, GoesThin
<1>9. CASE senders' = [senders EXCEPT ![i].waits = TRUE]
  <2>1. Thinned(0)  BY <1>2, <1>9, ThinnedWaits
  <2>2. 0 \notin DOMAIN senders  BY <1>2, LenProperties
  <2>3. QED  BY <1>2, <1>3, <1>4, <1>6, <1>7, <2>1, <2>2, GoesThin
<1>10. QED  BY <1>8, <1>9 DEF KalpaStarts

\* The holder of the lock leaves.
LEMMA GoesLeaves ==
    ASSUME KalpaGoes, TypeInv', Holding, LetsGo(own), UNCHANGED <<tts, pipe, base, link, wire, said>>,
           Of(1) => ~Due
    PROVE  Going'
<1>1. TypeInv /\ tts = "kalpa"  BY GoesFacts DEF KalpaGoes
<1>2. senders \in Seq(Senders) /\ own \in KalpaOwns /\ senders # << >> /\ senders' \in Seq(Senders)
  BY <1>1, GoesTypes DEF Holding, TypeInv
<1>3. Alike(own', own) /\ own'.at = "text" /\ senders' = Tail(senders)  BY <1>2, LetsGoType
<1>4. Thinned(1)  BY <1>2, <1>3, ThinnedTail
<1>5. QED  BY <1>2, <1>3, <1>4, GoesThin

\* The wait for the slot begins or ends.
LEMMA GoesSlotted ==
    ASSUME KalpaGoes, TypeInv', NEW w \in BOOLEAN, own' = [own EXCEPT !.slotted = w],
           UNCHANGED <<tts, pipe, base, link, senders, wire, said>>
    PROVE  Going'
<1>1. TypeInv /\ tts = "kalpa" /\ SendersMine /\ Owed  BY GoesFacts DEF KalpaGoes, Going
<1>2. senders \in Seq(Senders) /\ own \in KalpaOwns /\ senders' \in Seq(Senders)
  BY <1>1, GoesTypes DEF TypeInv
<1>3. Alike(own', own) /\ own'.at = own.at  BY <1>2, SlottedType
<1>4. Thinned(0) /\ 0 \notin DOMAIN senders  BY <1>2, ThinnedSame, LenProperties
<1>5. own'.at = "end" => Me'.last  BY <1>1, <1>3 DEF SendersMine, Me
<1>6. own'.at = "end" /\ Due /\ Of(1)' => own.utt.turn # 0  BY <1>1, <1>3 DEF Owed, Of
<1>7. QED  BY <1>2, <1>3, <1>4, <1>5, <1>6, GoesThin

\* Whose text was dealt with, or has none.
LEMMA GoesSkipsText ==
    ASSUME KalpaGoes, TypeInv', Holding, TextDone(own), UNCHANGED <<tts, pipe, base, link, wire, said>>,
           own.at = "text", ~Me.text \/ DeadOne
    PROVE  Going'
<1>1. TypeInv /\ tts = "kalpa" /\ SendersMine /\ Owed /\ Ended  BY GoesFacts DEF KalpaGoes, Going
<1>2. /\ senders \in Seq(Senders) /\ own \in KalpaOwns /\ senders # << >> /\ senders' \in Seq(Senders)
      /\ 1 \in DOMAIN senders
  BY <1>1, GoesTypes, MeType DEF Holding, TypeInv
<1>3. Alike(own', own) /\ \/ Me.last /\ own'.at = "end" /\ senders' = senders
                          \/ ~Me.last /\ own'.at = "text" /\ senders' = Tail(senders)
  BY <1>2, TextDoneType
<1>4. DeadOne /\ Of(1) => ~Due
  <2>1. SUFFICES ASSUME own.utt.dead, Due PROVE FALSE  BY DEF DeadOne
  <2>2. QED  BY <2>1, GoesFacts DEF Due
<1>5. CASE Me.last /\ own'.at = "end" /\ senders' = senders
  <2>1. Thinned(0) /\ 0 \notin DOMAIN senders  BY <1>2, <1>5, ThinnedSame, LenProperties
  <2>2. ASSUME Due, Of(1) PROVE own.utt.turn # 0
    <3>1. ~Me.text  BY <1>4, <2>2
    <3>2. Texted  BY <1>1, <1>2, <2>2, <3>1 DEF Owed, Textless, Me
    <3>3. \A j \in DOMAIN senders : Of(j) => j <= 1
      BY <1>1, <1>2, <1>5, <2>2 DEF SendersMine, Due, Me
    <3>4. \A j \in DOMAIN senders : Of(j) => j = 1
      <4>1. DOMAIN senders = 1..Len(senders)  BY <1>2, LenProperties
      <4>2. QED  BY <1>2, <3>3, <4>1, LenProperties
    <3>5. QED  BY <3>1, <3>2, <3>4 DEF Texted, Me
  <2>3. Of(1)' => Of(1)  BY <1>5 DEF Of
  <2>4. Me' = Me  BY <1>5 DEF Me
  <2>5. QED  BY <1>2, <1>3, <1>5, <2>1, <2>2, <2>3, <2>4, GoesThin
<1>6. CASE ~Me.last /\ own'.at = "text" /\ senders' = Tail(senders)
  <2>1. Thinned(1)  BY <1>2, <1>6, ThinnedTail
  <2>2. ~Me.text => FALSE  BY <1>1, <1>2, <1>6 DEF SendersMine, Me
  <2>3. QED  BY <1>2, <1>3, <1>4, <1>6, <2>1, <2>2, GoesThin
<1>7. QED  BY <1>3, <1>5, <1>6

\* A dead utterance is forgotten with its last sender.
LEMMA GoesForgets ==
    ASSUME KalpaGoes, TypeInv', Holding, DeadOne, own.at = "end", NEW STATE o, o = [own EXCEPT !.utt = NoUtterance],
           LetsGo(o), UNCHANGED <<tts, pipe, base, link, wire, said>>
    PROVE  Going'
<1>1. TypeInv /\ tts = "kalpa" /\ Going  BY GoesFacts DEF KalpaGoes
<1>2. /\ senders \in Seq(Senders) /\ own \in KalpaOwns /\ senders # << >> /\ senders' \in Seq(Senders)
      /\ 1 \in DOMAIN senders
  BY <1>1, GoesTypes, MeType DEF Holding, TypeInv
<1>3. /\ o \in KalpaOwns /\ o.utt = NoUtterance /\ o.igen = own.igen /\ o.dirty = own.dirty
      /\ o.slot = own.slot /\ o.resp = own.resp /\ o.svc = own.svc /\ o.crossed = own.crossed
  BY <1>2, NothingTypes DEF KalpaOwns
<1>4. Alike(own', o) /\ own'.at = "text" /\ senders' = Tail(senders)  BY <1>3, LetsGoType
<1>5. /\ own'.utt = NoUtterance /\ own'.igen = own.igen /\ own'.dirty = own.dirty
      /\ own'.slot = own.slot /\ own'.resp = own.resp /\ own'.svc = own.svc /\ own'.crossed = own.crossed
  BY <1>3, <1>4 DEF Alike
<1>6. own'.utt.turn = 0 /\ ~own'.utt.dead  BY <1>5, NothingTypes
<1>7. own.utt.dead /\ own.utt.turn = Me.turn /\ ~pipe.over  BY DEF DeadOne, Holding
<1>8. Of(1) /\ Current /\ pipe.turn \in said.ended /\ own.slot.idle
  BY <1>7, GoesFacts DEF Of, Me
<1>9. Me.last /\ pipe.left = 0 /\ \A j \in DOMAIN senders : Of(j) => j <= 1
  BY <1>1, <1>2, <1>8 DEF Going, SendersMine, Me
<1>10. /\ Thinned(1) /\ Len(senders) \in Nat
       /\ DOMAIN senders' = 1..(Len(senders) - 1) /\ \A j \in DOMAIN senders' : senders'[j] = senders[j + 1]
  BY <1>2, <1>4, ThinnedTail
<1>11. NoneLeft'
  <2>1. ASSUME NEW j \in DOMAIN senders', Of(j)' PROVE FALSE
    <3>1. j + 1 \in DOMAIN senders /\ ~(j + 1 <= 1)  BY <1>2, <1>10, LenProperties
    <3>2. Of(j + 1)  BY <1>10, <2>1 DEF Of
    <3>3. QED  BY <1>9, <3>1, <3>2
  <2>2. QED  BY <1>9, <2>1 DEF NoneLeft
<1>12. SendersMine'  BY <1>1, <1>2, <1>4, <1>5, <1>10, ThinnedTurn DEF Going
<1>13. NoErrors'  BY <1>1, <1>5 DEF Going, NoErrors
<1>14. UtteranceMine'  BY <1>1, <1>5, <1>6 DEF Going, UtteranceMine
<1>15. LiveSlot'  BY <1>5, <1>8 DEF LiveSlot, Live
<1>16. Responding'  BY <1>1, <1>5 DEF Going, Responding, Announced, Up
<1>17. Ended'  BY <1>1, <1>5, <1>6, <1>8, <1>11 DEF Going, Ended
<1>18. SenderOpen' /\ Owed'  BY <1>8 DEF SenderOpen, Owed, Due
<1>19. QED  BY <1>12, <1>13, <1>14, <1>15, <1>16, <1>17, <1>18 DEF Going

LEMMA GoesSkips ==
    ASSUME KalpaGoes, TypeInv', Holding, Skips, UNCHANGED <<tts, pipe, base, link, wire, said>>,
           \/ own.at = "text" /\ (~Me.text \/ DeadOne)
           \/ own.at = "end" /\ (own.utt.turn # Me.turn \/ DeadOne)
    PROVE  Going'
<1>1. CASE own.at = "text" /\ (~Me.text \/ DeadOne)
  <2>1. TextDone(own)  BY <1>1 DEF Skips
  <2>2. QED  BY <1>1, <2>1, GoesSkipsText
<1>2. CASE own.at = "end" /\ DeadOne
  <2> DEFINE o == [own EXCEPT !.utt = NoUtterance]
  <2>1. LetsGo(o)  BY <1>2 DEF Skips
  <2>2. o = [own EXCEPT !.utt = NoUtterance]  OBVIOUS
  <2> HIDE DEF o
  <2>3. QED  BY <1>2, <2>1, <2>2, GoesForgets
<1>3. CASE own.at = "end" /\ own.utt.turn # Me.turn /\ ~DeadOne
  <2>1. LetsGo(own)  BY <1>3 DEF Skips
  <2>2. Owed  BY DEF KalpaGoes, Going
  <2>3. Of(1) => ~Due
    <3>1. SUFFICES ASSUME Of(1), Due PROVE FALSE  OBVIOUS
    <3>2. own.utt.turn # 0  BY <1>3, <2>2, <3>1 DEF Owed
    <3>3. own.utt.turn = pipe.turn  BY <3>2, GoesFacts
    <3>4. QED  BY <1>3, <3>1, <3>3 DEF Of, Me
  <2>4. QED  BY <2>1, <2>3, GoesLeaves
<1>4. QED  BY <1>1, <1>2, <1>3

\* A sender of a retired turn leaves, or one that found a connection_error.
LEMMA GoesRetired ==
    ASSUME KalpaGoes, TypeInv', Holding, LetsGo(own), UNCHANGED <<tts, pipe, base, link, wire, said>>,
           Retired(Me) \/ base.error
    PROVE  Going'
<1>1. TypeInv /\ tts = "kalpa" /\ SendersMine  BY GoesFacts DEF KalpaGoes, Going
<1>2. 1 \in DOMAIN senders  BY <1>1, MeType
<1>3. Of(1) => ~Due  BY <1>1, <1>2 DEF Due, SendersMine, Retired, Current, Of, Me
<1>4. QED  BY <1>3, GoesLeaves

---------------------------------------------------------------------------
\* The holder writes, or takes the slot.

\* The last sender of a turn leaves none behind.
LEMMA LastLeaves ==
    ASSUME KalpaGoes, Holding, own.at = "end", Current, Of(1), senders' = Tail(senders), pipe' = pipe
    PROVE  NoneLeft'
<1>1. TypeInv /\ tts = "kalpa" /\ SendersMine  BY GoesFacts DEF KalpaGoes, Going
<1>2. senders \in Seq(Senders) /\ senders # << >> /\ 1 \in DOMAIN senders
  BY <1>1, GoesTypes, MeType DEF Holding
<1>3. Me.last /\ pipe.left = 0 /\ \A j \in DOMAIN senders : Of(j) => j <= 1
  BY <1>1, <1>2 DEF SendersMine, Me
<1>4. /\ Len(senders) \in Nat
      /\ DOMAIN senders' = 1..(Len(senders) - 1) /\ \A j \in DOMAIN senders' : senders'[j] = senders[j + 1]
  BY <1>2, ThinnedTail
<1>5. ASSUME NEW j \in DOMAIN senders', Of(j)' PROVE FALSE
  <2>1. j + 1 \in DOMAIN senders /\ ~(j + 1 <= 1)  BY <1>2, <1>4, LenProperties
  <2>2. Of(j + 1)  BY <1>4, <1>5 DEF Of
  <2>3. QED  BY <1>3, <2>1, <2>2
<1>6. QED  BY <1>3, <1>5 DEF NoneLeft

LEMMA GoesWrites ==
    ASSUME KalpaGoes, TypeInv', Fresh, Connected, NEW STATE o, NEW STATE replay, o \in KalpaOwns,
           replay \in BOOLEAN, KalpaTurns(o) \subseteq Flying, Writes(o, replay),
           UNCHANGED <<tts, pipe, link, wire>>,
           o.igen = own.igen, o.dirty = 0, o.resp = own.resp, o.svc = own.svc, ~o.crossed,
           o.utt.turn = Me.turn, ~o.utt.dead, ~o.slot.idle, ~o.slot.gone,
           pipe.turn \notin said.ended, own.at = "text" => Me.text,
           \A k \in DOMAIN wire : wire[k].kind # "cancelled", link.ws = "closing" => wire = << >>
    PROVE  Going'
<1>1. TypeInv /\ tts = "kalpa" /\ Going /\ Holding /\ ~pipe.over  BY GoesFacts DEF KalpaGoes, Fresh, Holding
<1>2. /\ senders \in Seq(Senders) /\ own \in KalpaOwns /\ senders # << >> /\ senders' \in Seq(Senders)
      /\ 1 \in DOMAIN senders /\ base \in Bases /\ said \in Verdicts /\ own.at \in {"text", "end"}
      /\ Me.turn # 0 /\ 0 \notin DOMAIN senders /\ o.utt \in Utterances
  BY <1>1, GoesTypes, MeType, KalpaType, LenProperties DEF Holding, TypeInv
<1>3. Current /\ Me.turn = pipe.turn /\ Of(1)  BY GoesFacts
<1>4. /\ own' \in KalpaOwns
      /\ own'.igen = o.igen /\ own'.dirty = o.dirty /\ own'.slot = o.slot
      /\ own'.resp = o.resp
      /\ own'.crossed = (o.crossed \/ (link.ws = "open" /\ Crosses))
      /\ own'.svc = IF link.ws = "open" THEN Fed(o, replay) ELSE o.svc
      /\ own.at = "end" => own'.utt = NoUtterance /\ own'.at = "text" /\ senders' = Tail(senders)
      /\ own.at = "text" => /\ own'.utt = [o.utt EXCEPT !.chunks = AllPieces(o)]
                            /\ \/ Me.last /\ own'.at = "end" /\ senders' = senders
                               \/ ~Me.last /\ own'.at = "text" /\ senders' = Tail(senders)
      /\ base'.open = base.open
  BY <1>1, WritesType DEF Flags
<1>5. own'.svc.resp = own.svc.resp /\ (link.ws = "open" => (own'.svc.flushed <=> (own.svc.flushed \/ own.at = "end")))
  BY <1>1, <1>4, SentType
<1>6. base'.error = base.error
  <2> DEFINE x == base.last \/ own.at = "end"
  <2>1. base' = [base EXCEPT !.last = x]  BY DEF Writes
  <2> HIDE DEF x
  <2>2. QED  BY <1>2, <2>1 DEF Bases
<1>7. said'.ended = said.ended /\ said'.late = said.late
  <2>1. PICK a, b : said' = [Given(said, 1) EXCEPT !.again = a, !.mixed = b]  BY DEF Writes
  <2>2. Given(said, 1) \in Verdicts /\ Given(said, 1).late = said.late /\ Given(said, 1).ended = said.ended
    BY <1>2, GivenType
  <2>3. QED  BY <2>1, <2>2 DEF Verdicts
<1>8. own.at = "text" => own'.utt.turn = Me.turn /\ ~own'.utt.dead  BY <1>2, <1>4 DEF Utterances
<1>9. own.at = "end" => own'.utt.turn = 0 /\ ~own'.utt.dead /\ NoneLeft' /\ own'.at = "text" /\ Me.last
  <2>1. SUFFICES ASSUME own.at = "end"
                 PROVE own'.utt.turn = 0 /\ ~own'.utt.dead /\ NoneLeft' /\ own'.at = "text" /\ Me.last
    OBVIOUS
  <2>2. NoneLeft' /\ Me.last  BY <1>1, <1>3, <1>4, <2>1, LastLeaves DEF Going, SendersMine
  <2>3. QED  BY <1>4, <2>1, <2>2, NothingTypes
<1>10. /\ SendersMine /\ (own'.at = "end" => Me'.last) => SendersMine'
       /\ Owing => Owing' \/ (Of(1) /\ Me.last /\ senders' = Tail(senders))
  <2>1. CASE senders' = senders
    <3>1. Thinned(0)  BY <1>2, <2>1, ThinnedSame
    <3>2. QED  BY <1>2, <1>4, <3>1, ThinnedTurn
  <2>2. CASE senders' = Tail(senders)
    <3>1. Thinned(1)  BY <1>2, <2>2, ThinnedTail
    <3>2. QED  BY <1>2, <1>4, <2>2, <3>1, ThinnedTurn DEF Me
  <2>3. QED  BY <1>2, <1>4, <2>1, <2>2
<1>11. own'.at = "end" => Me'.last /\ own.at = "text"  BY <1>2, <1>4 DEF Me
<1>12. base.open  BY <1>1, <1>2, <1>3 DEF Going, SenderOpen
<1>13. NoErrors'  BY <1>1, <1>4 DEF Going, NoErrors, Crosses
<1>14. UtteranceMine'  BY <1>2, <1>3, <1>4, <1>8, <1>9 DEF UtteranceMine, Current
<1>15. SendersMine'  BY <1>1, <1>10, <1>11 DEF Going
<1>16. LiveSlot'  BY <1>2, <1>4, <1>8, <1>9, <1>12 DEF LiveSlot
<1>17. Responding'
  <2>1. own'.resp = own.resp  BY <1>4
  <2>2. QED  BY <1>1, <1>5, <2>1 DEF Going, Responding, Announced, Up
<1>18. Ended'  BY <1>1, <1>2, <1>7, <1>8, <1>9 DEF Going, Ended
<1>19. SenderOpen'  BY <1>4, <1>12 DEF SenderOpen
<1>20. Owed'
  <2>1. SUFFICES ASSUME Due' PROVE /\ Textless' => Texted'
                                   /\ own'.at = "end" /\ Of(1)' => own'.utt.turn # 0
                                   /\ pipe'.left = 0 => Owing' \/ Answer'
    BY DEF Owed
  <2>2. CASE own.at = "text"
    <3>1. own'.utt.turn # 0  BY <1>2, <1>8, <2>2
    <3>2. pipe'.left = 0 => Owing'
      <4>1. SUFFICES ASSUME pipe.left = 0 PROVE Owing'  OBVIOUS
      <4>2. Due  BY <1>6, <1>7, <2>1 DEF Due, Current
      <4>3. ~Answer  BY <1>1, <1>2, <1>3 DEF Answer, Going, LiveSlot, NoneLeft
      <4>4. Owing  BY <1>1, <4>1, <4>2, <4>3 DEF Going, Owed
      <4>5. Me.last => senders' = senders  BY <1>4, <2>2
      <4>6. CASE senders' = senders  BY <4>4, <4>6 DEF Owing, Of
      <4>7. CASE ~Me.last  BY <1>10, <4>4, <4>7
      <4>8. QED  BY <4>5, <4>6, <4>7
    <3>3. QED  BY <3>1, <3>2 DEF Texted
  <2>3. CASE own.at = "end"
    <3>1. own'.at = "text" /\ own'.utt.turn = 0 /\ NoneLeft'  BY <1>9, <2>3
    <3>2. ~Textless'  BY <3>1 DEF Textless, NoneLeft
    <3>3. Live'  BY <1>4 DEF Live
    <3>4. link.ws = "open" => own'.svc.flushed  BY <1>5, <2>3
    <3>5. Answer'  BY <3>1, <3>3, <3>4 DEF Answer, Up, Connected
    <3>6. QED  BY <3>1, <3>2, <3>5
  <2>4. QED  BY <1>2, <2>2, <2>3
<1>21. QED  BY <1>13, <1>14, <1>15, <1>16, <1>17, <1>18, <1>19, <1>20 DEF Going

LEMMA GoesTakes ==
    ASSUME KalpaGoes, TypeInv', Fresh, own.slot.idle, Connected, TakesSlot(own), UNCHANGED <<tts, pipe, link>>,
           own.at = "text" => Me.text, ~DeadOne
    PROVE  Going'
<1>1. TypeInv /\ tts = "kalpa" /\ Going /\ Holding  BY GoesFacts DEF KalpaGoes, Fresh
<1>2. /\ own \in KalpaOwns /\ KalpaTurns(own) \subseteq Flying /\ Me.turn \in 0..MaxTurn /\ link.n \in Nat
      /\ wire \in Seq(Messages) /\ 1 \in DOMAIN senders /\ own.utt \in Utterances
  <2>1. Me.turn \in Turns /\ MaxTurn \in Nat /\ 1 \in DOMAIN senders
    BY <1>1, MeType, SynthesizerAssumption
  <2>2. QED  BY <1>1, <2>1, GoesTypes, KalpaOwnType, KalpaType DEF Turns
<1>3. ~Wipes(own) /\ ~own.crossed /\ own.dirty = 0
  BY <1>1 DEF Going, UtteranceMine, NoErrors, Wipes
<1> DEFINE o == Taken(own)
           replay == Mine(own).chunks # << >>
<1>4. Writes(o, replay) /\ wire' = wire \o << >> /\ replay \in BOOLEAN  BY <1>3, TakesSlotForm
<1>5. wire' = wire  BY <1>2, <1>4
<1>6. /\ o \in KalpaOwns /\ o.utt = [Mine(own) EXCEPT !.conn = link.n] /\ o.dirty = 0
      /\ o.slot = TakenSlot /\ o.igen = own.igen /\ o.resp = own.resp /\ o.svc = own.svc
      /\ ~o.crossed /\ KalpaTurns(o) \subseteq Flying
  BY <1>2, <1>3, TakenType
<1>7. /\ Mine(own) \in Utterances /\ Mine(own).turn = Me.turn
      /\ own.utt.turn = Me.turn => Mine(own) = own.utt
      /\ own.utt.turn # Me.turn => ~Mine(own).dead
  BY <1>2, MineType
<1> HIDE DEF o, replay
<1>8. o.utt.turn = Me.turn /\ ~o.utt.dead  BY <1>6, <1>7 DEF Utterances, DeadOne
<1>9. ~o.slot.idle /\ ~o.slot.gone  BY <1>6 DEF TakenSlot
<1>10. pipe.turn \notin said.ended
  <2>1. Current /\ Me.turn = pipe.turn /\ Of(1)  BY GoesFacts
  <2>2. ~NoneLeft  BY <1>2, <2>1 DEF NoneLeft
  <2>3. ~own.utt.dead  BY <2>1, GoesFacts DEF DeadOne
  <2>4. QED  BY <1>1, <2>1, <2>2, <2>3 DEF Going, Ended
<1>11. wire = << >>  BY GoesFacts
<1>12. \A k \in DOMAIN wire : wire[k].kind # "cancelled"  BY <1>11
<1>13. QED  BY <1>4, <1>5, <1>6, <1>8, <1>9, <1>10, <1>11, <1>12, GoesWrites

LEMMA GoesSends ==
    ASSUME KalpaGoes, TypeInv', KalpaSends
    PROVE  Going'
<1>1. /\ TypeInv /\ tts = "kalpa" /\ Going /\ CalmParts /\ Holding /\ ~own.slotted
      /\ UNCHANGED <<tts, pipe, link>> /\ ~pipe.over
  BY GoesFacts, KalpaSendsCases DEF KalpaGoes, Holding
<1>2. own \in KalpaOwns /\ KalpaTurns(own) \subseteq Flying /\ Me.turn # 0 /\ own.at \in {"text", "end"}
  BY <1>1, KalpaOwnType, MeType, GoesTypes
<1>3. CASE Retired(Me) /\ LetsGo(own) /\ UNCHANGED <<base, said, wire>>  BY <1>1, <1>3, GoesRetired
<1>4. CASE /\ \/ own.at = "text" /\ (~Me.text \/ DeadOne)
              \/ own.at = "end" /\ (own.utt.turn # Me.turn \/ DeadOne)
           /\ Skips /\ UNCHANGED <<base, said, wire>>
  BY <1>1, <1>4, GoesSkips
<1>5. ASSUME ~Retired(Me), ~(own.at = "text" /\ (~Me.text \/ DeadOne)),
             ~(own.at = "end" /\ (own.utt.turn # Me.turn \/ DeadOne)),
             \/ OpenNow /\ Writes(own, FALSE) /\ UNCHANGED wire
             \/ ~OpenNow /\ base.error /\ LetsGo(own) /\ UNCHANGED <<base, said, wire>>
             \/ ~OpenNow /\ ~base.error /\ Connected /\ Opens
      PROVE  Going'
  <2>1. Fresh /\ (own.at = "text" => Me.text) /\ ~DeadOne  BY <1>1, <1>2, <1>5 DEF Fresh
  <2>2. CASE OpenNow /\ Writes(own, FALSE) /\ UNCHANGED wire
    <3> DEFINE no == FALSE
    <3>1. Writes(own, no) /\ no \in BOOLEAN  BY <2>2
    <3> HIDE DEF no
    <3>2. own.utt.turn = Me.turn /\ Connected /\ ~own.utt.dead /\ own.utt.conn = link.n
      BY <2>1, <2>2 DEF OpenNow, DeadOne
    <3>3. Open  BY <1>2, <3>2 DEF Open, Connected
    <3>4. ~own.slot.idle  BY <1>1, <3>3 DEF CalmParts, OpenUtterance
    <3>5. ~own.slot.gone /\ own.dirty = 0 /\ ~own.crossed
      BY <1>1, <1>2, <3>2, <3>4 DEF Going, UtteranceMine, NoErrors
    <3>6. Current  BY <2>1, GoesFacts
    <3>7. pipe.turn \notin said.ended  BY <1>1, <3>4, <3>6 DEF Going, Ended
    <3>8. Live  BY <3>4, <3>5 DEF Live
    <3>9. (\A k \in DOMAIN wire : wire[k].kind # "cancelled") /\ (link.ws = "closing" => wire = << >>)
      BY <1>1, <3>8 DEF Going, LiveSlot
    <3>10. QED  BY <1>1, <1>2, <2>1, <2>2, <3>1, <3>2, <3>4, <3>5, <3>7, <3>9, GoesWrites
  <2>3. CASE base.error /\ LetsGo(own) /\ UNCHANGED <<base, said, wire>>  BY <1>1, <2>3, GoesRetired
  <2>4. CASE Connected /\ Opens
    <3>1. CASE own.slot.idle /\ TakesSlot(own)  BY <1>1, <2>1, <2>4, <3>1, GoesTakes
    <3>2. CASE ~own.slot.idle /\ own.utt.dead  BY <1>1, <3>2, GoesFacts
    <3>3. CASE own' = [own EXCEPT !.slotted = TRUE] /\ UNCHANGED <<wire, base, senders, said>>
      <4> DEFINE w == TRUE
      <4>1. own' = [own EXCEPT !.slotted = w] /\ w \in BOOLEAN  BY <3>3
      <4> HIDE DEF w
      <4>2. QED  BY <1>1, <3>3, <4>1, GoesSlotted
    <3>4. QED  BY <2>4, <3>1, <3>2, <3>3 DEF Opens
  <2>5. QED  BY <1>5, <2>2, <2>3, <2>4
<1>6. QED  BY <1>3, <1>4, <1>5, KalpaSendsCases

LEMMA GoesSlotFree ==
    ASSUME KalpaGoes, TypeInv', SlotFree
    PROVE  Going'
<1>1. /\ TypeInv /\ tts = "kalpa" /\ Holding /\ own.slotted /\ own.slot.idle /\ UNCHANGED <<tts, pipe, link>>
      /\ CalmOnce /\ SlottedText
  BY GoesFacts DEF KalpaGoes, SlotFree, OnceInv
<1>2. CASE Retired(Me)
  <2>1. LetsGo(own) /\ UNCHANGED <<base, said, wire>>  BY <1>2 DEF SlotFree
  <2>2. QED  BY <1>1, <1>2, <2>1, GoesRetired
<1>3. CASE ~Retired(Me) /\ ~Connected
  <2> DEFINE w == FALSE
  <2>1. own' = [own EXCEPT !.slotted = w] /\ UNCHANGED <<base, senders, said, wire>> /\ w \in BOOLEAN
    BY <1>3 DEF SlotFree
  <2> HIDE DEF w
  <2>2. QED  BY <1>1, <2>1, GoesSlotted
<1>4. CASE ~Retired(Me) /\ Connected
  <2>1. TakesSlot(own) /\ Fresh  BY <1>1, <1>4 DEF SlotFree, Fresh
  <2>2. own.at = "text" => Me.text  BY <1>1 DEF SlottedText
  <2>3. ~DeadOne  BY <1>1 DEF CalmOnce, SlotAwaited, DeadOne
  <2>4. QED  BY <1>1, <1>4, <2>1, <2>2, <2>3, GoesTakes
<1>5. QED  BY <1>2, <1>3, <1>4

\* The holder closes the socket: the slot it waits for is one that was given up.
LEMMA GoesTimesOut ==
    ASSUME KalpaGoes, TypeInv', SlotTimesOut
    PROVE  Going'
<1>1. /\ TypeInv /\ tts = "kalpa" /\ Going /\ Holding /\ own.slotted /\ UNCHANGED <<tts, pipe, base, said>>
  BY GoesFacts DEF KalpaGoes, SlotTimesOut
<1>2. own \in KalpaOwns /\ senders \in Seq(Senders) /\ wire \in Seq(Messages) /\ link \in Sockets
  BY <1>1, GoesTypes
<1>3. CASE Retired(Me)
  <2>1. LetsGo(own) /\ UNCHANGED <<link, wire>>  BY <1>3 DEF SlotTimesOut
  <2>2. QED  BY <1>1, <1>3, <2>1, GoesRetired
<1>4. CASE ~Retired(Me) /\ link.ws # "open"
  <2> DEFINE w == FALSE
  <2>1. own' = [own EXCEPT !.slotted = w] /\ UNCHANGED <<senders, link, wire>> /\ w \in BOOLEAN
    BY <1>4 DEF SlotTimesOut
  <2> HIDE DEF w
  <2>2. QED  BY <1>1, <2>1, GoesSlotted
<1>5. CASE ~Retired(Me) /\ link.ws = "open"
  <2> DEFINE w == FALSE
  <2>1. own' = [own EXCEPT !.slotted = w] /\ w \in BOOLEAN  BY <1>5 DEF SlotTimesOut
  <2> HIDE DEF w
  <2>2. UNCHANGED senders /\ link' = [link EXCEPT !.ws = "closing"] /\ wire' \in Prefixes(wire)
    BY <1>5 DEF SlotTimesOut
  <2>3. /\ own'.igen = own.igen /\ own'.utt = own.utt /\ own'.dirty = own.dirty /\ own'.slot = own.slot
        /\ own'.resp = own.resp /\ own'.svc = own.svc /\ own'.crossed = own.crossed /\ own'.at = own.at
    BY <1>2, <2>1, SlottedType DEF Alike
  <2>4. ~Live  BY <1>1, <1>5, GoesFacts DEF Awaits
  <2>5. ~Live'  BY <2>3, <2>4 DEF Live
  <2>6. link'.ws = "closing" /\ link'.unmet = link.unmet  BY <1>2, <2>2 DEF Sockets
  <2>7. PICK n \in 0..Len(wire) : wire' = SubSeq(wire, 1, n)  BY <2>2 DEF Prefixes
  <2>8. \A j \in DOMAIN wire' : j \in 1..n /\ j \in DOMAIN wire /\ wire'[j] = wire[j]
    BY <1>2, <2>7, PrefixTurns
  <2>9. \A j \in DOMAIN wire' : wire # << >> /\ wire' # << >> /\ wire'[1] = wire[1]
    <3>1. SUFFICES ASSUME NEW j \in DOMAIN wire' PROVE wire # << >> /\ wire' # << >> /\ wire'[1] = wire[1]
      OBVIOUS
    <3>2. DOMAIN wire' = 1..n  BY <1>2, <2>7, PrefixTurns, LenProperties
    <3>3. Len(wire) \in Nat  BY <1>2, LenProperties
    <3>4. 1 \in DOMAIN wire'  BY <3>2, <3>3
    <3>5. DOMAIN << >> = {}  OBVIOUS
    <3>6. QED  BY <2>8, <3>1, <3>4, <3>5
  <2>10. NoErrors'  BY <1>1, <2>3, <2>6, <2>8 DEF Going, NoErrors
  <2>11. UtteranceMine'  BY <1>1, <2>3 DEF Going, UtteranceMine, Current
  <2>12. SendersMine'  BY <1>1, <2>2, <2>3 DEF Going, SendersMine, Current, Of, Me
  <2>13. LiveSlot'  BY <2>5 DEF LiveSlot
  <2>14. Responding'
    <3>1. ~Up'  BY <2>6 DEF Up
    <3>2. \A k \in DOMAIN wire' : wire'[k].kind = "created" => k = 1 /\ own'.resp.rid = 0
      BY <1>1, <2>3, <2>8 DEF Going, Responding
    <3>3. \A k \in DOMAIN wire' : wire'[k].kind \in {"done", "cancelled"} =>
             \/ own'.resp.rid = wire'[k].ctx
             \/ wire' # << >> /\ wire'[1].kind = "created" /\ wire'[1].ctx = wire'[k].ctx
      BY <1>1, <2>3, <2>8, <2>9 DEF Going, Responding, Announced
    <3>4. QED  BY <3>1, <3>2, <3>3 DEF Responding, Announced
  <2>15. Ended'  BY <1>1, <2>2, <2>3 DEF Going, Ended, Current, NoneLeft, Of
  <2>16. SenderOpen'  BY <1>1, <2>2 DEF Going, SenderOpen, Current, Of
  <2>17. Owed'
    <3>1. ~Answer  BY <2>4 DEF Answer
    <3>2. QED  BY <1>1, <2>2, <2>3, <3>1 DEF Going, Owed, Due, Current, Of, Textless, Texted, Owing
  <2>18. QED  BY <2>10, <2>11, <2>12, <2>13, <2>14, <2>15, <2>16, <2>17 DEF Going
<1>6. QED  BY <1>3, <1>4, <1>5

---------------------------------------------------------------------------
\* The call: a turn starts or is dropped, is pushed or barged in on.

LEMMA GoesCalls ==
    ASSUME KalpaGoes, TypeInv', Calls, Steady'
    PROVE  Going'
<1>1. /\ TypeInv /\ tts = "kalpa" /\ Going /\ Told /\ TurnAlone /\ TurnsKnown /\ LockHeld /\ Epochs
      /\ own.utt.dead => own.utt.turn # 0
  BY GoesFacts DEF KalpaGoes, LabelInv
<1>2. own \in KalpaOwns /\ senders \in Seq(Senders) /\ wire \in Seq(Messages) /\ pipe \in Calling
      /\ pipe.turn \in Nat
  BY <1>1, GoesTypes
<1>3. UNCHANGED <<tts, base, link, senders, own, wire, said>> /\ ~Retire
  BY <1>1, CallsSteady DEF Calls, StartTurn, Invalidate
<1>4. ~Current /\ Epochs => own.utt.turn = 0 /\ ~Live  BY <1>1, GoesFacts
<1>5. /\ own.utt.turn = 0 /\ ~Live
      /\ \A i \in DOMAIN senders : Current' => ~Of(i)'
      /\ Current' => pipe'.turn \notin said.ended /\ pipe'.left # 0
                     /\ ~(pipe'.left = 1 /\ pipe'.turn \in Pairs)
  <2>1. CASE StartTurn
    <3>1. pipe.ids = {}  BY <1>1, <2>1, CallsSteady
    <3>2. own.utt.turn = 0 /\ ~Live  BY <1>1, <1>4, <3>1 DEF Current
    <3>3. pipe'.turn = pipe.turn + 1 /\ pipe'.left # 0  BY <1>1, <2>1, StartTurnStep
    <3>4. pipe.turn + 1 \notin Flying  BY <1>1, NoTurnZero
    <3>5. \A i \in DOMAIN senders : senders[i].turn \in Flying  BY DEF Flying
    <3>6. pipe'.turn \notin said.ended
      <4>1. said.ended \subseteq 1..pipe.turn  BY <1>1 DEF TurnAlone
      <4>2. QED  BY <1>2, <3>3, <4>1
    <3>7. ~(pipe'.left = 1 /\ pipe'.turn \in Pairs)
      <4> DEFINE n == IF pipe.turn + 1 \in Pairs THEN 2 ELSE 1
                 x == pipe.ids \cup {pipe.turn + 1}
                 y == pipe.overlap \/ pipe.ids # {}
                 t == pipe.turn + 1
      <4>1. pipe' = [pipe EXCEPT !.turn = t, !.ids = x, !.overlap = y, !.left = n]
        BY <2>1 DEF StartTurn
      <4> HIDE DEF x, y, n, t
      <4>2. pipe'.left = n  BY <1>2, <4>1 DEF Calling
      <4>3. pipe.turn + 1 \in Pairs => n # 1  BY DEF n
      <4>4. QED  BY <3>3, <4>2, <4>3
    <3>8. QED  BY <1>3, <3>2, <3>3, <3>4, <3>5, <3>6, <3>7 DEF Of
  <2>2. CASE Invalidate
    <3>1. pipe'.ids = {} /\ pipe.cut  BY <1>1, <2>2, InvalidateStep
    <3>2. own.utt.turn = 0 /\ ~Live  BY <1>1, <1>4, <3>1 DEF Current
    <3>3. ~Current'  BY <3>1 DEF Current
    <3>4. QED  BY <3>2, <3>3
  <2>3. QED  BY <1>3, <2>1, <2>2 DEF Calls
<1>6. ~own.utt.dead  BY <1>1, <1>5
<1>7. NoErrors'  BY <1>1, <1>3 DEF Going, NoErrors
<1>8. UtteranceMine'  BY <1>1, <1>3, <1>5 DEF Going, UtteranceMine
<1>9. SendersMine'
  <2>1. /\ own'.at = "end" => Me'.last
        /\ \A i \in DOMAIN senders' : ~senders'[i].text => senders'[i].last
    BY <1>1, <1>3 DEF Going, SendersMine, Me
  <2>2. QED  BY <1>3, <1>5, <2>1 DEF SendersMine
<1>10. LiveSlot'  BY <1>3, <1>5 DEF LiveSlot, Live
<1>11. Responding'  BY <1>1, <1>3 DEF Going, Responding, Announced, Up
<1>12. Ended'  BY <1>1, <1>3, <1>5, <1>6 DEF Going, Ended
<1>13. SenderOpen'  BY <1>3, <1>5 DEF SenderOpen
<1>14. Owed'
  <2>1. SUFFICES ASSUME Due' PROVE /\ Textless' => Texted'
                                   /\ own'.at = "end" /\ Of(1)' => own'.utt.turn # 0
                                   /\ pipe'.left = 0 => Owing' \/ Answer'
    BY DEF Owed
  <2>2. Current'  BY <2>1 DEF Due
  <2>3. ~Textless'  BY <1>3, <1>5, <2>2 DEF Textless
  <2>4. own'.at = "end" => ~Of(1)'
    <3>1. own.at = "end" => 1 \in DOMAIN senders  BY <1>1, <1>2, LenProperties, EmptySeq DEF LockHeld
    <3>2. QED  BY <1>3, <1>5, <2>2, <3>1
  <2>5. QED  BY <1>5, <2>2, <2>3, <2>4
<1>15. QED  BY <1>7, <1>8, <1>9, <1>10, <1>11, <1>12, <1>13, <1>14 DEF Going

\* A push opens the turn.
LEMMA QueuedOpen ==
    ASSUME NEW b \in Bases, NEW t
    PROVE  Queued(Stamped(b, t), t).open /\ Queued(Stamped(b, t), t).error = b.error
<1> DEFINE f == [k \in 1..Cardinality({j \in DOMAIN b.q : b.q[j] = t}) |-> t]
           yes == TRUE
           no == FALSE
           z == 0
           s == Stamped(b, t)
           r == Append(s.q, t)
<1>1. s = IF b.open THEN b ELSE [b EXCEPT !.q = f, !.open = yes, !.sock = z, !.last = no]  BY DEF Stamped
<1>2. Queued(s, t) = [s EXCEPT !.q = r]  BY DEF Queued
<1>3. yes  OBVIOUS
<1> HIDE DEF f, yes, no, z, s, r
<1>4. s.open /\ s.error = b.error /\ DOMAIN s = DOMAIN b  BY <1>1, <1>3 DEF Bases
<1>5. Queued(s, t).open = s.open /\ Queued(s, t).error = s.error  BY <1>2, <1>4 DEF Bases
<1>6. QED  BY <1>4, <1>5 DEF s

LEMMA GoesPush ==
    ASSUME KalpaGoes, TypeInv', Pushes
    PROVE  Going'
<1>1. /\ TypeInv /\ tts = "kalpa" /\ Going /\ LockHeld /\ CutQuiet
      /\ own.utt.turn # 0 => own.utt.turn = pipe.turn
  BY GoesFacts DEF KalpaGoes
<1>2. /\ own \in KalpaOwns /\ senders \in Seq(Senders) /\ wire \in Seq(Messages) /\ pipe \in Calling
      /\ base \in Bases /\ own.igen \in Nat /\ pipe.turn \in Nat /\ pipe.left \in {0, 1, 2}
  BY <1>1, GoesTypes, KalpaType
<1> DEFINE last == pipe.left = 1
           l == pipe.left - 1
<1>3. /\ Pushing /\ own' = KalpaPush(last) /\ UNCHANGED <<tts, link, wire, said>>
      /\ pipe' = [pipe EXCEPT !.left = l] /\ base' = Queued(Stamped(base, pipe.turn), pipe.turn)
      /\ \E text \in BOOLEAN : /\ senders' = Append(senders, Pushed(text, last, own.igen))
                               /\ ~text => pipe.turn \in Pairs /\ last
  <2>1. Push(TRUE, KalpaPush, own.igen)  BY <1>1 DEF Pushes
  <2>2. QED  BY <2>1, SynthesizerAssumption DEF Push
<1>4. own' = own  BY <1>1, <1>3 DEF KalpaPush
<1>5. pipe.turn \in pipe.ids /\ pipe.left # 0 /\ ~pipe.over /\ ~pipe.cut /\ pipe.left \in {1, 2}
  BY <1>1, <1>2, <1>3 DEF Pushing, CutQuiet
<1>6. Current /\ l \in {0, 1} /\ (l = 0 <=> last) /\ (l = 1 => ~last) /\ last \in BOOLEAN
      /\ (last => pipe.left = 1)
  BY <1>2, <1>5 DEF Current
<1> HIDE DEF last, l
<1>7. /\ pipe'.left = l /\ pipe'.turn = pipe.turn /\ pipe'.ids = pipe.ids /\ pipe'.cut = pipe.cut
      /\ pipe'.over = pipe.over
  BY <1>2, <1>3, <1>6 DEF Calling
<1>8. base'.open /\ base'.error = base.error  BY <1>2, <1>3, QueuedOpen
<1>9. PICK text \in BOOLEAN : /\ senders' = Append(senders, Pushed(text, last, own.igen))
                              /\ ~text => pipe.turn \in Pairs /\ last
  BY <1>3
<1> DEFINE s == Pushed(text, last, own.igen)
           n == Len(senders) + 1
<1>10. s \in Senders /\ s.turn = pipe.turn  BY <1>2, <1>5, <1>6, PushedType
<1>11. s.text = text /\ s.last = last /\ s.epoch = own.igen  BY DEF Pushed
<1>12. senders' = Append(senders, s)  BY <1>9
<1> HIDE DEF s
<1>13. /\ DOMAIN senders' = 1..n /\ senders'[n] = s
       /\ \A j \in DOMAIN senders : j \in DOMAIN senders' /\ senders'[j] = senders[j]
       /\ \A j \in DOMAIN senders' : j \in DOMAIN senders \/ j = n
  BY <1>2, <1>10, <1>12, AppendSender
<1>14. n \in Nat /\ n \in DOMAIN senders' /\ \A j \in DOMAIN senders' : j <= n
  <2>1. Len(senders) \in Nat  BY <1>2, LenProperties
  <2>2. QED  BY <1>13, <2>1
<1> HIDE DEF n
<1>15. \A j \in DOMAIN senders : Of(j)' <=> Of(j)  BY <1>7, <1>13 DEF Of
<1>16. senders'[n].turn = pipe'.turn  BY <1>7, <1>10, <1>13
<1>17. own.at = "end" => 1 \in DOMAIN senders /\ Me' = Me
  <2>1. own.at = "end" => 1 \in DOMAIN senders  BY <1>1, <1>2, LenProperties, EmptySeq DEF LockHeld
  <2>2. QED  BY <1>13, <2>1 DEF Me
<1>18. ~NoneLeft  BY <1>5 DEF NoneLeft
<1>19. NoErrors'  BY <1>1, <1>3, <1>4 DEF Going, NoErrors
<1>20. UtteranceMine'  BY <1>1, <1>4, <1>7 DEF Going, UtteranceMine, Current
<1>21. SendersMine'
  <2>0. SendersMine  BY <1>1 DEF Going
  <2>1. own'.at = "end" => Me'.last  BY <1>4, <1>17, <2>0 DEF SendersMine
  <2>2. \A i \in DOMAIN senders' : ~senders'[i].text => senders'[i].last
    BY <1>9, <1>11, <1>13, <2>0 DEF SendersMine
  <2>3. ASSUME NEW i \in DOMAIN senders', Of(i)'
        PROVE  /\ senders'[i].epoch = own'.igen
               /\ senders'[i].last => i = n /\ last
    BY <1>4, <1>5, <1>6, <1>11, <1>13, <1>15, <2>0, <2>3 DEF SendersMine
  <2>4. QED  BY <1>6, <1>7, <1>14, <2>1, <2>2, <2>3 DEF SendersMine
<1>22. LiveSlot'  BY <1>1, <1>3, <1>4, <1>7, <1>8, <1>18 DEF Going, LiveSlot, Live
<1>23. Responding'  BY <1>1, <1>3, <1>4 DEF Going, Responding, Announced, Up
<1>24. Ended'  BY <1>1, <1>3, <1>4, <1>7, <1>18 DEF Going, Ended, Current
<1>25. SenderOpen'  BY <1>8 DEF SenderOpen
<1>26. Owed'
  <2>1. SUFFICES ASSUME Due' PROVE /\ Textless' => Texted'
                                   /\ own'.at = "end" /\ Of(1)' => own'.utt.turn # 0
                                   /\ pipe'.left = 0 => Owing' \/ Answer'
    BY DEF Owed
  <2>2. Due  BY <1>3, <1>7, <1>8, <2>1 DEF Due, Current
  <2>3. (Textless => Texted) /\ (own.at = "end" /\ Of(1) => own.utt.turn # 0)  BY <1>1, <2>2 DEF Going, Owed
  <2>4. Texted => Texted'  BY <1>4, <1>13, <1>15 DEF Texted
  <2>5. text => Texted'  BY <1>11, <1>13, <1>14, <1>16 DEF Texted, Of
  <2>6. Textless' => text \/ Textless
    <3>1. CASE pipe'.left = 1 /\ pipe'.turn \in Pairs  BY <1>6, <1>7, <1>9, <3>1
    <3>2. ASSUME NEW i \in DOMAIN senders', Of(i)', ~senders'[i].text PROVE text \/ Textless
      <4>1. CASE i = n  BY <1>6, <1>9, <4>1 DEF Textless
      <4>2. CASE i \in DOMAIN senders  BY <1>13, <1>15, <3>2, <4>2 DEF Textless
      <4>3. QED  BY <1>13, <4>1, <4>2
    <3>3. QED  BY <3>1, <3>2 DEF Textless
  <2>7. pipe'.left = 0 => Owing'  BY <1>6, <1>7, <1>11, <1>13, <1>14, <1>16 DEF Owing, Of
  <2>8. own'.at = "end" /\ Of(1)' => own'.utt.turn # 0  BY <1>4, <1>15, <1>17, <2>3
  <2>9. QED  BY <2>3, <2>4, <2>5, <2>6, <2>7, <2>8
<1>27. QED  BY <1>19, <1>20, <1>21, <1>22, <1>23, <1>24, <1>25, <1>26 DEF Going

---------------------------------------------------------------------------
\* The service says something.

LEMMA WireGrown ==
    ASSUME wire \in Seq(Messages), NEW STATE r, r \in Seq(Messages), wire' = wire \o r
    PROVE  /\ \A k \in DOMAIN wire' : \/ k \in DOMAIN wire /\ wire'[k] = wire[k]
                                      \/ \E j \in DOMAIN r : wire'[k] = r[j] /\ (wire = << >> => k = j)
           /\ \A k \in DOMAIN wire : k \in DOMAIN wire' /\ wire'[k] = wire[k]
           /\ \A j \in DOMAIN r : \E k \in DOMAIN wire' : wire'[k] = r[j]
           /\ wire = << >> => wire' = r
           /\ wire # << >> => 1 \in DOMAIN wire /\ wire' # << >> /\ wire'[1] = wire[1]
           /\ r = << >> => wire' = wire
<1>1. /\ Len(wire') = Len(wire) + Len(r)
      /\ \A i \in 1..(Len(wire) + Len(r)) :
            wire'[i] = IF i <= Len(wire) THEN wire[i] ELSE r[i - Len(wire)]
      /\ wire' \in Seq(Messages)
  BY ConcatProperties
<1>2. /\ Len(wire) \in Nat /\ DOMAIN wire = 1..Len(wire) /\ Len(r) \in Nat /\ DOMAIN r = 1..Len(r)
      /\ DOMAIN wire' = 1..(Len(wire) + Len(r))
  BY <1>1, LenProperties
<1>3. /\ wire = << >> => wire' = r /\ Len(wire) = 0
      /\ r = << >> => wire' = wire
  BY ConcatEmptySeq, EmptySeq
<1>4. ASSUME NEW k \in DOMAIN wire'
      PROVE  \/ k \in DOMAIN wire /\ wire'[k] = wire[k]
             \/ \E j \in DOMAIN r : wire'[k] = r[j] /\ (wire = << >> => k = j)
  <2>1. CASE k <= Len(wire)  BY <1>1, <1>2, <2>1
  <2>2. CASE ~(k <= Len(wire))
    <3>1. k - Len(wire) \in DOMAIN r /\ wire'[k] = r[k - Len(wire)]  BY <1>1, <1>2, <2>2
    <3>2. wire = << >> => k = k - Len(wire)  BY <1>2, <1>3
    <3>3. QED  BY <3>1, <3>2
  <2>3. QED  BY <2>1, <2>2
<1>5. \A k \in DOMAIN wire : k \in DOMAIN wire' /\ wire'[k] = wire[k]  BY <1>1, <1>2
<1>6. ASSUME NEW j \in DOMAIN r PROVE \E k \in DOMAIN wire' : wire'[k] = r[j]
  <2>1. j + Len(wire) \in DOMAIN wire' /\ ~(j + Len(wire) <= Len(wire)) /\ (j + Len(wire)) - Len(wire) = j
    BY <1>2
  <2>2. QED  BY <1>1, <1>2, <2>1
<1>7. wire # << >> => 1 \in DOMAIN wire  BY <1>2, EmptySeq
<1>8. 1 \in DOMAIN wire => wire' # << >> /\ wire'[1] = wire[1]
  <2>1. DOMAIN << >> = {}  OBVIOUS
  <2>2. QED  BY <1>5, <2>1
<1>9. QED  BY <1>3, <1>4, <1>5, <1>6, <1>7, <1>8

\* A response begins behind nothing, and ends behind its beginning.
LEMMA RespondsGrows ==
    ASSUME wire \in Seq(Messages), Responding, Up, own'.resp = own.resp, link'.ws = link.ws,
           NEW STATE r, r \in Seq(Messages), wire' = wire \o r,
           \A k \in DOMAIN r : r[k].kind = "created" => k = 1 /\ wire = << >> /\ own.resp.rid = 0,
           \A k \in DOMAIN r : r[k].kind \in {"done", "cancelled"} =>
              \/ Announced(r[k].ctx)
              \/ wire = << >> /\ r[1].kind = "created" /\ r[1].ctx = r[k].ctx,
           own'.svc.resp # 0 => \/ own'.svc.resp = own.svc.resp
                                \/ wire = << >> /\ r # << >> /\ r[1].kind = "created" /\ r[1].ctx = own'.svc.resp,
           own'.svc.resp = 0 /\ NoSettle(wire) /\ NoSettle(r) => wire = << >> /\ r = << >> /\ own.resp.rid = 0
    PROVE  Responding'
<1>1. /\ \A k \in DOMAIN wire' : \/ k \in DOMAIN wire /\ wire'[k] = wire[k]
                                 \/ \E j \in DOMAIN r : wire'[k] = r[j] /\ (wire = << >> => k = j)
      /\ \A k \in DOMAIN wire : k \in DOMAIN wire' /\ wire'[k] = wire[k]
      /\ \A j \in DOMAIN r : \E k \in DOMAIN wire' : wire'[k] = r[j]
      /\ wire = << >> => wire' = r
      /\ wire # << >> => 1 \in DOMAIN wire /\ wire' # << >> /\ wire'[1] = wire[1]
      /\ r = << >> => wire' = wire
  BY WireGrown
<1> DEFINE Says(w, c) == w # << >> /\ w[1].kind = "created" /\ w[1].ctx = c
<1>2. \A c : Announced(c) <=> own.resp.rid = c \/ Says(wire, c)  BY DEF Announced
<1>3. \A c : Says(wire, c) => Says(wire', c)  BY <1>1
<1>4. \A c : Announced(c) => own'.resp.rid = c \/ Says(wire', c)  BY <1>2, <1>3
<1>5. \A k \in DOMAIN wire' : wire'[k].kind = "created" => k = 1 /\ own'.resp.rid = 0
  <2>1. SUFFICES ASSUME NEW k \in DOMAIN wire', wire'[k].kind = "created"
                 PROVE  k = 1 /\ own'.resp.rid = 0
    OBVIOUS
  <2>2. CASE k \in DOMAIN wire /\ wire'[k] = wire[k]  BY <2>1, <2>2 DEF Responding
  <2>3. CASE \E j \in DOMAIN r : wire'[k] = r[j] /\ (wire = << >> => k = j)  BY <2>1, <2>3
  <2>4. QED  BY <1>1, <2>2, <2>3
<1>6. \A k \in DOMAIN wire' : wire'[k].kind \in {"done", "cancelled"} =>
         own'.resp.rid = wire'[k].ctx \/ Says(wire', wire'[k].ctx)
  <2>1. SUFFICES ASSUME NEW k \in DOMAIN wire', wire'[k].kind \in {"done", "cancelled"}
                 PROVE  own'.resp.rid = wire'[k].ctx \/ Says(wire', wire'[k].ctx)
    OBVIOUS
  <2>2. CASE k \in DOMAIN wire /\ wire'[k] = wire[k]
    <3>1. Announced(wire[k].ctx)  BY <2>1, <2>2 DEF Responding
    <3>2. QED  BY <1>4, <2>2, <3>1
  <2>3. ASSUME NEW j \in DOMAIN r, wire'[k] = r[j]
        PROVE  own'.resp.rid = wire'[k].ctx \/ Says(wire', wire'[k].ctx)
    <3>1. CASE Announced(r[j].ctx)  BY <1>4, <2>3, <3>1
    <3>2. CASE wire = << >> /\ r[1].kind = "created" /\ r[1].ctx = r[j].ctx
      <4>1. DOMAIN << >> = {}  OBVIOUS
      <4>2. QED  BY <1>1, <2>3, <3>2, <4>1
    <3>3. QED  BY <2>1, <2>3, <3>1, <3>2
  <2>4. QED  BY <1>1, <2>2, <2>3
<1>7. own'.svc.resp # 0 => own'.resp.rid = own'.svc.resp \/ Says(wire', own'.svc.resp)
  <2>1. SUFFICES ASSUME own'.svc.resp # 0 PROVE own'.resp.rid = own'.svc.resp \/ Says(wire', own'.svc.resp)
    OBVIOUS
  <2>2. CASE own'.svc.resp = own.svc.resp
    <3>1. Announced(own.svc.resp)  BY <2>1, <2>2 DEF Responding
    <3>2. QED  BY <1>4, <2>2, <3>1
  <2>3. CASE wire = << >> /\ r # << >> /\ r[1].kind = "created" /\ r[1].ctx = own'.svc.resp
    BY <1>1, <2>3
  <2>4. QED  BY <2>1, <2>2, <2>3
<1>8. own'.svc.resp = 0 /\ NoSettle(wire') => wire' = << >> /\ own'.resp.rid = 0
  <2>1. NoSettle(wire') => NoSettle(wire) /\ NoSettle(r)
    <3>1. NoSettle(wire') => NoSettle(wire)  BY <1>1 DEF NoSettle
    <3>2. NoSettle(wire') => NoSettle(r)  BY <1>1 DEF NoSettle
    <3>3. QED  BY <3>1, <3>2
  <2>2. QED  BY <1>1, <2>1
<1>9. QED  BY <1>5, <1>6, <1>7, <1>8 DEF Responding, Announced

\* What a cancelResponse is answered with.
LEMMA CancelOutputCases ==
    ASSUME NEW o \in KalpaOwns, NEW flush \in BOOLEAN
    PROVE  \/ o.svc.resp # 0 /\ CancelOutput(o, flush) = <<Done(o.svc.resp, FALSE)>>
           \/ /\ o.svc.resp = 0 /\ (o.svc.flushed \/ flush)
              /\ CancelOutput(o, flush) = <<Created(o.made + 1), Done(o.made + 1, FALSE)>>
           \/ o.svc.resp = 0 /\ CancelOutput(o, flush) = << >>
<1>1. Found(o, flush).resp = o.svc.resp /\ (Found(o, flush).flushed <=> (o.svc.flushed \/ flush))
      /\ Found(o, flush).resp \in Nat
  BY FoundType
<1>2. CancelOutput(o, flush) = CancelMsgs(Found(o, flush), o.made)  BY DEF CancelOutput, Found
<1>3. CASE Found(o, flush).resp # 0  BY <1>1, <1>2, <1>3 DEF CancelMsgs
<1>4. CASE Found(o, flush).resp = 0 /\ Found(o, flush).flushed  BY <1>1, <1>2, <1>4 DEF CancelMsgs
<1>5. CASE Found(o, flush).resp = 0 /\ ~Found(o, flush).flushed  BY <1>1, <1>2, <1>5 DEF CancelMsgs
<1>6. QED  BY <1>3, <1>4, <1>5

LEMMA RespondsCancel ==
    ASSUME wire \in Seq(Messages), Responding, Up, own'.resp = own.resp, link'.ws = link.ws,
           NEW STATE o, NEW STATE flush, o \in KalpaOwns, flush \in BOOLEAN, o.svc = own.svc,
           own.svc \in Services, own'.svc = NoService, wire' = wire \o CancelOutput(o, flush),
           CancelOutput(o, flush) # << >> => NoSettle(wire),
           \A k \in DOMAIN wire : wire[k].kind # "error"
    PROVE  Responding' /\ \A k \in DOMAIN wire' : wire'[k].kind # "error"
<1>1. o.made + 1 \in Nat /\ own.svc.resp \in Nat /\ own'.svc.resp = 0
  BY KalpaType, NothingTypes DEF Services
<1> DEFINE r == CancelOutput(o, flush)
           no == FALSE
           d == Done(own.svc.resp, no)
           a == Created(o.made + 1)
           b == Done(o.made + 1, no)
<1>2. no \in BOOLEAN /\ ~no  OBVIOUS
<1>3. \/ own.svc.resp # 0 /\ r = <<d>>
      \/ own.svc.resp = 0 /\ r = <<a, b>>
      \/ own.svc.resp = 0 /\ r = << >>
  BY CancelOutputCases
<1>4. r \in Seq(Messages)  BY CancelOutputParts
<1> HIDE DEF no
<1>5. /\ d.kind = "cancelled" /\ d.ctx = own.svc.resp
      /\ a.kind = "created" /\ a.ctx = o.made + 1 /\ b.kind = "cancelled" /\ b.ctx = o.made + 1
  BY <1>1, <1>2, ServiceTypes
<1>6. wire' = wire \o r /\ (r # << >> => NoSettle(wire))  OBVIOUS
<1> HIDE DEF r, d, a, b
<1>7. \A k \in DOMAIN r : r[k].kind # "error"
  <2>1. CASE r = <<d>>  BY <1>5, <2>1
  <2>2. CASE r = <<a, b>>  BY <1>5, <2>2
  <2>3. CASE r = << >>  BY <2>3
  <2>4. QED  BY <1>3, <2>1, <2>2, <2>3
<1>8. \A k \in DOMAIN wire' : wire'[k].kind # "error"
  <2>1. \A k \in DOMAIN wire' : \/ k \in DOMAIN wire /\ wire'[k] = wire[k]
                                \/ \E j \in DOMAIN r : wire'[k] = r[j]
    BY <1>4, <1>6, WireGrown
  <2>2. QED  BY <1>7, <2>1
<1>9. CASE own.svc.resp # 0 /\ r = <<d>>
  <2>1. Announced(own.svc.resp)  BY <1>9 DEF Responding
  <2>2. ~NoSettle(r) /\ \A k \in DOMAIN r : r[k] = d  BY <1>5, <1>9 DEF NoSettle, Settling
  <2>3. Responding'  BY <1>1, <1>4, <1>5, <1>6, <2>1, <2>2, RespondsGrows
  <2>4. QED  BY <1>8, <2>3
<1>10. CASE own.svc.resp = 0 /\ r = <<a, b>>
  <2>1. DOMAIN r = {1, 2} /\ r[1] = a /\ r[2] = b /\ r # << >>  BY <1>10
  <2>2. wire = << >> /\ own.resp.rid = 0  BY <1>6, <1>10, <2>1 DEF Responding
  <2>3. ~NoSettle(r)  BY <1>5, <2>1 DEF NoSettle, Settling
  <2>4. Responding'  BY <1>1, <1>4, <1>5, <1>6, <2>1, <2>2, <2>3, RespondsGrows
  <2>5. QED  BY <1>8, <2>4
<1>11. CASE own.svc.resp = 0 /\ r = << >>
  <2>1. \A k \in DOMAIN r : FALSE  BY <1>11
  <2>2. NoSettle(wire) => wire = << >> /\ own.resp.rid = 0  BY <1>11 DEF Responding
  <2>3. Responding'  BY <1>1, <1>4, <1>6, <1>11, <2>1, <2>2, RespondsGrows
  <2>4. QED  BY <1>8, <2>3
<1>12. QED  BY <1>3, <1>9, <1>10, <1>11

LEMMA GoesInterrupt ==
    ASSUME KalpaGoes, TypeInv', KalpaInterrupt
    PROVE  Going'
<1>1. TypeInv /\ tts = "kalpa" /\ Going /\ CalmParts  BY GoesFacts DEF KalpaGoes
<1>2. /\ own \in KalpaOwns /\ senders \in Seq(Senders) /\ wire \in Seq(Messages) /\ pipe \in Calling
      /\ own.svc \in Services
  BY <1>1, GoesTypes, KalpaType
<1>3. /\ own'.utt = NoUtterance /\ own'.dirty = 0 /\ own'.slot.idle = own.slot.idle
      /\ ~own.slot.idle => own'.slot.gone
      /\ own'.resp = own.resp /\ own'.at = own.at /\ Barges
  BY <1>1, KalpaInterruptStep
<1> DEFINE flush == CutFlush
<1>4. /\ CutOwn \in KalpaOwns /\ CutOwn.svc = own.svc
      /\ UNCHANGED <<tts, link, senders, said>>
      /\ link.ws = "open" => /\ own'.svc = NoService
                             /\ own'.crossed = (own.crossed \/ (flush /\ Crosses))
                             /\ wire' = wire \o CancelOutput(CutOwn, flush)
      /\ link.ws # "open" => own'.svc = own.svc /\ own'.crossed = own.crossed /\ wire' = wire
  BY <1>1, InterruptOwn
<1>5. own'.utt.turn = 0 /\ ~own'.utt.dead  BY <1>3, NothingTypes
<1>6. ~Live'  BY <1>3 DEF Live
<1>7. ~Current'  BY <1>3 DEF Barges, Current
<1>8. ~Crosses /\ \A k \in DOMAIN wire : wire[k].kind # "error"  BY <1>1 DEF Going, NoErrors, Crosses
<1>9. Responding' /\ \A k \in DOMAIN wire' : wire'[k].kind # "error"
  <2>1. CASE link.ws # "open"
    BY <1>1, <1>3, <1>4, <1>8, <2>1 DEF Going, Responding, Announced, Up
  <2>2. CASE link.ws = "open"
    <3>1. flush \in BOOLEAN /\ (flush <=> CutFlush)  BY <1>2, KalpaParts DEF CutFlush
    <3> HIDE DEF flush
    <3>2. CancelOutput(CutOwn, flush) # << >> => NoSettle(wire)
      <4>1. SettleLast /\ SlotUtterance  BY <1>1 DEF CalmParts
      <4>2. CASE flush
        <5>1. own.utt.turn # 0 /\ ~own.slot.idle  BY <3>1, <4>2 DEF CutFlush
        <5>2. ~Awaits  BY <5>1, GoesFacts
        <5>3. Unanswered(wire)  BY <2>2, <4>1, <5>1, <5>2 DEF SlotUtterance, Up
        <5>4. QED  BY <1>8, <5>3 DEF Unanswered, NoSettle, Settling
      <4>3. CASE ~flush
        <5>1. own.svc.resp = 0 /\ ~own.svc.flushed => CancelOutput(CutOwn, flush) = << >>
          BY <1>4, <3>1, <4>3, CancelOutputParts
        <5>2. CancelOutput(CutOwn, flush) # << >> => own.svc # NoService  BY <5>1, NothingTypes
        <5>3. QED  BY <2>2, <4>1, <5>2 DEF SettleLast, Up
      <4>4. QED  BY <3>1, <4>2, <4>3
    <3>3. Up /\ Responding /\ own'.svc = NoService /\ wire' = wire \o CancelOutput(CutOwn, flush)
          /\ link'.ws = link.ws
      BY <1>1, <1>4, <2>2 DEF Up, Going
    <3>4. QED  BY <1>2, <1>3, <1>4, <1>8, <3>1, <3>2, <3>3, RespondsCancel
  <2>3. QED  BY <2>1, <2>2
<1>10. NoErrors'
  <2>1. ~own'.crossed  BY <1>1, <1>4, <1>8 DEF Going, NoErrors
  <2>2. QED  BY <1>1, <1>4, <1>9, <2>1 DEF Going, NoErrors
<1>11. UtteranceMine'  BY <1>3, <1>5 DEF UtteranceMine
<1>12. SendersMine'
  <2>1. Me' = Me  BY <1>4 DEF Me
  <2>2. QED  BY <1>1, <1>3, <1>4, <1>7, <2>1 DEF Going, SendersMine
<1>13. LiveSlot'  BY <1>6 DEF LiveSlot
<1>14. Ended'  BY <1>1, <1>4, <1>5, <1>7 DEF Going, Ended
<1>15. SenderOpen' /\ Owed'  BY <1>7 DEF SenderOpen, Owed, Due
<1>16. QED  BY <1>9, <1>10, <1>11, <1>12, <1>13, <1>14, <1>15 DEF Going

LEMMA GoesServes ==
    ASSUME KalpaGoes, TypeInv', Up, NEW STATE v, NEW STATE n, NEW STATE r, Serves(v, n, r), link' = link,
           v \in Services, n \in Nat, r \in Seq(Messages), Responding',
           \A k \in DOMAIN r : r[k].kind \notin {"error", "cancelled"},
           own.svc.flushed => v.flushed \/ \E k \in DOMAIN r : r[k].kind = "done"
    PROVE  Going'
<1>1. TypeInv /\ tts = "kalpa" /\ Going  BY GoesFacts DEF KalpaGoes
<1>2. own \in KalpaOwns /\ senders \in Seq(Senders) /\ wire \in Seq(Messages)
  BY <1>1, GoesTypes
<1>3. own' = [own EXCEPT !.svc = v, !.made = n] /\ wire' = wire \o r
      /\ UNCHANGED <<tts, pipe, base, senders, said>>
  BY DEF Serves
<1>4. /\ own'.svc = v /\ own'.igen = own.igen /\ own'.utt = own.utt /\ own'.dirty = own.dirty
      /\ own'.slot = own.slot /\ own'.resp = own.resp /\ own'.at = own.at /\ own'.crossed = own.crossed
  BY <1>2, <1>3 DEF KalpaOwns
<1>5. /\ \A k \in DOMAIN wire' : \/ k \in DOMAIN wire /\ wire'[k] = wire[k]
                                 \/ \E j \in DOMAIN r : wire'[k] = r[j]
      /\ \A k \in DOMAIN wire : k \in DOMAIN wire' /\ wire'[k] = wire[k]
      /\ \A j \in DOMAIN r : \E k \in DOMAIN wire' : wire'[k] = r[j]
  <2>1. wire \in Seq(Messages) /\ r \in Seq(Messages) /\ wire' = wire \o r  BY <1>2, <1>3
  <2>2. \A k \in DOMAIN wire' : \/ k \in DOMAIN wire /\ wire'[k] = wire[k]
                                \/ \E j \in DOMAIN r : wire'[k] = r[j]
    BY <2>1, WireGrown
  <2>3. /\ \A k \in DOMAIN wire : k \in DOMAIN wire' /\ wire'[k] = wire[k]
        /\ \A j \in DOMAIN r : \E k \in DOMAIN wire' : wire'[k] = r[j]
    BY <2>1, WireGrown
  <2>4. QED  BY <2>2, <2>3
<1>6. Live' <=> Live  BY <1>4 DEF Live
<1>7. NoErrors'  BY <1>1, <1>4, <1>5 DEF Going, NoErrors
<1>8. UtteranceMine'  BY <1>1, <1>3, <1>4 DEF Going, UtteranceMine, Current
<1>9. SendersMine'
  <2>1. Me' = Me  BY <1>3 DEF Me
  <2>2. QED  BY <1>1, <1>3, <1>4, <2>1 DEF Going, SendersMine, Current, Of
<1>10. LiveSlot'
  <2>1. Live' => \A k \in DOMAIN wire' : wire'[k].kind # "cancelled"
    BY <1>1, <1>5, <1>6 DEF Going, LiveSlot
  <2>2. link'.ws # "closing"  BY DEF Up
  <2>3. QED  BY <1>1, <1>3, <1>4, <1>6, <2>1, <2>2 DEF Going, LiveSlot, NoneLeft, Of
<1>11. Ended'  BY <1>1, <1>3, <1>4 DEF Going, Ended, Current, NoneLeft, Of
<1>12. SenderOpen'  BY <1>1, <1>3 DEF Going, SenderOpen, Current, Of
<1>13. Owed'
  <2>1. Answer => Answer'
    <3>1. SUFFICES ASSUME Answer PROVE Answer'  OBVIOUS
    <3>2. Live' /\ own'.utt.turn = 0 /\ Up'  BY <1>4, <1>6, <3>1 DEF Answer, Up
    <3>3. own.svc.flushed \/ \E k \in DOMAIN wire : wire[k].kind = "done"  BY <3>1 DEF Answer, Up
    <3>4. own'.svc.flushed \/ \E k \in DOMAIN wire' : wire'[k].kind = "done"
      <4>1. CASE \E k \in DOMAIN wire : wire[k].kind = "done"  BY <1>5, <4>1
      <4>2. CASE \E j \in DOMAIN r : r[j].kind = "done"  BY <1>5, <4>2
      <4>3. CASE v.flushed  BY <1>4, <4>3
      <4>4. QED  BY <3>3, <4>1, <4>2, <4>3
    <3>5. QED  BY <3>2, <3>4 DEF Answer
  <2>2. QED  BY <1>1, <1>3, <1>4, <2>1 DEF Going, Owed, Due, Current, Of, Textless, Texted, Owing
<1>14. QED  BY <1>7, <1>8, <1>9, <1>10, <1>11, <1>12, <1>13 DEF Going

LEMMA GoesRender ==
    ASSUME KalpaGoes, TypeInv', Render
    PROVE  Going'
<1>1. /\ TypeInv /\ tts = "kalpa" /\ CalmParts /\ Up /\ link' = link /\ Responding
  BY GoesFacts DEF KalpaGoes, Going, Render, OnKalpa, Up
<1>2. /\ own \in KalpaOwns /\ own.svc \in Services /\ own.svc.buf \in Seq(Pieces) /\ own.made \in Nat
      /\ own.made + 1 \in Nat /\ own.made + 1 # 0 /\ own.svc.resp \in Nat /\ wire \in Seq(Messages)
  BY <1>1, GoesTypes, KalpaType, KalpaParts
<1> DEFINE v == own.svc
           m == own.made + 1
           yes == TRUE
<1>3. v # NoService => NoSettle(wire)  BY <1>1 DEF CalmParts, SettleLast
<1>4. CASE v.resp = 0 /\ (v.buf # << >> \/ v.flushed) /\ Serves([v EXCEPT !.resp = m], m, <<Created(m)>>)
  <2> DEFINE u == [v EXCEPT !.resp = m]
             x == Created(m)
             r == <<x>>
  <2>1. m \in Nat /\ m # 0  BY <1>2
  <2> HIDE DEF m
  <2>2. x \in Messages /\ x.kind = "created" /\ x.ctx = m  BY <2>1, ServiceTypes
  <2>3. u.buf = v.buf /\ u.flushed = v.flushed /\ u.resp = m /\ u \in Services  BY <1>2, <2>1 DEF Services
  <2>4. Serves(u, m, r)  BY <1>4
  <2>5. v # NoService  BY <1>4, NothingTypes
  <2>6. wire = << >> /\ own.resp.rid = 0  BY <1>1, <1>3, <1>4, <2>5 DEF Responding
  <2> HIDE DEF u, x
  <2>7. r \in Seq(Messages) /\ DOMAIN r = {1} /\ r[1] = x /\ r # << >>  BY <2>2
  <2> HIDE DEF r
  <2>8. own' = [own EXCEPT !.svc = u, !.made = m] /\ wire' = wire \o r  BY <2>4 DEF Serves
  <2>9. own'.svc = u /\ own'.resp = own.resp  BY <1>2, <2>8 DEF KalpaOwns
  <2>10. Responding'
    <3>1. link'.ws = link.ws  BY <1>1
    <3>2. own'.svc.resp = m  BY <2>3, <2>9
    <3>3. QED  BY <1>1, <1>2, <2>1, <2>2, <2>6, <2>7, <2>8, <2>9, <3>1, <3>2, RespondsGrows
  <2>11. QED  BY <1>1, <2>1, <2>2, <2>3, <2>4, <2>7, <2>10, GoesServes
<1>5. CASE /\ v.resp # 0 /\ v.buf # << >>
           /\ Serves([v EXCEPT !.buf = Tail(v.buf)], own.made,
                     <<Audio(Head(v.buf)[1], Head(v.buf)[2], v.resp)>>)
  <2> DEFINE q == Tail(v.buf)
             u == [v EXCEPT !.buf = q]
             x == Audio(Head(v.buf)[1], Head(v.buf)[2], v.resp)
             r == <<x>>
  <2>1. Head(v.buf) \in Pieces /\ q \in Seq(Pieces)  BY <1>2, <1>5, TurnsOfTail
  <2>2. Head(v.buf)[1] \in Turns /\ Head(v.buf)[2] \in Parts  BY <2>1, PieceType
  <2>3. x \in Messages /\ x.kind = "audio"  BY <1>2, <2>2, AudioType DEF Audio
  <2>4. Serves(u, own.made, r)  BY <1>5
  <2> HIDE DEF q, x
  <2>5. u.flushed = v.flushed /\ u.resp = v.resp /\ u \in Services  BY <1>2, <2>1 DEF Services
  <2> HIDE DEF u
  <2>6. r \in Seq(Messages) /\ \A k \in DOMAIN r : r[k].kind = "audio"  BY <2>3
  <2> HIDE DEF r
  <2>7. own' = [own EXCEPT !.svc = u, !.made = own.made] /\ wire' = wire \o r  BY <2>4 DEF Serves
  <2>8. own'.svc = u /\ own'.resp = own.resp  BY <1>2, <2>7 DEF KalpaOwns
  <2>9. Responding'
    <3>1. link'.ws = link.ws  BY <1>1
    <3>2. own'.svc.resp = own.svc.resp /\ own.svc.resp # 0  BY <1>5, <2>5, <2>8
    <3>3. QED  BY <1>1, <1>2, <2>6, <2>7, <2>8, <3>1, <3>2, RespondsGrows
  <2>10. QED  BY <1>1, <1>2, <2>4, <2>5, <2>6, <2>9, GoesServes
<1>6. CASE v.flushed /\ Serves(NoService, own.made, <<Done(v.resp, TRUE)>>) /\ v.resp # 0
  <2> DEFINE x == Done(v.resp, yes)
             r == <<x>>
  <2>1. yes \in BOOLEAN /\ yes /\ Serves(NoService, own.made, r)  BY <1>6
  <2> HIDE DEF yes
  <2>2. x \in Messages /\ x.kind = "done" /\ x.ctx = v.resp  BY <1>2, <2>1, ServiceTypes
  <2> HIDE DEF x
  <2>3. r \in Seq(Messages) /\ DOMAIN r = {1} /\ r[1] = x  BY <2>2
  <2> HIDE DEF r
  <2>4. own' = [own EXCEPT !.svc = NoService, !.made = own.made] /\ wire' = wire \o r  BY <2>1 DEF Serves
  <2>5. own'.svc = NoService /\ own'.resp = own.resp  BY <1>2, <2>4 DEF KalpaOwns
  <2>6. Responding'
    <3>1. link'.ws = link.ws  BY <1>1
    <3>2. own'.svc.resp = 0 /\ ~NoSettle(r)  BY <2>2, <2>3, <2>5, NothingTypes DEF NoSettle, Settling
    <3>3. Announced(own.svc.resp)  BY <1>1, <1>6 DEF Responding
    <3>4. QED  BY <1>1, <1>2, <2>2, <2>3, <2>4, <2>5, <3>1, <3>2, <3>3, RespondsGrows
  <2>7. QED  BY <1>1, <1>2, <2>1, <2>2, <2>3, <2>6, NothingTypes, GoesServes
<1>7. QED  BY <1>4, <1>5, <1>6 DEF Render

---------------------------------------------------------------------------
\* The receiver hears what the service said.

\* The senders stay, and so does the turn.
LEMMA SendersKeep ==
    ASSUME SendersMine, senders' = senders, SameCall, own'.igen = own.igen, own'.at = own.at
    PROVE  SendersMine' /\ (NoneLeft => NoneLeft')
<1>1. Me' = Me  BY DEF Me
<1>2. \A i \in DOMAIN senders : Of(i)' <=> Of(i)  BY DEF SameCall, Of
<1>3. Current' <=> Current  BY DEF SameCall, Current
<1>4. pipe.left = 0 => pipe'.left = 0  BY DEF SameCall
<1>5. SendersMine'  BY <1>1, <1>2, <1>3, <1>4 DEF SendersMine
<1>6. QED  BY <1>2, <1>4, <1>5 DEF NoneLeft

\* What is read is the oldest message.
LEMMA WireRead ==
    ASSUME wire \in Seq(Messages), wire # << >>, NEW more, Read(more)
    PROVE  /\ 1 \in DOMAIN wire /\ Hd = wire[1]
           /\ Hd.kind # "audio" => wire' = Tail(wire)
           /\ \A k \in DOMAIN wire' : \E j \in DOMAIN wire : wire'[k] = wire[j] /\ (Hd.kind # "audio" => j # 1)
           /\ \A j \in DOMAIN wire : j # 1 => \E k \in DOMAIN wire' : wire'[k] = wire[j]
<1>1. Len(wire) \in Nat /\ DOMAIN wire = 1..Len(wire) /\ 1 \in DOMAIN wire /\ Hd = wire[1]
  BY LenProperties, EmptySeq DEF Hd
<1>2. /\ Tail(wire) \in Seq(Messages) /\ Len(Tail(wire)) = Len(wire) - 1
      /\ \A j \in 1..Len(Tail(wire)) : Tail(wire)[j] = wire[j + 1]
  BY HeadTailProperties
<1>3. DOMAIN Tail(wire) = 1..(Len(wire) - 1)  BY <1>2, LenProperties
<1>4. wire' = Tail(wire) \/ (wire' = wire /\ Hd.kind = "audio")  BY <1>1 DEF Read, Hd
<1>5. CASE wire' = Tail(wire)
  <2>1. ASSUME NEW k \in DOMAIN wire'
        PROVE  \E j \in DOMAIN wire : wire'[k] = wire[j] /\ j # 1
    <3>1. k + 1 \in DOMAIN wire /\ k + 1 # 1 /\ wire'[k] = wire[k + 1]  BY <1>1, <1>2, <1>3, <1>5
    <3>2. QED  BY <3>1
  <2>2. ASSUME NEW j \in DOMAIN wire, j # 1
        PROVE  \E k \in DOMAIN wire' : wire'[k] = wire[j]
    <3>1. j - 1 \in DOMAIN wire' /\ (j - 1) + 1 = j  BY <1>1, <1>3, <1>5, <2>2
    <3>2. wire'[j - 1] = wire[j]  BY <1>2, <1>3, <1>5, <3>1
    <3>3. QED  BY <3>1, <3>2
  <2>3. QED  BY <1>1, <1>5, <2>1, <2>2
<1>6. CASE wire' = wire /\ Hd.kind = "audio"  BY <1>1, <1>6
<1>7. QED  BY <1>4, <1>5, <1>6

\* Audio was read, or a response begins.
LEMMA RespondsReads ==
    ASSUME KalpaGoes, wire # << >>, NEW more, Read(more), UNCHANGED link, own'.svc = own.svc,
           \/ Hd.kind = "audio" /\ own'.resp = own.resp
           \/ Hd.kind = "created" /\ own'.resp.rid = Hd.ctx
    PROVE  Responding'
<1>1. TypeInv /\ tts = "kalpa" /\ Responding /\ Sound(wire)  BY GoesFacts DEF KalpaGoes, Going, KeepInv
<1>2. wire \in Seq(Messages) /\ own.svc \in Services  BY <1>1, GoesTypes
<1>3. /\ 1 \in DOMAIN wire /\ Hd = wire[1]
      /\ Hd.kind # "audio" => wire' = Tail(wire)
      /\ \A k \in DOMAIN wire' : \E j \in DOMAIN wire : wire'[k] = wire[j] /\ (Hd.kind # "audio" => j # 1)
      /\ \A j \in DOMAIN wire : j # 1 => \E k \in DOMAIN wire' : wire'[k] = wire[j]
  BY <1>2, WireRead
<1>4. \A k \in DOMAIN wire' : wire'[k].kind # "created"
  BY <1>1, <1>3 DEF Responding
<1>5. ASSUME NEW r, r # 0, Announced(r) PROVE own'.resp.rid = r
  <2>1. CASE Hd.kind = "audio"  BY <1>3, <1>5, <2>1 DEF Announced
  <2>2. CASE Hd.kind = "created"
    <3>1. own.resp.rid = 0  BY <1>1, <1>3, <2>2 DEF Responding
    <3>2. QED  BY <1>3, <1>5, <2>2, <3>1 DEF Announced
  <2>3. QED  BY <2>1, <2>2
<1>6. ASSUME NEW k \in DOMAIN wire', wire'[k].kind \in {"done", "cancelled"}
      PROVE  own'.resp.rid = wire'[k].ctx
  <2>1. PICK j \in DOMAIN wire : wire'[k] = wire[j]  BY <1>3
  <2>2. wire[j].ctx # 0 /\ Announced(wire[j].ctx)  BY <1>1, <1>6, <2>1 DEF Sound, Responding
  <2>3. QED  BY <1>5, <2>1, <2>2
<1>7. Up /\ own.svc.resp # 0 => own'.resp.rid = own.svc.resp  BY <1>1, <1>5 DEF Responding
<1>8. NoSettle(wire') => NoSettle(wire)
  BY <1>3 DEF NoSettle, Settling
<1>9. ~(Up /\ own.svc.resp = 0 /\ NoSettle(wire'))  BY <1>1, <1>8 DEF Responding
<1>10. link'.ws = link.ws  OBVIOUS
<1>11. QED  BY <1>4, <1>6, <1>7, <1>9, <1>10 DEF Responding, Announced, Up

LEMMA GoesHeard ==
    ASSUME KalpaGoes, TypeInv', wire # << >>, ~pipe.over, NEW more, Read(more),
           UNCHANGED <<tts, link, senders>>, SameCall, Hd.kind \in {"audio", "created"}, Responding',
           own'.igen = own.igen, own'.utt = own.utt, own'.dirty = own.dirty, own'.slot = own.slot,
           own'.at = own.at, own'.svc = own.svc, own'.crossed = own.crossed,
           \/ UNCHANGED <<pipe, base, said>>
           \/ Raises
           \/ Plays(Hd) /\ Hd.kind = "audio" /\ ~own.slot.gone
    PROVE  Going'
<1>1. /\ TypeInv /\ tts = "kalpa" /\ Going /\ pipe.ids \subseteq {pipe.turn}
      /\ Live => Current
      /\ own.slot.idle => wire = << >>
  BY GoesFacts DEF KalpaGoes, TurnAlone
<1>2. /\ wire \in Seq(Messages) /\ pipe \in Calling /\ base \in Bases /\ said \in Verdicts
  BY <1>1, GoesTypes
<1>3. /\ 1 \in DOMAIN wire /\ Hd = wire[1]
      /\ \A k \in DOMAIN wire' : \E j \in DOMAIN wire : wire'[k] = wire[j]
      /\ \A j \in DOMAIN wire : j # 1 => \E k \in DOMAIN wire' : wire'[k] = wire[j]
  BY <1>2, WireRead
<1>4. SendersMine' /\ (NoneLeft => NoneLeft')  BY <1>1, SendersKeep DEF Going
<1>5. /\ pipe'.over \/ (base'.open = base.open /\ base'.error = base.error /\ pipe' = pipe)
      /\ said'.ended = said.ended /\ ~said'.late
      /\ pipe'.turn = pipe.turn /\ pipe'.ids = pipe.ids /\ pipe'.cut = pipe.cut
  <2>1. CASE UNCHANGED <<pipe, base, said>>  BY <1>1, <2>1 DEF Going, Ended
  <2>2. CASE Raises
    <3> DEFINE over == TRUE
               left == 0
    <3>1. over \in BOOLEAN /\ left \in {0, pipe.left} /\ pipe' = [pipe EXCEPT !.over = over, !.left = left]
      BY <2>2 DEF Raises
    <3> HIDE DEF over, left
    <3>2. pipe'.over = over  BY <1>2, <3>1, OverFields
    <3>3. pipe'.over  BY <3>2 DEF over
    <3>4. said' = said  BY <2>2 DEF Raises
    <3>5. QED  BY <1>1, <3>3, <3>4 DEF Going, Ended, SameCall
  <2>3. CASE Plays(Hd) /\ Hd.kind = "audio" /\ ~own.slot.gone
    <3>1. pipe' = pipe /\ base' = Labelled(base, Hd.kind) /\ said' = Heard(said, Label(base), Hd)
      BY <2>3 DEF Plays
    <3>2. base'.open = base.open /\ base'.error = base.error  BY <1>2, <2>3, <3>1, LabelledOpen, LabelledType
    <3>3. Hd \in Messages  BY <1>2, <1>3, ElementOfSeq
    <3>4. /\ said'.ended = said.ended
          /\ said'.late => said.late \/ (Label(base) \in pipe.ids /\ Label(base) \in said.ended)
      BY <1>2, <2>3, <3>1, <3>3, HeardEnds
    <3>5. Live /\ Current  BY <1>1, <2>3 DEF Live
    <3>6. pipe.turn \notin said.ended  BY <1>1, <3>5 DEF Going, Ended, Live
    <3>7. ~said'.late  BY <1>1, <3>4, <3>6 DEF Going, Ended
    <3>8. QED  BY <3>1, <3>2, <3>4, <3>7
  <2>4. QED  BY <2>1, <2>2, <2>3
<1>6. Live' <=> Live  BY DEF Live
<1>7. NoErrors'  BY <1>1, <1>3 DEF Going, NoErrors
<1>8. UtteranceMine'  BY <1>1, <1>5 DEF Going, UtteranceMine, Current
<1>9. LiveSlot'
  <2>1. Live' => \A k \in DOMAIN wire' : wire'[k].kind # "cancelled"  BY <1>1, <1>3, <1>6 DEF Going, LiveSlot
  <2>2. Live' => link'.ws # "closing"  BY <1>1, <1>6 DEF Going, LiveSlot
  <2>3. Live' => (own'.utt.turn = 0 => NoneLeft')  BY <1>1, <1>4, <1>6 DEF Going, LiveSlot
  <2>4. Live' => (~pipe'.over => base'.open)  BY <1>1, <1>5, <1>6 DEF Going, LiveSlot
  <2>5. QED  BY <2>1, <2>2, <2>3, <2>4 DEF LiveSlot
<1>10. Ended'  BY <1>1, <1>4, <1>5 DEF Going, Ended, Current
<1>11. SenderOpen'  BY <1>1, <1>5 DEF Going, SenderOpen, Current, Of
<1>12. Owed'
  <2>1. Answer => Answer'
    <3>1. SUFFICES ASSUME Answer PROVE Answer'  OBVIOUS
    <3>2. link.ws # "closing" /\ Up /\ (own.svc.flushed \/ \E k \in DOMAIN wire : wire[k].kind = "done")
      BY <1>1, <3>1 DEF Going, LiveSlot, Answer
    <3>3. (\E k \in DOMAIN wire : wire[k].kind = "done") => \E k \in DOMAIN wire' : wire'[k].kind = "done"
      BY <1>3
    <3>4. Live' /\ own'.utt.turn = 0 /\ Up'  BY <1>6, <3>1, <3>2 DEF Answer, Up
    <3>5. own'.svc.flushed \/ \E k \in DOMAIN wire' : wire'[k].kind = "done"  BY <3>2, <3>3
    <3>6. QED  BY <3>4, <3>5 DEF Answer
  <2>2. SUFFICES ASSUME Due' PROVE /\ Textless' => Texted'
                                   /\ own'.at = "end" /\ Of(1)' => own'.utt.turn # 0
                                   /\ pipe'.left = 0 => Owing' \/ Answer'
    BY DEF Owed
  <2>3. pipe' = pipe /\ Due  BY <1>5, <2>2 DEF Due, Current
  <2>4. QED  BY <1>1, <2>1, <2>3 DEF Going, Owed, Of, Textless, Texted, Owing
<1>13. QED  BY <1>4, <1>7, <1>8, <1>9, <1>10, <1>11, <1>12 DEF Going
---------------------------------------------------------------------------
\* A slot is settled: its turn ends, if it was not barged in on.

LEMMA LiveSettles ==
    ASSUME KalpaGoes, ~pipe.over, NEW o, o.slot = own.slot, NEW emit
    PROVE  /\ Live /\ emit => Settles(o, emit) = <<End(pipe.turn, 0)>> /\ LabelsIn(base, pipe.ids)
           /\ ~(Live /\ emit) => Settles(o, emit) = << >>
<1>1. /\ TypeInv /\ tts = "kalpa" /\ Going /\ TurnAlone
      /\ Live => own.slot.slot = pipe.turn /\ Current
  BY GoesFacts DEF KalpaGoes
<1>2. base \in Bases  BY <1>1, GoesTypes
<1>3. ASSUME Live, emit PROVE Settles(o, emit) = <<End(pipe.turn, 0)>> /\ LabelsIn(base, pipe.ids)
  <2>1. base.open  BY <1>1, <1>3 DEF Going, LiveSlot
  <2>2. LabelsIn(base, pipe.ids) /\ pipe.ids \subseteq {pipe.turn}
    BY <1>1, <1>3, <2>1 DEF TurnAlone, Current
  <2>3. base.q = << >> \/ Head(base.q) = pipe.turn
    <3>1. base.q # << >> => 1 \in DOMAIN base.q /\ Head(base.q) = base.q[1]
      BY <1>2, LenProperties, EmptySeq DEF Bases
    <3>2. QED  BY <2>2, <3>1 DEF LabelsIn
  <2>4. ~o.slot.idle /\ ~o.slot.gone /\ o.slot.slot = pipe.turn  BY <1>1, <1>3 DEF Live
  <2>5. QED  BY <1>3, <2>2, <2>3, <2>4 DEF Settles
<1>4. ~(Live /\ emit) => Settles(o, emit) = << >>  BY DEF Settles, Live
<1>5. QED  BY <1>3, <1>4

LEMMA GoesSettled ==
    ASSUME KalpaGoes, TypeInv', ~pipe.over, UNCHANGED <<tts, senders>>, SameCall,
           link'.ws \in {"none", "open", "closing"}, link'.lost = link.lost, link'.unmet = link.unmet,
           wire' = << >>,
           NEW STATE o, o.slot = own.slot, NEW STATE emit, Yield(Settles(o, emit)),
           own'.igen = own.igen, own'.dirty = own.dirty, own'.at = own.at, own'.crossed = own.crossed,
           own'.utt.turn = own.utt.turn, own'.slot.idle, own'.resp.rid = 0, link'.ws = "open" => own'.svc.resp = 0,
           Answer => emit, own.utt.dead => own'.utt.dead,
           Live /\ emit => own'.utt.dead \/ own.utt.turn = 0,
           own'.utt.dead => own.utt.dead \/ (Live /\ emit)
    PROVE  Going'
<1>1. /\ TypeInv /\ tts = "kalpa" /\ Going /\ TurnAlone
      /\ Live => Current
  BY GoesFacts DEF KalpaGoes
<1>2. /\ pipe \in Calling /\ base \in Bases /\ said \in Verdicts /\ pipe.turn \in 0..MaxTurn
      /\ link \in Sockets /\ link.lost \in Nat
  BY <1>1, GoesTypes DEF Calling, Sockets
<1>3. SendersMine' /\ (NoneLeft => NoneLeft')  BY <1>1, SendersKeep DEF Going
\* The turn ends, or nothing is heard.
<1>4. /\ Live /\ emit => pipe'.over \/ pipe.turn \in said'.ended
      /\ pipe'.over \/ pipe' = pipe
      /\ pipe'.over \/ base' = base \/ pipe.turn \in said'.ended
      /\ pipe'.over \/ base'.error = base.error
      /\ ~(Live /\ emit) => said' = said
      /\ said.ended \subseteq said'.ended /\ ~said'.late
  <2>1. CASE Live /\ emit
    <3> DEFINE m == End(pipe.turn, 0)
    <3>1. Yield(<<m>>) /\ LabelsIn(base, pipe.ids)  BY <2>1, LiveSettles
    <3>2. m \in Messages /\ m.kind = "end"  BY <1>2, EndType
    <3> HIDE DEF m
    <3>3. m.kind # "audio"  BY <3>2
    <3>4. /\ Ongoing
          /\ pipe'.over \/ Plays(m)
          /\ pipe'.over \/ pipe.turn \in said'.ended
      <4>1. pipe.turn \in pipe.ids /\ pipe.ids \subseteq {pipe.turn}
        BY <1>1, <2>1 DEF TurnAlone, Current
      <4>2. UNCHANGED tts  OBVIOUS
      <4>3. QED  BY <1>1, <3>1, <3>2, <3>3, <4>1, <4>2, YieldOngoing
    <3>5. Plays(m) => /\ pipe' = pipe /\ base'.error = base.error
                      /\ said'.late = said.late
      <4>1. SUFFICES ASSUME Plays(m) PROVE /\ pipe' = pipe /\ base'.error = base.error
                                           /\ said'.late = said.late
        OBVIOUS
      <4>2. pipe' = pipe /\ base' = Labelled(base, m.kind) /\ said' = Heard(said, Label(base), m)
        BY <4>1 DEF Plays
      <4>3. base'.error = base.error  BY <1>2, <4>2, LabelledType
      <4>4. said'.late = said.late  BY <1>2, <3>2, <3>3, <4>2, HeardEnds
      <4>5. QED  BY <4>2, <4>3, <4>4
    <3>6. ~said'.late
      <4>1. CASE Plays(m)  BY <1>1, <3>5, <4>1 DEF Going, Ended
      <4>2. CASE Raises  BY <1>1, <4>2 DEF Going, Ended, Raises
      <4>3. QED  BY <3>1, <4>1, <4>2, YieldOne
    <3>7. QED  BY <2>1, <3>4, <3>5, <3>6 DEF Ongoing
  <2>2. CASE ~(Live /\ emit)
    <3>1. Settles(o, emit) = << >>  BY <2>2, LiveSettles
    <3>2. UNCHANGED <<pipe, base, said>>  BY <3>1, YieldNothing
    <3>3. QED  BY <1>1, <2>2, <3>2 DEF Going, Ended
  <2>3. QED  BY <2>1, <2>2
<1>5. pipe'.turn = pipe.turn /\ pipe'.ids = pipe.ids /\ pipe'.cut = pipe.cut  BY DEF SameCall
<1>6. NoErrors'  BY <1>1 DEF Going, NoErrors
<1>7. UtteranceMine'  BY <1>1, <1>5 DEF Going, UtteranceMine, Current
<1>8. LiveSlot'  BY DEF LiveSlot, Live
<1>9. Responding'  BY DEF Responding, Up
<1>10. Ended'
  <2>1. ASSUME Current', pipe'.turn \in said'.ended
        PROVE  own'.utt.dead \/ (NoneLeft' /\ own'.utt.turn = 0)
    <3>1. CASE Live /\ emit
      <4>1. own.utt.turn = 0 => NoneLeft  BY <1>1, <3>1 DEF Going, LiveSlot
      <4>2. QED  BY <1>3, <3>1, <4>1
    <3>2. CASE ~(Live /\ emit)
      <4>1. Current /\ pipe.turn \in said.ended  BY <1>4, <1>5, <2>1, <3>2 DEF Current
      <4>2. own.utt.dead \/ (NoneLeft /\ own.utt.turn = 0)  BY <1>1, <4>1 DEF Going, Ended
      <4>3. QED  BY <1>3, <4>2
    <3>3. QED  BY <3>1, <3>2
  <2>2. own'.utt.dead /\ ~pipe'.over => pipe'.turn \in said'.ended  BY <1>1, <1>4, <1>5 DEF Going, Ended
  <2>3. QED  BY <1>4, <2>1, <2>2 DEF Ended
<1>11. SenderOpen'  BY <1>1, <1>4, <1>5 DEF Going, SenderOpen, Current, Of
<1>12. Owed'
  <2>1. SUFFICES ASSUME Due' PROVE /\ Textless' => Texted'
                                   /\ own'.at = "end" /\ Of(1)' => own'.utt.turn # 0
                                   /\ pipe'.left = 0 => Owing' \/ Answer'
    BY DEF Owed
  <2>2. pipe' = pipe /\ Due /\ ~(Live /\ emit)  BY <1>4, <1>5, <2>1 DEF Due, Current
  <2>3. ~Answer  BY <2>2 DEF Answer
  <2>4. QED  BY <1>1, <2>2, <2>3 DEF Going, Owed, Of, Textless, Texted, Owing
<1>13. QED  BY <1>3, <1>6, <1>7, <1>8, <1>9, <1>10, <1>11, <1>12 DEF Going

LEMMA GoesReceive ==
    ASSUME KalpaGoes, TypeInv', NEW more, KalpaReceive(more)
    PROVE  Going'
<1>1. /\ TypeInv /\ tts = "kalpa" /\ Going /\ CalmParts /\ Sound(wire) /\ NoErrors
      /\ Live => Current
      /\ Awaits => own.utt.turn = 0
      /\ own.slot.idle => wire = << >>
  BY GoesFacts DEF KalpaGoes, Going, KeepInv
<1>2. /\ own \in KalpaOwns /\ wire \in Seq(Messages) /\ pipe \in Calling /\ link \in Sockets
      /\ own.utt.dead \in BOOLEAN /\ own.utt \in Utterances /\ link.lost \in Nat
  BY <1>1, GoesTypes, KalpaType DEF Sockets
<1>3. /\ wire # << >> /\ Read(more) /\ ~pipe.over /\ UNCHANGED <<tts, link, senders>>
      /\ link.ws \in {"open", "closing", "dying"}
  BY <1>1, KalpaHears
<1>4. SameCall  BY <1>1, KalpaReceiveStep DEF Onward
<1>5. 1 \in DOMAIN wire /\ Hd = wire[1] /\ Hd \in Messages /\ Hd.ctx \in Nat
  BY <1>1, <1>3, ReadWire
<1>6. Hd.kind # "error" /\ Hd.ctx # 0 /\ Hd.kind \in {"audio", "created", "done", "cancelled"}
  BY <1>1, <1>5 DEF NoErrors, Sound, Settling
<1>7. HearsResponse(Hd)  BY <1>6 DEF KalpaReceive, Hd
<1>8. CASE Hd.kind = "audio"
  <2>1. own' = own /\ Yield(IF Audible(Hd) THEN <<Hd>> ELSE << >>)  BY <1>7, <1>8 DEF HearsResponse
  <2>2. Responding'  BY <1>3, <1>8, <2>1, RespondsReads
  <2>3. CASE Audible(Hd)
    <3>1. Yield(<<Hd>>)  BY <2>1, <2>3
    <3>2. Plays(Hd) \/ Raises  BY <3>1, YieldOne
    <3>3. ~own.slot.gone  BY <2>3 DEF Audible
    <3>4. QED  BY <1>3, <1>4, <1>8, <2>1, <2>2, <3>2, <3>3, GoesHeard
  <2>4. CASE ~Audible(Hd)
    <3>1. Yield(<< >>)  BY <2>1, <2>4
    <3>2. UNCHANGED <<pipe, base, said>>  BY <3>1, YieldNothing
    <3>3. QED  BY <1>3, <1>4, <1>8, <2>1, <2>2, <3>2, GoesHeard
  <2>5. QED  BY <2>3, <2>4
<1>9. CASE Hd.kind = "created"
  <2>1. /\ own' = [own EXCEPT !.resp = [rid |-> Hd.ctx, serves |-> ~own.slot.idle]]
        /\ Yield(<< >>)
    BY <1>7, <1>9 DEF HearsResponse
  <2>2. /\ own'.resp.rid = Hd.ctx /\ own'.igen = own.igen /\ own'.utt = own.utt /\ own'.dirty = own.dirty
        /\ own'.slot = own.slot
        /\ own'.at = own.at /\ own'.svc = own.svc /\ own'.crossed = own.crossed
    BY <1>2, <1>5, <2>1, BegunType
  <2>3. Responding'  BY <1>3, <1>9, <2>2, RespondsReads
  <2>4. UNCHANGED <<pipe, base, said>>  BY <2>1, YieldNothing
  <2>5. QED  BY <1>3, <1>4, <1>9, <2>2, <2>3, <2>4, GoesHeard
<1>10. CASE Hd.kind \in {"done", "cancelled"}
  <2>1. Hd.ctx = own.resp.rid /\ own.resp.serves
    <3>1. Announced(Hd.ctx)  BY <1>1, <1>5, <1>10 DEF Going, Responding
    <3>2. Hd.ctx = own.resp.rid  BY <1>5, <1>10, <3>1 DEF Announced
    <3>3. QED  BY <1>1, <1>6, <3>2 DEF CalmParts, Serving
  <2> DEFINE o == Past(own.utt.dead)
             emit == Hd.kind = "done"
  <2>2. own' = Settled(o) /\ Yield(Settles(o, emit))
    <3>1. o = [own EXCEPT !.resp = NoResponse]  BY <1>2, PastSame
    <3>2. QED  BY <1>7, <1>10, <2>1, <3>1 DEF HearsResponse
  <2>3. /\ o \in KalpaOwns /\ o.utt = [own.utt EXCEPT !.dead = own.utt.dead] /\ o.resp = NoResponse
        /\ o.igen = own.igen /\ o.dirty = own.dirty /\ o.slot = own.slot
        /\ o.at = own.at /\ o.svc = own.svc /\ o.crossed = own.crossed
    BY <1>2, PastType
  <2>4. emit <=> Hd.kind = "done"  OBVIOUS
  <2> HIDE DEF o, emit
  <2>5. /\ own'.igen = own.igen /\ own'.utt = o.utt /\ own'.dirty = own.dirty
        /\ own'.resp = NoResponse /\ own'.at = own.at /\ own'.svc = own.svc /\ own'.crossed = own.crossed
        /\ own'.slot.idle
    BY <2>2, <2>3, SettledType
  <2>6. own'.utt.turn = own.utt.turn /\ own'.utt.dead = own.utt.dead  BY <1>2, <2>3, <2>5, UtteranceDead
  <2>7. wire' = << >> /\ ~NoSettle(wire) /\ ~Unanswered(wire)
    <3>1. SettleAtEnd(wire)  BY <1>1 DEF CalmParts, SettleLast
    <3>2. wire' = << >>  BY <1>1, <1>3, <1>10, <3>1, ReadParts DEF Settling
    <3>3. QED  BY <1>5, <1>10, <3>2 DEF NoSettle, Unanswered, Settling
  <2>8. link'.ws = "open" => own'.svc.resp = 0
    BY <1>1, <1>3, <2>5, <2>7, NothingTypes DEF CalmParts, SettleLast, Up
  <2>9. own'.resp.rid = 0  BY <2>5, NothingTypes
  <2>10. Answer => emit
    <3>1. Live => Hd.kind # "cancelled"  BY <1>1, <1>5 DEF Going, LiveSlot
    <3>2. QED  BY <1>10, <2>4, <3>1 DEF Answer
  <2>11. Live => own.utt.turn = 0
    <3>1. Live => link.ws # "closing"  BY <1>1, <1>3 DEF Going, LiveSlot
    <3>2. Live => Up  BY <1>1, <1>3, <3>1 DEF NoErrors, Up
    <3>3. Live /\ own.utt.turn # 0 => Awaits  BY <1>1, <2>7, <3>2 DEF CalmParts, SlotUtterance, Live
    <3>4. QED  BY <1>1, <3>3
  <2>12. /\ link'.ws \in {"none", "open", "closing"} /\ link'.lost = link.lost
         /\ link'.unmet = link.unmet /\ UNCHANGED <<tts, senders>>
         /\ own.utt.dead => own'.utt.dead
         /\ Live /\ emit => own'.utt.dead \/ own.utt.turn = 0
         /\ own'.utt.dead => own.utt.dead \/ (Live /\ emit)
    BY <1>1, <1>3, <2>6, <2>11 DEF NoErrors
  <2>13. QED
    BY <1>3, <1>4, <2>2, <2>3, <2>5, <2>6, <2>7, <2>8, <2>9, <2>10, <2>12, GoesSettled
<1>11. QED  BY <1>6, <1>8, <1>9, <1>10

LEMMA GoesMeetsEnd ==
    ASSUME KalpaGoes, TypeInv', KalpaMeetsEnd
    PROVE  Going'
<1>1. /\ TypeInv /\ tts = "kalpa" /\ Going /\ NoErrors /\ UtteranceMine
  BY GoesFacts DEF KalpaGoes, Going
<1>2. /\ own \in KalpaOwns /\ link \in Sockets /\ own.utt.dead \in BOOLEAN /\ own.utt \in Utterances
      /\ own.slot.idle \in BOOLEAN
  BY <1>1, GoesTypes, KalpaType
<1> DEFINE dies == ~own.slot.idle /\ HeardInPart
           d == own.utt.dead \/ dies
           emit == ~own.slot.idle /\ (own.utt.turn = 0 \/ HeardInPart)
<1>3. /\ MeetsEnd /\ link' = [link EXCEPT !.ws = "none"] /\ UNCHANGED <<tts, senders, wire>>
      /\ own' = Settled(Lost(d)) /\ Yield(Settles(own, emit)) /\ ~pipe.over
  BY <1>1, KalpaLoses DEF KalpaMeetsEnd
<1>4. link'.ws = "none" /\ link'.lost = link.lost /\ link'.unmet = link.unmet
  BY <1>2, <1>3 DEF Sockets
<1>5. wire' = << >>  BY <1>1, <1>3 DEF MeetsEnd, NoErrors
<1>6. SameCall  BY <1>1, KalpaMeetsEndStep DEF Onward
<1>7. d \in BOOLEAN  BY <1>2 DEF HeardInPart
<1>8. dies => Live /\ own.utt.turn # 0  BY <1>1 DEF HeardInPart, UtteranceMine, Live
<1>9. /\ d <=> (own.utt.dead \/ dies)
      /\ emit <=> ~own.slot.idle /\ (own.utt.turn = 0 \/ dies)
  BY <1>2
<1> HIDE DEF d, dies, emit
<1>10. /\ Lost(d) \in KalpaOwns /\ Lost(d).utt = [own.utt EXCEPT !.dead = d]
       /\ Lost(d).resp = NoResponse /\ Lost(d).igen = own.igen /\ Lost(d).dirty = own.dirty
       /\ Lost(d).at = own.at /\ Lost(d).crossed = own.crossed
  BY <1>2, <1>7, LostType
<1>11. /\ own'.igen = own.igen /\ own'.utt = [own.utt EXCEPT !.dead = d] /\ own'.dirty = own.dirty
       /\ own'.resp = NoResponse /\ own'.at = own.at /\ own'.crossed = own.crossed
       /\ own'.slot.idle
  BY <1>3, <1>10, SettledType
<1>12. own'.utt.turn = own.utt.turn /\ own'.utt.dead = d  BY <1>2, <1>7, <1>11, UtteranceDead
<1>13. own'.resp.rid = 0  BY <1>11, NothingTypes
<1>14. Answer => emit  BY <1>9 DEF Answer, Live
<1>15. /\ own.utt.dead => own'.utt.dead
       /\ Live /\ emit => own'.utt.dead \/ own.utt.turn = 0
       /\ own'.utt.dead => own.utt.dead \/ (Live /\ emit)
  <2>1. dies => Live /\ emit  BY <1>8, <1>9 DEF Live
  <2>2. QED  BY <1>9, <1>12, <2>1
<1>16. /\ link'.ws \in {"none", "open", "closing"} /\ (link'.ws = "open" => own'.svc.resp = 0)
       /\ UNCHANGED <<tts, senders>>
  BY <1>3, <1>4
<1>17. QED
  BY <1>3, <1>4, <1>5, <1>6, <1>11, <1>12, <1>13, <1>14, <1>15, <1>16, GoesSettled

LEMMA GoesDial ==
    ASSUME KalpaGoes, TypeInv', KalpaDial
    PROVE  Going'
<1>1. /\ TypeInv /\ tts = "kalpa" /\ Going /\ KeepInv
      /\ own.slot.idle => wire = << >>
  BY GoesFacts DEF KalpaGoes
<1>2. own \in KalpaOwns /\ link \in Sockets  BY <1>1, GoesTypes
<1> DEFINE yes == TRUE
<1>3. Dial(Redialled, FALSE, yes) /\ yes \in BOOLEAN  BY DEF KalpaDial, Redialled
<1> HIDE DEF yes
<1>4. /\ link.ws = "none" /\ ~pipe.over /\ UNCHANGED <<tts, pipe, senders, said>>
      /\ base.error => base'.error
      /\ base'.open = base.open /\ ~link'.unmet
      /\ \/ link'.ws = "open" /\ wire' = << >> /\ own' = Redialled
         \/ link'.ws = "none" /\ wire' = wire /\ own' = own
  BY <1>1, <1>3, DialOngoing DEF Down, Going, NoErrors
<1>5. /\ Redialled.slot = FreeSlot /\ Redialled.resp = NoResponse /\ Redialled.svc = NoService
      /\ Redialled.igen = own.igen /\ Redialled.utt = own.utt /\ Redialled.dirty = own.dirty
      /\ Redialled.at = own.at /\ Redialled.crossed = own.crossed
  BY <1>2, RedialledType
<1>6. wire = << >>  BY <1>1, <1>4 DEF KeepInv, SocketUp
<1>7. /\ wire' = << >> /\ link'.ws \in {"none", "open"}
      /\ own'.igen = own.igen /\ own'.utt = own.utt /\ own'.dirty = own.dirty
      /\ own'.at = own.at /\ own'.crossed = own.crossed
      /\ own'.slot = own.slot \/ own'.slot.idle
      /\ link'.ws = "open" => own'.svc.resp = 0 /\ own'.resp.rid = 0
  BY <1>4, <1>5, <1>6, NothingTypes
<1>8. Live' => Live /\ own'.slot = own.slot  BY <1>7 DEF Live
<1>9. NoErrors'  BY <1>1, <1>4, <1>7 DEF Going, NoErrors
<1>10. UtteranceMine'  BY <1>1, <1>4, <1>7 DEF Going, UtteranceMine, Current
<1>11. SendersMine' /\ NoneLeft' = NoneLeft
  <2>1. Me' = Me  BY <1>4 DEF Me
  <2>2. QED  BY <1>1, <1>4, <1>7, <2>1 DEF Going, SendersMine, Current, Of, NoneLeft
<1>12. LiveSlot'
  <2>1. Live' => (own'.utt.turn = 0 => NoneLeft')  BY <1>1, <1>7, <1>8, <1>11 DEF Going, LiveSlot
  <2>2. Live' => (~pipe'.over => base'.open)  BY <1>1, <1>4, <1>8 DEF Going, LiveSlot
  <2>3. QED  BY <1>7, <2>1, <2>2 DEF LiveSlot
<1>13. Responding'  BY <1>7 DEF Responding, Up
<1>14. Ended'  BY <1>1, <1>4, <1>7, <1>11 DEF Going, Ended, Current
<1>15. SenderOpen'  BY <1>1, <1>4 DEF Going, SenderOpen, Current, Of
<1>16. Owed'
  <2>1. ~Answer  BY <1>4 DEF Answer, Up
  <2>2. Due' => Due  BY <1>4 DEF Due, Current
  <2>3. QED  BY <1>1, <1>4, <1>7, <2>1, <2>2 DEF Going, Owed, Of, Textless, Texted, Owing
<1>17. QED  BY <1>9, <1>10, <1>11, <1>12, <1>13, <1>14, <1>15, <1>16 DEF Going
---------------------------------------------------------------------------
\* Every step of Kalpa's.

\* What is written ends no turn.
LEMMA WritesOngoing ==
    ASSUME TypeInv, Holding, NEW o, NEW replay, Writes(o, replay), UNCHANGED <<tts, pipe, link>>
    PROVE  Ongoing
<1>1. said \in Verdicts /\ Given(said, 1) \in Verdicts /\ Given(said, 1).ended = said.ended
  BY MeType, GivenType DEF TypeInv
<1>2. \E x, y : said' = [Given(said, 1) EXCEPT !.again = x, !.mixed = y]  BY DEF Writes
<1>3. said'.ended = said.ended
  <2>1. PICK x, y : said' = [Given(said, 1) EXCEPT !.again = x, !.mixed = y]  BY <1>2
  <2>2. QED  BY <1>1, <2>1 DEF Verdicts
<1>4. QED  BY <1>3, StillOngoing

LEMMA TakesOngoing ==
    ASSUME TypeInv, Holding, NEW o, TakesSlot(o), UNCHANGED <<tts, pipe, link>>
    PROVE  Ongoing
<1>1. CASE said' = said  BY <1>1, StillOngoing
<1>2. CASE Writes(Taken(o), Mine(o).chunks # << >>)  BY <1>2, WritesOngoing
<1>3. QED  BY <1>1, <1>2, TakesSlotForm

LEMMA HolderOngoing ==
    ASSUME TypeInv, tts = "kalpa",
           (\E i \in DOMAIN senders : KalpaStarts(i)) \/ KalpaSends \/ SlotFree \/ SlotTimesOut
    PROVE  Ongoing
<1>1. CASE \E i \in DOMAIN senders : KalpaStarts(i)  BY <1>1, StillOngoing DEF KalpaStarts
<1>2. CASE KalpaSends
  <2>1. Holding /\ UNCHANGED <<tts, pipe, link>>  BY <1>2 DEF KalpaSends
  <2>2. CASE said' = said  BY <2>1, <2>2, StillOngoing
  <2>3. CASE Writes(own, FALSE)
    <3> DEFINE replay == FALSE
    <3>1. Writes(own, replay)  BY <2>3
    <3> HIDE DEF replay
    <3>2. QED  BY <2>1, <3>1, WritesOngoing
  <2>4. CASE TakesSlot(own)  BY <2>1, <2>4, TakesOngoing
  <2>5. QED  BY <1>2, <2>2, <2>3, <2>4, KalpaSendsCases DEF Opens
<1>3. CASE SlotFree
  <2>1. Holding /\ UNCHANGED <<tts, pipe, link>>  BY <1>3 DEF SlotFree
  <2>2. CASE said' = said  BY <2>1, <2>2, StillOngoing
  <2>3. CASE TakesSlot(own)  BY <2>1, <2>3, TakesOngoing
  <2>4. QED  BY <1>3, <2>2, <2>3 DEF SlotFree
<1>4. CASE SlotTimesOut
  <2>1. UNCHANGED <<tts, pipe, said>> /\ link \in Sockets /\ link.lost \in Nat
    BY <1>4 DEF SlotTimesOut, TypeInv, Sockets
  <2>2. link'.lost = link.lost
    <3>1. link' = link \/ link' = [link EXCEPT !.ws = "closing"]  BY <1>4 DEF SlotTimesOut
    <3>2. QED  BY <2>1, <3>1 DEF Sockets
  <2>3. QED  BY <2>1, <2>2 DEF Ongoing
<1>5. QED  BY <1>1, <1>2, <1>3, <1>4

\* Nor is a turn ended that is not valid, when the slot is settled or audio is played.
LEMMA ReceiverOngoing ==
    ASSUME TypeInv, (\E more : KalpaReceive(more)) \/ KalpaMeetsEnd
    PROVE  Ongoing
<1>1. link \in Sockets /\ pipe \in Calling /\ said \in Verdicts /\ link.lost \in Nat
  BY DEF TypeInv, Sockets
<1>2. ASSUME UNCHANGED tts, link'.lost = link.lost, NEW STATE o, o \in KalpaOwns,
             NEW STATE emit, Yield(Settles(o, emit))
      PROVE  Ongoing
  <2> DEFINE m == End(o.slot.slot, 0)
  <2>1. m \in Messages  BY <1>2, KalpaParts, EndType
  <2>2. Settles(o, emit) \in {<< >>, <<m>>}  BY SettlesType
  <2> HIDE DEF m
  <2>3. CASE Settles(o, emit) = << >>
    <3>1. Yield(<< >>)  BY <1>2, <2>3
    <3>2. UNCHANGED <<pipe, base, said>>  BY <3>1, YieldNothing
    <3>3. QED  BY <1>1, <1>2, <3>2 DEF Ongoing
  <2>4. CASE Settles(o, emit) = <<m>>
    <3>1. Yield(<<m>>)  BY <1>2, <2>4
    <3>2. QED  BY <1>2, <2>1, <3>1, YieldOngoing
  <2>5. QED  BY <2>2, <2>3, <2>4
<1>3. ASSUME UNCHANGED <<tts, link>>, Yield(<< >>) PROVE Ongoing
  <2>1. UNCHANGED <<pipe, base, said>>  BY <1>3, YieldNothing
  <2>2. QED  BY <1>3, <2>1, StillOngoing
<1>4. CASE \E more : KalpaReceive(more)
  <2>1. PICK more : KalpaReceive(more)  BY <1>4
  <2>2. /\ tts = "kalpa" /\ UNCHANGED <<tts, link>> /\ wire # << >> /\ Read(more)
        /\ \/ Yield(<< >>)
           \/ Yield(<<Hd>>)
           \/ \E d \in BOOLEAN : \E emit \in BOOLEAN : Yield(Settles(Past(d), emit))
    <3>1. own \in KalpaOwns /\ own.utt.dead \in BOOLEAN  BY <2>1, KalpaOwnType, KalpaParts DEF KalpaReceive
    <3>2. (Hd.kind = "done") \in BOOLEAN /\ TRUE \in BOOLEAN /\ (own.utt.dead \/ own.utt.turn # 0) \in BOOLEAN
      OBVIOUS
    <3>3. QED  BY <2>1, <3>1, <3>2, KalpaHears
  <2>3. own \in KalpaOwns /\ Hd \in Messages /\ link'.lost = link.lost /\ UNCHANGED tts
    BY <2>2, KalpaOwnType, ReadWire
  <2>4. CASE Yield(<< >>)  BY <1>3, <2>2, <2>4
  <2>5. CASE Yield(<<Hd>>)  BY <2>3, <2>5, YieldOngoing
  <2>6. CASE \E d \in BOOLEAN : \E emit \in BOOLEAN : Yield(Settles(Past(d), emit))
    <3>1. PICK d \in BOOLEAN, emit \in BOOLEAN : Yield(Settles(Past(d), emit))  BY <2>6
    <3>2. Past(d) \in KalpaOwns  BY <2>3, PastType
    <3>3. QED  BY <1>2, <2>3, <3>1, <3>2
  <2>7. QED  BY <2>2, <2>4, <2>5, <2>6
<1>5. CASE KalpaMeetsEnd
  <2> DEFINE emit == ~own.slot.idle /\ (own.utt.turn = 0 \/ HeardInPart)
  <2>1. /\ UNCHANGED tts /\ link' = [link EXCEPT !.ws = "none"] /\ Yield(Settles(own, emit)) /\ tts = "kalpa"
    BY <1>5, KalpaLoses
  <2> HIDE DEF emit
  <2>2. link'.lost = link.lost /\ own \in KalpaOwns  BY <1>1, <2>1, KalpaOwnType DEF Sockets
  <2>3. QED  BY <1>2, <2>1, <2>2
<1>6. QED  BY <1>4, <1>5

\* The call is over, or nothing happens.
LEMMA GoesNowhere ==
    ASSUME KalpaGoes, TypeInv', GivesUp \/ UNCHANGED synVars
    PROVE  Going'
<1>1. TypeInv /\ tts = "kalpa" /\ Going  BY GoesFacts DEF KalpaGoes
<1>2. CASE GivesUp
  <2>1. /\ pipe'.over /\ UNCHANGED <<tts, base, link, senders, own, wire, said>>
        /\ pipe'.turn = pipe.turn /\ pipe'.ids = pipe.ids /\ pipe'.cut = pipe.cut /\ pipe'.left = 0
    BY <1>1, <1>2, GivesUpOngoing
  <2>2. SendersMine' /\ (NoneLeft => NoneLeft')
    <3>1. SameCall  BY <1>1, <1>2, GivesUpStep DEF Onward
    <3>2. QED  BY <1>1, <2>1, <3>1, SendersKeep DEF Going
  <2>3. NoErrors' /\ UtteranceMine'  BY <1>1, <2>1 DEF Going, NoErrors, UtteranceMine, Current
  <2>4. LiveSlot'  BY <1>1, <2>1, <2>2 DEF Going, LiveSlot, Live
  <2>5. Responding'  BY <1>1, <2>1 DEF Going, Responding, Announced, Up
  <2>6. Ended'  BY <1>1, <2>1, <2>2 DEF Going, Ended, Current
  <2>7. SenderOpen' /\ Owed'  BY <2>1 DEF SenderOpen, Owed, Due
  <2>8. QED  BY <2>2, <2>3, <2>4, <2>5, <2>6, <2>7 DEF Going
<1>3. CASE UNCHANGED synVars
  <2>1. UNCHANGED <<tts, pipe, base, link, senders, own, wire, said>>  BY <1>3 DEF synVars
  <2>2. NoErrors' /\ UtteranceMine'  BY <1>1, <2>1 DEF Going, NoErrors, UtteranceMine, Current
  <2>3. SendersMine'  BY <1>1, <2>1 DEF Going, SendersMine, Current, Of, Me
  <2>4. LiveSlot'  BY <1>1, <2>1 DEF Going, LiveSlot, Live, NoneLeft, Of
  <2>5. Responding'  BY <1>1, <2>1 DEF Going, Responding, Announced, Up
  <2>6. Ended'  BY <1>1, <2>1 DEF Going, Ended, Current, NoneLeft, Of
  <2>7. SenderOpen'  BY <1>1, <2>1 DEF Going, SenderOpen, Current, Of
  <2>8. Owed'
    <3>1. Answer' = Answer  BY <2>1 DEF Answer, Live, Up
    <3>2. QED  BY <1>1, <2>1, <3>1 DEF Going, Owed, Due, Current, Of, Textless, Texted, Owing
  <2>9. QED  BY <2>2, <2>3, <2>4, <2>5, <2>6, <2>7, <2>8 DEF Going
<1>4. QED  BY <1>2, <1>3

\* In a steady call of Kalpa's what is due of a turn is on its way.
KalpaEnds == tts = "kalpa" /\ Steady => TurnAlone /\ Going

LEMMA KalpaGoesNext ==
    ASSUME LabelInv, EndInv, ApartInv, OnceInv, tts = "kalpa", KalpaEnds, [SpeakNext]_synVars
    PROVE  KalpaEnds'
<1>1. TypeInv  BY DEF LabelInv
<1>2. TypeInv' /\ tts' = tts
  BY <1>1, SpeakStep, StartTurnStep, RetireStep, InvalidateStep DEF Asks, Barges, Onward
<1>3. link'.lost \in Nat /\ link \in Sockets /\ link.lost \in Nat  BY <1>1, <1>2 DEF TypeInv, Sockets
<1> SUFFICES ASSUME Steady'
             PROVE  TurnAlone' /\ Going'
  BY <1>2 DEF KalpaEnds
<1>4. tts \in Closing  BY DEF Closing
<1>5. Steady => KalpaGoes  BY DEF KalpaEnds, KalpaGoes
<1>6. KalpaGoes => TurnAlone  BY DEF KalpaGoes
<1>7. CASE Calls
  <2>1. KalpaGoes  BY <1>1, <1>5, <1>7, CallsSteady
  <2>2. QED  BY <1>2, <1>4, <1>6, <1>7, <2>1, AloneCalls, GoesCalls
<1>8. CASE Pushes
  <2>1. Push(TRUE, KalpaPush, own.igen)  BY <1>8 DEF Pushes
  <2>2. pipe' = [pipe EXCEPT !.left = @ - 1] /\ link' = link  BY <2>1 DEF Push
  <2>3. Asks  BY <1>1, <1>8, PushesStep
  <2>4. KalpaGoes  BY <1>1, <1>2, <1>5, <2>2, PushSteady
  <2>5. QED  BY <1>2, <1>4, <1>6, <1>8, <2>3, <2>4, AloneAsks, GoesPush
<1>9. CASE KalpaInterrupt
  <2>1. Barges /\ pipe' = CutPipe /\ link' = link  BY <1>1, <1>9, KalpaInterruptStep DEF KalpaInterrupt
  <2>2. KalpaGoes  BY <1>1, <1>5, <2>1, CutSteady
  <2>3. QED  BY <1>2, <1>4, <1>6, <1>9, <2>1, <2>2, AloneBarges, GoesInterrupt
\* A step of the rest that goes on, in a call that is steady.
<1>10. ASSUME Ongoing, Onward, KalpaGoes => Going' PROVE TurnAlone' /\ Going'
  <2>1. KalpaGoes  BY <1>1, <1>3, <1>5, <1>10, OngoingSteady
  <2>2. QED  BY <1>6, <1>10, <2>1, AloneOnward
<1>11. CASE (\E i \in DOMAIN senders : KalpaStarts(i)) \/ KalpaSends \/ SlotFree \/ SlotTimesOut
  <2>1. Ongoing  BY <1>1, <1>11, HolderOngoing
  <2>2. Onward  BY <1>1, <1>11, KalpaStartsStep, KalpaSendsStep, SlotFreeStep, SlotTimesOutStep
  <2>3. KalpaGoes => Going'  BY <1>2, <1>11, GoesStarts, GoesSends, GoesSlotFree, GoesTimesOut
  <2>4. QED  BY <1>10, <2>1, <2>2, <2>3
<1>12. CASE Render
  <2>1. UNCHANGED <<tts, pipe, link, said>>  BY <1>12 DEF Render, Serves
  <2>2. Ongoing  BY <1>1, <2>1, StillOngoing
  <2>3. Onward  BY <1>1, <1>12, RenderStep
  <2>4. QED  BY <1>2, <1>10, <1>12, <2>2, <2>3, GoesRender
<1>13. CASE ServiceFails
  <2>1. link'.lost = link.lost + 1
    <3> DEFINE n == link.lost + 1
    <3>1. link' = [link EXCEPT !.lost = n]  BY <1>13 DEF ServiceFails
    <3> HIDE DEF n
    <3>2. link'.lost = n  BY <1>3, <3>1 DEF Sockets
    <3>3. QED  BY <3>2 DEF n
  <2>2. QED  BY <1>3, <2>1 DEF Steady
\* The receiver, the end of the socket, a dial and the end of the call.
<1>14. CASE (\E more : KalpaReceive(more)) \/ KalpaMeetsEnd
  <2>1. Ongoing  BY <1>1, <1>14, ReceiverOngoing
  <2>2. Onward  BY <1>1, <1>14, KalpaReceiveStep, KalpaMeetsEndStep
  <2>3. KalpaGoes => Going'  BY <1>2, <1>14, GoesReceive, GoesMeetsEnd
  <2>4. QED  BY <1>10, <2>1, <2>2, <2>3
\* A dial, the end of the call and the loss of the socket.
<1>15. CASE KalpaDial
  <2> DEFINE yes == TRUE
  <2>1. Dial(Redialled, FALSE, yes) /\ yes \in BOOLEAN  BY <1>15 DEF KalpaDial, Redialled
  <2> HIDE DEF yes
  <2>2. Ongoing  BY <1>1, <2>1, DialOngoing
  <2>3. Onward  BY <1>1, <1>15, KalpaDialStep
  <2>4. QED  BY <1>2, <1>10, <1>15, <2>2, <2>3, GoesDial
<1>16. CASE GivesUp \/ UNCHANGED synVars
  <2>1. Ongoing
    <3>1. CASE GivesUp  BY <1>1, <3>1, GivesUpOngoing
    <3>2. CASE UNCHANGED synVars
      <4>1. UNCHANGED <<tts, pipe, link, said>>  BY <3>2 DEF synVars
      <4>2. QED  BY <1>1, <4>1, StillOngoing
    <3>3. QED  BY <1>16, <3>1, <3>2
  <2>2. Onward  BY <1>1, <1>16, GivesUpStep, StutterStep
  <2>3. QED  BY <1>2, <1>10, <1>16, <2>1, <2>2, GoesNowhere
<1>17. CASE Lose  BY <1>1, <1>17, LoseSteady
<1>18. QED
  BY <1>1, <1>7, <1>8, <1>9, <1>11, <1>12, <1>13, <1>14, <1>15, <1>16, <1>17, KalpaCases
---------------------------------------------------------------------------
\* The theorem.

\* The invariant behind TurnEndsCorrect: what is due of a turn is with a sender, with the
\* service or on the wire.
TurnsInv == SpokenInv /\ V3Inv /\ KalpaEnds

LEMMA TurnsInit ==
    ASSUME SpeakInit
    PROVE  TurnsInv
<1>1. /\ TypeInv /\ pipe.turn = 0 /\ pipe.ids = {} /\ ~pipe.cut /\ ~base.open
      /\ tts = "kalpa" => own = KalpaOwn
      /\ said = NothingSaid /\ wire = << >> /\ senders = << >>
  BY SpeakInits
<1>2. link = NoSocket /\ pipe = NoCall  BY DEF SpeakInit, SynInit
<1>3. link.ws = "none" /\ ~link.unmet /\ pipe.left = 0  BY <1>2 DEF NoSocket, NoCall
<1>4. said.ended = {} /\ ~said.late  BY <1>1 DEF NothingSaid
<1>5. TurnAlone  BY <1>1, <1>4 DEF TurnAlone
<1>6. ~Current  BY <1>1 DEF Current
<1>7. V3Inv  BY <1>1, <1>3, <1>5, <1>6 DEF V3Inv, V3Socket, EndDue, Due
<1>8. ASSUME tts = "kalpa" PROVE Going
  <2>1. /\ own.utt = NoUtterance /\ own.dirty = 0 /\ own.slot = FreeSlot /\ own.resp = NoResponse
        /\ own.at = "text" /\ ~own.crossed
    BY <1>1, <1>8 DEF KalpaOwn
  <2>2. own.utt.turn = 0 /\ ~own.utt.dead /\ own.slot.idle  BY <2>1, NothingTypes
  <2>3. NoErrors /\ UtteranceMine /\ SendersMine  BY <1>1, <1>3, <1>6, <2>1, <2>2 DEF NoErrors, UtteranceMine, SendersMine
  <2>4. LiveSlot /\ Ended  BY <1>4, <1>6, <2>2 DEF LiveSlot, Live, Ended
  <2>5. Responding  BY <1>1, <1>3 DEF Responding, Up
  <2>6. SenderOpen /\ Owed  BY <1>6 DEF SenderOpen, Owed, Due
  <2>7. QED  BY <2>3, <2>4, <2>5, <2>6 DEF Going
<1>9. QED  BY <1>5, <1>7, <1>8, SpokenInit DEF TurnsInv, KalpaEnds

LEMMA TurnsNext ==
    ASSUME TurnsInv, [SpeakNext]_synVars
    PROVE  TurnsInv'
<1>1. LabelInv /\ SpokenInv /\ V3Inv /\ KalpaEnds /\ TypeInv
  BY DEF TurnsInv, SpokenInv, SpeechInv, EndsInv, LabelInv
<1>2. tts = "kalpa" => EndInv /\ ApartInv /\ OnceInv  BY <1>1 DEF SpokenInv, SpeechInv, EndsInv
<1>3. tts' = tts
  BY <1>1, SpeakStep, StartTurnStep, RetireStep, InvalidateStep DEF Asks, Barges, Onward
<1>4. SpokenInv' /\ V3Inv'  BY <1>1, SpokenNext, V3Next
<1>5. KalpaEnds'  BY <1>1, <1>2, <1>3, KalpaGoesNext DEF KalpaEnds
<1>6. QED  BY <1>4, <1>5 DEF TurnsInv

\* In every call of Kalpa or ElevenLabs v3 without a lost socket and without overlapping
\* turns, the end that is due of a turn is with its last sender, with the service or on
\* the wire.
THEOREM TurnsInvariant == SpeakSpec => []TurnsInv
<1>1. SpeakInit => TurnsInv  BY TurnsInit
<1>2. TurnsInv /\ [SpeakNext]_synVars => TurnsInv'  BY TurnsNext
<1>3. QED  BY <1>1, <1>2, PTL DEF SpeakSpec

LEMMA TurnsEnd == TurnsInv => TurnEnds
<1> SUFFICES ASSUME TurnsInv, tts \in {"kalpa", "elevenlabsV3"}, Steady
             PROVE  ~Unended /\ (tts = "kalpa" => ~said.late)
  BY DEF TurnEnds, Steady
<1>1. Unended => /\ Due /\ pipe.left = 0 /\ ~Owing /\ wire = << >> /\ link.ws = "open"
                 /\ tts = "kalpa" => ~own.svc.flushed
  BY DEF Unended, Quiet, Due, Current, Owing
<1>2. CASE tts = "elevenlabsV3"
  <2>1. EndDue  BY <1>2 DEF TurnsInv, V3Inv
  <2>2. QED  BY <1>1, <1>2, <2>1 DEF EndDue, EndOn
<1>3. CASE tts = "kalpa"
  <2>1. Owed /\ Ended  BY <1>3 DEF TurnsInv, KalpaEnds, Going
  <2>2. QED  BY <1>1, <1>3, <2>1 DEF Owed, Ended, Answer
<1>4. QED  BY <1>2, <1>3

\* As long as no socket is lost and no turn starts in another one, a turn of Kalpa or of
\* ElevenLabs v3 that was pushed whole does not stay open once its senders are done and
\* the service is read: _settle_slot and the final frame report its end.  No audio of
\* Kalpa's comes behind it.
THEOREM TurnEndsCorrect == SpeakSpec => []TurnEnds
<1>1. TurnsInv => TurnEnds  BY TurnsEnd
<1>2. QED  BY <1>1, TurnsInvariant, PTL
=============================================================================
