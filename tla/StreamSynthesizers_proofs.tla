--------------------- MODULE StreamSynthesizers_proofs ---------------------
(***************************************************************************)
(* The types of Speaking, and what each action of a stream synthesizer     *)
(* does to them and to the call: it asks for a turn's speech, barges in,   *)
(* or goes on with what was asked for.                                     *)
(***************************************************************************)
EXTENDS Speaking, FiniteSetTheorems, SequenceTheorems, TLAPS

Kinds == {"audio", "end", "note", "created", "done", "cancelled", "error"}
\* Only audio is sure to be of a turn.
Messages ==
    {m \in [turn : 0..MaxTurn, part : {0, 1, 2}, ctx : Nat, kind : Kinds] :
        m.kind = "audio" => m.turn \in Turns /\ m.part \in Parts}
Pieces == Turns \X Parts
Calling ==
    [turn : 0..MaxTurn, ids : SUBSET Turns, left : {0, 1, 2}, cut : BOOLEAN, silent : BOOLEAN,
     overlap : BOOLEAN, over : BOOLEAN]
Bases ==
    [q : Seq(Turns), meta : 0..MaxTurn, open : BOOLEAN, sock : Nat, last : BOOLEAN,
     error : BOOLEAN]
Sockets ==
    [ws : {"none", "open", "closing", "closed", "dying"}, n : Nat, tries : 0..MaxFails,
     lost : Nat, forgot : BOOLEAN, unmet : BOOLEAN]
Senders ==
    [turn : Turns, part : Parts, text : BOOLEAN, last : BOOLEAN, waits : BOOLEAN, epoch : Nat]
Verdicts ==
    [parts : [Turns -> SUBSET Parts], ended : SUBSET Turns, foreign : BOOLEAN, mute : BOOLEAN,
     clipped : BOOLEAN, again : BOOLEAN, order : BOOLEAN, mixed : BOOLEAN, late : BOOLEAN]
StreamOwns ==
    [ctx : Nat, minted : Nat, mine : Nat, eos : Nat, ignore : SUBSET Nat, seq : 0..MaxTurn,
     flag : BOOLEAN, drop : BOOLEAN, fed : BOOLEAN, pend : SUBSET Nat, kept : BOOLEAN]
Utterances == [turn : 0..MaxTurn, chunks : Seq(Pieces), dead : BOOLEAN, conn : Nat]
SlotStates == [idle : BOOLEAN, slot : 0..MaxTurn, gone : BOOLEAN]
Responses == [rid : Nat, serves : BOOLEAN]
Services == [buf : Seq(Pieces), flushed : BOOLEAN, resp : Nat]
KalpaOwns ==
    [igen : Nat, utt : Utterances, dirty : Nat, slot : SlotStates, resp : Responses,
     at : {"text", "end"}, slotted : BOOLEAN, svc : Services, made : Nat, crossed : BOOLEAN]
Owns == IF tts = "kalpa" THEN KalpaOwns ELSE StreamOwns

TypeInv ==
    /\ tts \in Engines /\ pipe \in Calling /\ base \in Bases /\ link \in Sockets
    /\ senders \in Seq(Senders) /\ wire \in Seq(Messages) /\ said \in Verdicts
    /\ own \in Owns /\ base.sock <= link.n

---------------------------------------------------------------------------
\* What a frame does to the labels and to what was heard.

\* The label of the next frame, and the labels after it, are in S.
LabelsIn(b, S) ==
    /\ \A k \in DOMAIN b.q : b.q[k] \in S
    /\ b.q = << >> => b.meta \in S

LEMMA LabelledType ==
    ASSUME NEW b \in Bases, NEW kind
    PROVE  /\ Label(b) \in 0..MaxTurn
           /\ Labelled(b, kind) \in Bases
           /\ Labelled(b, kind).sock \in {0, b.sock}
           /\ Labelled(b, kind).open => b.open
           /\ Labelled(b, kind).error = b.error
           /\ \A k \in DOMAIN Labelled(b, kind).q : k + 1 \in DOMAIN b.q /\ Labelled(b, kind).q[k] = b.q[k + 1]
           /\ Labelled(b, kind).meta = Label(b)
<1> DEFINE q == IF b.q = << >> THEN b.q ELSE Tail(b.q)
           o == b.open /\ kind # "end"
           s == IF kind = "end" THEN 0 ELSE b.sock
           m == Label(b)
<1>1. MaxTurn \in Nat  BY SynthesizerAssumption
<1>2. Label(b) \in 0..MaxTurn
  <2>1. CASE b.q = << >>  BY <2>1 DEF Label, Bases
  <2>2. CASE b.q # << >>
    <3>1. Head(b.q) \in Turns  BY <2>2, HeadTailProperties DEF Bases
    <3>2. QED  BY <2>2, <3>1, <1>1 DEF Label, Turns
  <2>3. QED  BY <2>1, <2>2
<1>3. q \in Seq(Turns)  BY HeadTailProperties DEF Bases
<1>3a. \A k \in DOMAIN q : k + 1 \in DOMAIN b.q /\ q[k] = b.q[k + 1]
  <2>1. CASE b.q = << >>  BY <2>1
  <2>2. CASE b.q # << >>
    <3>1. b.q \in Seq(Turns)  BY DEF Bases
    <3>2. QED  BY <2>2, <3>1, HeadTailProperties, LenProperties
  <2>3. QED  BY <2>1, <2>2
<1>4. o \in BOOLEAN  OBVIOUS
<1>5. s \in Nat /\ s \in {0, b.sock}  BY DEF Bases
<1>6. Labelled(b, kind) = [b EXCEPT !.q = q, !.meta = m, !.open = o, !.sock = s]
  BY DEF Labelled
<1>7. o => b.open  OBVIOUS
<1>8. m \in 0..MaxTurn  BY <1>2
<1>9. m = Label(b)  OBVIOUS
<1> HIDE DEF q, o, s, m
<1>10. [b EXCEPT !.q = q, !.meta = m, !.open = o, !.sock = s] \in Bases
  BY <1>3, <1>4, <1>5, <1>8 DEF Bases
<1>11. /\ [b EXCEPT !.q = q, !.meta = m, !.open = o, !.sock = s].sock = s
       /\ [b EXCEPT !.q = q, !.meta = m, !.open = o, !.sock = s].open = o
       /\ [b EXCEPT !.q = q, !.meta = m, !.open = o, !.sock = s].error = b.error
       /\ [b EXCEPT !.q = q, !.meta = m, !.open = o, !.sock = s].q = q
       /\ [b EXCEPT !.q = q, !.meta = m, !.open = o, !.sock = s].meta = m
  BY DEF Bases
<1>12. QED  BY <1>2, <1>3a, <1>5, <1>6, <1>7, <1>9, <1>10, <1>11

LEMMA LabelledIn ==
    ASSUME NEW b \in Bases, NEW kind, NEW S, LabelsIn(b, S)
    PROVE  Label(b) \in S /\ LabelsIn(Labelled(b, kind), S)
<1>1. Label(b) \in S
  <2>1. CASE b.q = << >>  BY <2>1 DEF Label, LabelsIn
  <2>2. CASE b.q # << >>
    <3>1. b.q \in Seq(Turns)  BY DEF Bases
    <3>2. 1 \in DOMAIN b.q /\ Head(b.q) = b.q[1]  BY <3>1, <2>2
    <3>3. QED  BY <2>2, <3>2 DEF Label, LabelsIn
  <2>3. QED  BY <2>1, <2>2
<1>2. QED  BY <1>1, LabelledType DEF LabelsIn

\* What a frame m under the label l may change of what was heard.
Wrongs(s, t, l, m) ==
    /\ t.foreign => s.foreign \/ (/\ tts \in Exact /\ m.kind = "audio"
                                  /\ l \in pipe.ids /\ m.turn \notin pipe.ids)
    /\ t.mute => s.mute \/ (/\ tts \in Unsilenced /\ m.kind = "audio"
                            /\ l \notin pipe.ids /\ m.turn \in pipe.ids)
    /\ t.clipped => s.clipped \/ (/\ tts \in Exact /\ m.kind # "audio"
                                  /\ l \in pipe.ids /\ l # m.turn /\ m.turn \notin pipe.ids)
    /\ t.again = s.again /\ t.mixed = s.mixed
    /\ \A u \in Turns : \A p \in t.parts[u] :
          p \in s.parts[u] \/ (/\ tts \in Exact /\ m.kind = "audio" /\ u = m.turn /\ p = m.part)

LEMMA HeardType ==
    ASSUME NEW s \in Verdicts, NEW l \in 0..MaxTurn, NEW m \in Messages, pipe \in Calling
    PROVE  Heard(s, l, m) \in Verdicts /\ Wrongs(s, Heard(s, l, m), l, m)
<1>0. pipe.ids \subseteq Turns  BY DEF Calling
<1> DEFINE exact == tts \in Exact
           unsilenced == tts \in Unsilenced
           late == s.late \/ l \in s.ended
           clipped == s.clipped \/ (exact /\ m.turn \notin pipe.ids)
           part == IF exact THEN s.parts[l] \cup {m.part} ELSE s.parts[l]
<1>1. exact \in BOOLEAN /\ unsilenced \in BOOLEAN  OBVIOUS
<1>2. late \in BOOLEAN  BY DEF Verdicts
<1>3. clipped \in BOOLEAN  BY DEF Verdicts
<1>a. CASE m.kind = "audio" /\ l = m.turn /\ l \in pipe.ids
  <2>1. Heard(s, l, m) = [s EXCEPT !.parts[l] = part, !.late = late]
    BY <1>a DEF Heard
  <2>2. part \subseteq Parts
    BY <1>a, <1>0 DEF Verdicts, Messages
  <2>3. \A p \in part : p \in s.parts[l] \/ (exact /\ p = m.part)  OBVIOUS
  <2> HIDE DEF exact, unsilenced, late, clipped, part
  <2>4. [s EXCEPT !.parts[l] = part, !.late = late] \in Verdicts
    BY <1>0, <1>a, <1>2, <2>2 DEF Verdicts
  <2>5. /\ [s EXCEPT !.parts[l] = part, !.late = late].parts = [s.parts EXCEPT ![l] = part]
        /\ [s EXCEPT !.parts[l] = part, !.late = late].foreign = s.foreign
        /\ [s EXCEPT !.parts[l] = part, !.late = late].mute = s.mute
        /\ [s EXCEPT !.parts[l] = part, !.late = late].clipped = s.clipped
        /\ [s EXCEPT !.parts[l] = part, !.late = late].again = s.again
        /\ [s EXCEPT !.parts[l] = part, !.late = late].mixed = s.mixed
    BY DEF Verdicts
  <2>6. \A u \in Turns : \A p \in [s.parts EXCEPT ![l] = part][u] :
           p \in s.parts[u] \/ (exact /\ u = l /\ p = m.part)
    BY <2>3 DEF Verdicts
  <2>7. exact => tts \in Exact  BY DEF exact
  <2>8. QED  BY <1>a, <2>1, <2>4, <2>5, <2>6, <2>7 DEF Wrongs
<1>b. CASE m.kind = "audio" /\ l \in pipe.ids /\ m.turn \notin pipe.ids
  <2>0. l # m.turn  BY <1>b
  <2>1. Heard(s, l, m) = [s EXCEPT !.foreign = exact]
    BY <1>b, <2>0 DEF Heard
  <2>2. exact => tts \in Exact  OBVIOUS
  <2> HIDE DEF exact, unsilenced, late, clipped, part
  <2>3. [s EXCEPT !.foreign = exact] \in Verdicts  BY <1>1 DEF Verdicts
  <2>4. /\ [s EXCEPT !.foreign = exact].foreign = exact
        /\ [s EXCEPT !.foreign = exact].parts = s.parts
        /\ [s EXCEPT !.foreign = exact].mute = s.mute
        /\ [s EXCEPT !.foreign = exact].clipped = s.clipped
        /\ [s EXCEPT !.foreign = exact].again = s.again
        /\ [s EXCEPT !.foreign = exact].mixed = s.mixed
    BY DEF Verdicts
  <2>5. QED  BY <1>b, <2>1, <2>2, <2>3, <2>4 DEF Wrongs
<1>c. CASE m.kind = "audio" /\ l \notin pipe.ids /\ m.turn \in pipe.ids
  <2>0. l # m.turn  BY <1>c
  <2>1. Heard(s, l, m) = [s EXCEPT !.mute = unsilenced]
    BY <1>c, <2>0 DEF Heard
  <2>2. unsilenced => tts \in Unsilenced  OBVIOUS
  <2> HIDE DEF exact, unsilenced, late, clipped, part
  <2>3. [s EXCEPT !.mute = unsilenced] \in Verdicts  BY <1>1 DEF Verdicts
  <2>4. /\ [s EXCEPT !.mute = unsilenced].mute = unsilenced
        /\ [s EXCEPT !.mute = unsilenced].parts = s.parts
        /\ [s EXCEPT !.mute = unsilenced].foreign = s.foreign
        /\ [s EXCEPT !.mute = unsilenced].clipped = s.clipped
        /\ [s EXCEPT !.mute = unsilenced].again = s.again
        /\ [s EXCEPT !.mute = unsilenced].mixed = s.mixed
    BY DEF Verdicts
  <2>5. QED  BY <1>c, <2>1, <2>2, <2>3, <2>4 DEF Wrongs
<1>d. CASE m.kind # "audio" /\ l = m.turn /\ l \in pipe.ids
  <2>1. Heard(s, l, m) = [s EXCEPT !.ended = @ \cup {l}]  BY <1>d DEF Heard
  <2>2. QED  BY <1>d, <1>0, <2>1 DEF Wrongs, Verdicts
<1>e. CASE m.kind # "audio" /\ l # m.turn /\ l \in pipe.ids
  <2>1. Heard(s, l, m) = [s EXCEPT !.clipped = clipped, !.ended = @ \cup {l}]
    BY <1>e DEF Heard
  <2>2. clipped => s.clipped \/ (tts \in Exact /\ m.turn \notin pipe.ids)  OBVIOUS
  <2> HIDE DEF exact, unsilenced, late, clipped, part
  <2>3. [s EXCEPT !.clipped = clipped, !.ended = @ \cup {l}] \in Verdicts
    BY <1>0, <1>3, <1>e DEF Verdicts
  <2>4. /\ [s EXCEPT !.clipped = clipped, !.ended = @ \cup {l}].clipped = clipped
        /\ [s EXCEPT !.clipped = clipped, !.ended = @ \cup {l}].parts = s.parts
        /\ [s EXCEPT !.clipped = clipped, !.ended = @ \cup {l}].mute = s.mute
        /\ [s EXCEPT !.clipped = clipped, !.ended = @ \cup {l}].foreign = s.foreign
        /\ [s EXCEPT !.clipped = clipped, !.ended = @ \cup {l}].again = s.again
        /\ [s EXCEPT !.clipped = clipped, !.ended = @ \cup {l}].mixed = s.mixed
    BY DEF Verdicts
  <2>5. QED  BY <1>e, <2>1, <2>2, <2>3, <2>4 DEF Wrongs
<1>f. CASE /\ l \notin pipe.ids
           /\ m.kind = "audio" => m.turn \notin pipe.ids
  <2>1. Heard(s, l, m) = s  BY <1>f DEF Heard
  <2>2. QED  BY <2>1 DEF Wrongs
<1>g. CASE m.kind = "audio" /\ l \in pipe.ids /\ m.turn \in pipe.ids /\ l # m.turn
  <2>1. Heard(s, l, m) = s  BY <1>g DEF Heard
  <2>2. QED  BY <2>1 DEF Wrongs
<1>h. QED  BY <1>a, <1>b, <1>c, <1>d, <1>e, <1>f, <1>g

LEMMA GivenType ==
    ASSUME NEW s \in Verdicts, NEW i \in DOMAIN senders
    PROVE  /\ Given(s, i) \in Verdicts
           /\ Given(s, i).parts = s.parts /\ Given(s, i).foreign = s.foreign
           /\ Given(s, i).mute = s.mute /\ Given(s, i).clipped = s.clipped
           /\ Given(s, i).mixed = s.mixed /\ Given(s, i).late = s.late
           /\ Given(s, i).ended = s.ended
           /\ tts \notin Exact => Given(s, i).again = s.again
<1> DEFINE again == s.again \/ (/\ tts \in Exact /\ senders[i].text
                              /\ senders[i].part \in s.parts[senders[i].turn])
           order == s.order \/ \E j \in DOMAIN senders :
                        /\ senders[j].turn = senders[i].turn /\ senders[j].part < senders[i].part
                        /\ ~Stale(senders[j])
<1>1. again \in BOOLEAN  BY DEF Verdicts
<1>2. order \in BOOLEAN  BY DEF Verdicts
<1>3. tts \notin Exact => again = s.again  BY DEF Verdicts
<1>4. Given(s, i) = [s EXCEPT !.again = again, !.order = order]  BY DEF Given
<1> HIDE DEF again, order
<1>5. QED  BY <1>1, <1>2, <1>3, <1>4 DEF Verdicts

LEMMA WithoutType ==
    ASSUME senders \in Seq(Senders), NEW i \in DOMAIN senders
    PROVE  /\ Without(i) \in Seq(Senders)
           /\ Len(Without(i)) = Len(senders) - 1
           /\ \A j \in DOMAIN Without(i) :
                 /\ j \in 1..(Len(senders) - 1)
                 /\ Without(i)[j] = IF j < i THEN senders[j] ELSE senders[j + 1]
<1> DEFINE s == SubSeq(senders, 1, i - 1)
           t == SubSeq(senders, i + 1, Len(senders))
<1>0. Len(senders) \in Nat /\ DOMAIN senders = 1..Len(senders) /\ i \in 1..Len(senders)
  BY LenProperties
<1>1. /\ s \in Seq(Senders) /\ Len(s) = i - 1
      /\ \A j \in 1..(i - 1) : s[j] = senders[j]
  <2>1. 1 \in Int /\ i - 1 \in Int  BY <1>0
  <2>2. \A j \in 1..(i - 1) : senders[j] \in Senders  BY <1>0, ElementOfSeq
  <2>3. /\ SubSeq(senders, 1, i - 1) \in Seq(Senders)
        /\ Len(SubSeq(senders, 1, i - 1)) = IF 1 <= i - 1 THEN (i - 1) - 1 + 1 ELSE 0
        /\ \A j \in 1..((i - 1) - 1 + 1) : SubSeq(senders, 1, i - 1)[j] = senders[1 + j - 1]
    BY <2>1, <2>2, SubSeqProperties
  <2>4. QED  BY <2>3, <1>0
<1>2. /\ t \in Seq(Senders) /\ Len(t) = Len(senders) - i
      /\ \A j \in 1..(Len(senders) - i) : t[j] = senders[i + j]
  <2>1. i + 1 \in Int /\ Len(senders) \in Int  BY <1>0
  <2>2. \A j \in (i + 1)..Len(senders) : senders[j] \in Senders  BY <1>0, ElementOfSeq
  <2>3. /\ SubSeq(senders, i + 1, Len(senders)) \in Seq(Senders)
        /\ Len(SubSeq(senders, i + 1, Len(senders))) =
              IF i + 1 <= Len(senders) THEN Len(senders) - (i + 1) + 1 ELSE 0
        /\ \A j \in 1..(Len(senders) - (i + 1) + 1) :
              SubSeq(senders, i + 1, Len(senders))[j] = senders[(i + 1) + j - 1]
    BY <2>1, <2>2, SubSeqProperties
  <2> HIDE DEF t
  <2>4. t = SubSeq(senders, i + 1, Len(senders))  BY DEF t
  <2>5. Len(t) = Len(senders) - i  BY <2>3, <2>4, <1>0
  <2>6. ASSUME NEW j \in 1..(Len(senders) - i) PROVE t[j] = senders[i + j]
    <3>1. j \in 1..(Len(senders) - (i + 1) + 1) /\ (i + 1) + j - 1 = i + j  BY <1>0
    <3>2. QED  BY <2>3, <2>4, <3>1
  <2>7. QED  BY <2>3, <2>4, <2>5, <2>6
<1>3. Without(i) = s \o t  BY DEF Without
<1> HIDE DEF s, t
<1>4. /\ s \o t \in Seq(Senders) /\ Len(s \o t) = Len(s) + Len(t)
      /\ \A j \in 1..(Len(s) + Len(t)) :
            (s \o t)[j] = IF j <= Len(s) THEN s[j] ELSE t[j - Len(s)]
  BY <1>1, <1>2, ConcatProperties
<1>5. Len(s \o t) = Len(senders) - 1 /\ Len(s) + Len(t) = Len(senders) - 1
  BY <1>0, <1>1, <1>2, <1>4
<1>5a. DOMAIN (s \o t) = 1..(Len(senders) - 1)
  BY <1>4, <1>5, LenProperties
<1>6. ASSUME NEW j \in 1..(Len(senders) - 1)
      PROVE  (s \o t)[j] = IF j < i THEN senders[j] ELSE senders[j + 1]
  <2>0. j \in Int /\ Len(s) = i - 1 /\ i \in Int  BY <1>0, <1>1
  <2>1. (s \o t)[j] = IF j <= Len(s) THEN s[j] ELSE t[j - Len(s)]  BY <1>4, <1>5
  <2>2. CASE j < i
    <3>1. j <= Len(s) /\ j \in 1..(i - 1)  BY <2>0, <2>2
    <3>2. QED  BY <2>1, <2>2, <3>1, <1>1
  <2>3. CASE ~(j < i)
    <3>1. ~(j <= Len(s)) /\ j - Len(s) \in 1..(Len(senders) - i) /\ i + (j - Len(s)) = j + 1
      BY <2>0, <2>3, <1>0
    <3>2. t[j - Len(s)] = senders[i + (j - Len(s))]  BY <3>1, <1>2
    <3>3. QED  BY <2>1, <2>3, <3>1, <3>2
  <2>4. QED  BY <2>2, <2>3
<1>7. QED  BY <1>3, <1>4, <1>5, <1>5a, <1>6

---------------------------------------------------------------------------
\* The turns of what was pushed and was not yet heard.
Flying ==
    {senders[i].turn : i \in DOMAIN senders} \cup {wire[k].turn : k \in DOMAIN wire}
    \cup (IF tts = "kalpa"
          THEN {own.svc.buf[k][1] : k \in DOMAIN own.svc.buf}
               \cup {own.utt.chunks[k][1] : k \in DOMAIN own.utt.chunks}
          ELSE {})

QueueIn(b, S) == \A k \in DOMAIN b.q : b.q[k] \in S

\* What every step but those of the call, a push and an interruption keeps.
SameCall ==
    /\ pipe'.turn = pipe.turn /\ pipe'.ids = pipe.ids /\ pipe'.cut = pipe.cut
    /\ pipe'.silent = pipe.silent /\ pipe'.left \in {0, pipe.left}
SameLabels ==
    /\ base'.open => base.open
    /\ QueueIn(base, pipe.ids) => QueueIn(base', pipe.ids)
    /\ LabelsIn(base, pipe.ids) => LabelsIn(base', pipe.ids)
NoNewWrong ==
    /\ said'.mute => \/ said.mute
                     \/ /\ tts \in Unsilenced /\ ~LabelsIn(base, pipe.ids)
                        /\ pipe.ids \cap Flying # {}
    /\ tts \notin Exact => /\ said'.foreign => said.foreign
                           /\ said'.clipped => said.clipped
                           /\ said'.again = said.again /\ said'.mixed = said.mixed
SameContext ==
    tts = "elevenlabs" => /\ own'.mine = own.mine /\ own'.kept = own.kept
                          /\ own'.ctx \in {0, own.ctx}
Onward ==
    /\ tts' = tts /\ SameCall /\ SameLabels /\ NoNewWrong /\ SameContext
    /\ Flying' \subseteq Flying \cup {0}

\* The frames a message makes.
Frames == {<< >>} \cup {<<a>> : a \in Messages}
                \cup {<<a, b>> : a \in Messages, b \in {m \in Messages : m.kind # "audio"}}

LEMMA YieldShape ==
    ASSUME TypeInv, NEW STATE frames, frames \in Frames, Yield(frames), tts' = tts,
           \A k \in DOMAIN frames : frames[k].kind = "audio" => frames[k].turn \in Flying
    PROVE  /\ pipe' \in Calling /\ base' \in Bases /\ said' \in Verdicts
           /\ base'.sock \in {0, base.sock}
           /\ SameCall /\ SameLabels /\ NoNewWrong
<1>0. pipe \in Calling /\ base \in Bases /\ said \in Verdicts  BY DEF TypeInv
<1>1. ASSUME frames # << >>, base.error
      PROVE  /\ pipe' = [pipe EXCEPT !.over = TRUE, !.left = 0] /\ base' = base /\ said' = said
  BY <1>1 DEF Yield
<1>2. CASE frames # << >> /\ base.error
  <2> DEFINE over == TRUE
  <2>0. over \in BOOLEAN /\ pipe' = [pipe EXCEPT !.over = over, !.left = 0]  BY <1>1, <1>2
  <2> HIDE DEF over
  <2>0a. pipe \in Calling  BY <1>0
  <2>0b. pipe' \in Calling  BY <2>0, <2>0a DEF Calling
  <2>0c. SameCall  BY <2>0, <2>0a DEF Calling, SameCall
  <2>1. pipe' \in Calling /\ SameCall  BY <2>0b, <2>0c
  <2>2. QED  BY <1>0, <1>1, <1>2, <2>1 DEF SameLabels, NoNewWrong, QueueIn, LabelsIn
<1>3. ASSUME ~(frames # << >> /\ base.error) PROVE pipe' = pipe  BY <1>3 DEF Yield
<1>4. CASE frames = << >>
  <2>1. base' = base /\ said' = said /\ pipe' = pipe  BY <1>4 DEF Yield
  <2>2. QED  BY <1>0, <2>1 DEF SameCall, SameLabels, NoNewWrong, QueueIn, LabelsIn
<1>5. CASE frames # << >> /\ ~base.error /\ frames \in {<<a>> : a \in Messages}
  <2>1. PICK a \in Messages : frames = <<a>>  BY <1>5
  <2>2. Len(frames) = 1 /\ frames[1] = a /\ 1 \in DOMAIN frames  BY <2>1
  <2>3. base' = Labelled(base, a.kind) /\ said' = Heard(said, Label(base), a) /\ pipe' = pipe
    BY <1>5, <2>2 DEF Yield
  <2>4. /\ Label(base) \in 0..MaxTurn /\ base' \in Bases /\ base'.sock \in {0, base.sock}
        /\ base'.open => base.open
        /\ QueueIn(base, pipe.ids) => QueueIn(base', pipe.ids)
    BY <1>0, <2>3, LabelledType DEF QueueIn
  <2>5. said' \in Verdicts /\ Wrongs(said, said', Label(base), a)
    BY <1>0, <2>3, <2>4, HeardType
  <2>6. LabelsIn(base, pipe.ids) => Label(base) \in pipe.ids /\ LabelsIn(base', pipe.ids)
    BY <1>0, <2>3, LabelledIn
  <2>7. a.kind = "audio" => a.turn \in Flying  BY <2>2
  <2>8a. SameCall  BY <2>3 DEF SameCall
  <2>8b. SameLabels  BY <2>4, <2>6 DEF SameLabels
  <2>8. SameCall /\ SameLabels  BY <2>8a, <2>8b
  <2>9. NoNewWrong
    <3>1. ASSUME said'.mute, ~said.mute
          PROVE  tts \in Unsilenced /\ ~LabelsIn(base, pipe.ids) /\ pipe.ids \cap Flying # {}
      <4>1. tts \in Unsilenced /\ a.kind = "audio" /\ Label(base) \notin pipe.ids /\ a.turn \in pipe.ids
        BY <3>1, <2>5 DEF Wrongs
      <4>2. QED  BY <4>1, <2>6, <2>7
    <3>2. QED  BY <3>1, <2>5 DEF NoNewWrong, Wrongs
  <2>10. QED  BY <1>0, <2>3, <2>4, <2>5, <2>8, <2>9
<1>6. CASE /\ frames # << >> /\ ~base.error
           /\ frames \in {<<a, b>> : a \in Messages, b \in {m \in Messages : m.kind # "audio"}}
  <2>1. PICK a \in Messages, c \in {m \in Messages : m.kind # "audio"} : frames = <<a, c>>
    BY <1>6
  <2>2. Len(frames) = 2 /\ frames[1] = a /\ frames[2] = c /\ 1 \in DOMAIN frames  BY <2>1
  <2> DEFINE b == Labelled(base, a.kind)
             s == Heard(said, Label(base), a)
  <2>3. base' = Labelled(b, c.kind) /\ said' = Heard(s, Label(b), c) /\ pipe' = pipe
    BY <1>6, <2>2 DEF Yield
  <2>4. /\ Label(base) \in 0..MaxTurn /\ b \in Bases /\ b.sock \in {0, base.sock}
        /\ b.open => base.open
        /\ QueueIn(base, pipe.ids) => QueueIn(b, pipe.ids)
        /\ LabelsIn(base, pipe.ids) => Label(base) \in pipe.ids /\ LabelsIn(b, pipe.ids)
    BY <1>0, LabelledType, LabelledIn DEF QueueIn
  <2>5. s \in Verdicts /\ Wrongs(said, s, Label(base), a)  BY <1>0, <2>4, HeardType
  <2> HIDE DEF b, s
  <2>6. /\ Label(b) \in 0..MaxTurn /\ base' \in Bases /\ base'.sock \in {0, b.sock}
        /\ base'.open => b.open
        /\ QueueIn(b, pipe.ids) => QueueIn(base', pipe.ids)
        /\ LabelsIn(b, pipe.ids) => LabelsIn(base', pipe.ids)
    BY <2>3, <2>4, LabelledType, LabelledIn DEF QueueIn
  <2>7. said' \in Verdicts /\ Wrongs(s, said', Label(b), c)  BY <1>0, <2>3, <2>5, <2>6, HeardType
  <2>8. c.kind # "audio" /\ (a.kind = "audio" => a.turn \in Flying)  BY <2>1, <2>2
  <2>9. base'.sock \in {0, base.sock}  BY <2>4, <2>6
  <2>10a. SameCall  BY <2>3 DEF SameCall
  <2>10b. SameLabels  BY <2>4, <2>6 DEF SameLabels
  <2>10. SameCall /\ SameLabels  BY <2>10a, <2>10b
  <2>11. NoNewWrong
    <3>1. ASSUME said'.mute, ~said.mute
          PROVE  tts \in Unsilenced /\ ~LabelsIn(base, pipe.ids) /\ pipe.ids \cap Flying # {}
      <4>1. tts \in Unsilenced /\ a.kind = "audio" /\ Label(base) \notin pipe.ids /\ a.turn \in pipe.ids
        BY <3>1, <2>5, <2>7, <2>8 DEF Wrongs
      <4>2. QED  BY <4>1, <2>4, <2>8
    <3>2. ASSUME tts \notin Exact
          PROVE  /\ said'.foreign => said.foreign
                 /\ said'.clipped => said.clipped
                 /\ said'.again = said.again /\ said'.mixed = said.mixed
      BY <3>2, <2>5, <2>7 DEF Wrongs
    <3>3. QED  BY <3>1, <3>2 DEF NoNewWrong
  <2>12. QED  BY <1>0, <2>3, <2>6, <2>7, <2>9, <2>10, <2>11
<1>7. QED  BY <1>2, <1>4, <1>5, <1>6 DEF Frames

---------------------------------------------------------------------------
\* Sequences of messages.

\* What a sender of turn t has rendered.
Rendering(r, t) == r \in Seq(Messages) /\ \A k \in DOMAIN r : r[k].turn \in {0, t}

LEMMA AudioType ==
    ASSUME NEW t \in Turns, NEW p \in Parts, NEW c \in Nat
    PROVE  Audio(t, p, c) \in Messages /\ Audio(t, p, c).turn = t
           /\ Audio(t, p, c).part = p /\ Audio(t, p, c).ctx = c /\ Audio(t, p, c).kind = "audio"
<1>1. MaxTurn \in Nat  BY SynthesizerAssumption
<1>2. t \in 0..MaxTurn /\ p \in {0, 1, 2}  BY <1>1 DEF Turns, Parts
<1>3. QED  BY <1>2 DEF Audio, Messages, Kinds

LEMMA EndType ==
    ASSUME NEW t \in 0..MaxTurn, NEW c \in Nat
    PROVE  End(t, c) \in Messages /\ End(t, c).turn = t /\ End(t, c).kind = "end"
BY DEF End, Messages, Kinds

LEMMA NoteType ==
    ASSUME NEW c \in Nat
    PROVE  Note(c) \in Messages /\ Note(c).turn = 0 /\ Note(c).kind = "note"
BY SynthesizerAssumption DEF Note, Messages, Kinds

LEMMA RenderingEmpty == ASSUME NEW t PROVE Rendering(<< >>, t)
BY DEF Rendering

LEMMA RenderingOne ==
    ASSUME NEW t, NEW m \in Messages, m.turn \in {0, t}
    PROVE  Rendering(<<m>>, t)
BY DEF Rendering

LEMMA RenderingConcat ==
    ASSUME NEW t, NEW r, NEW s, Rendering(r, t), Rendering(s, t)
    PROVE  Rendering(r \o s, t)
<1>1. /\ r \o s \in Seq(Messages) /\ Len(r \o s) = Len(r) + Len(s)
      /\ \A i \in 1..(Len(r) + Len(s)) :
            (r \o s)[i] = IF i <= Len(r) THEN r[i] ELSE s[i - Len(r)]
  BY ConcatProperties DEF Rendering
<1>2. /\ Len(r) \in Nat /\ DOMAIN r = 1..Len(r) /\ Len(s) \in Nat /\ DOMAIN s = 1..Len(s)
      /\ DOMAIN (r \o s) = 1..(Len(r) + Len(s))
  BY <1>1, LenProperties DEF Rendering
<1>3. ASSUME NEW i \in 1..(Len(r) + Len(s)) PROVE (r \o s)[i].turn \in {0, t}
  <2>1. CASE i <= Len(r)
    <3>1. i \in DOMAIN r /\ (r \o s)[i] = r[i]  BY <1>1, <1>2, <2>1
    <3>2. QED  BY <3>1 DEF Rendering
  <2>2. CASE ~(i <= Len(r))
    <3>1. i - Len(r) \in DOMAIN s /\ (r \o s)[i] = s[i - Len(r)]  BY <1>1, <1>2, <2>2
    <3>2. QED  BY <3>1 DEF Rendering
  <2>3. QED  BY <2>1, <2>2
<1>4. QED  BY <1>1, <1>2, <1>3 DEF Rendering

LEMMA SenderType ==
    ASSUME senders \in Seq(Senders), NEW i \in DOMAIN senders
    PROVE  /\ senders[i] \in Senders /\ senders[i].turn \in Turns
           /\ senders[i].turn \in 0..MaxTurn /\ senders[i].part \in Parts
           /\ senders[i].text \in BOOLEAN /\ senders[i].last \in BOOLEAN
<1>1. senders[i] \in Senders  BY LenProperties, ElementOfSeq
<1>2. MaxTurn \in Nat  BY SynthesizerAssumption
<1>3. senders[i].turn \in Turns /\ senders[i].part \in Parts  BY <1>1 DEF Senders
<1>4. senders[i].text \in BOOLEAN /\ senders[i].last \in BOOLEAN  BY <1>1 DEF Senders
<1>5. QED  BY <1>1, <1>2, <1>3, <1>4 DEF Turns

LEMMA TextsRendering ==
    ASSUME senders \in Seq(Senders), NEW i \in DOMAIN senders, NEW c \in Nat
    PROVE  Rendering(Texts(i, c), senders[i].turn) /\ Rendering(Ends(i, c), senders[i].turn)
<1>1. senders[i].turn \in Turns /\ senders[i].turn \in 0..MaxTurn /\ senders[i].part \in Parts
  BY SenderType
<1>2. Rendering(<<Audio(senders[i].turn, senders[i].part, c)>>, senders[i].turn)
  BY <1>1, AudioType, RenderingOne
<1>3. Rendering(<<End(senders[i].turn, c)>>, senders[i].turn)
  BY <1>1, EndType, RenderingOne
<1>4. QED  BY <1>2, <1>3, RenderingEmpty DEF Texts, Ends

\* Turns of a concatenation, of a prefix and of the rest behind the head.
TurnsFrom(v, w, t) ==
    \A k \in DOMAIN v : v[k].turn \in {0, t} \/ \E j \in DOMAIN w : v[k] = w[j]

LEMMA ConcatTurns ==
    ASSUME NEW t, NEW w \in Seq(Messages), NEW r, Rendering(r, t)
    PROVE  w \o r \in Seq(Messages) /\ TurnsFrom(w \o r, w, t)
<1>1. /\ w \o r \in Seq(Messages) /\ Len(w \o r) = Len(w) + Len(r)
      /\ \A i \in 1..(Len(w) + Len(r)) :
            (w \o r)[i] = IF i <= Len(w) THEN w[i] ELSE r[i - Len(w)]
  BY ConcatProperties DEF Rendering
<1>2. /\ Len(w) \in Nat /\ DOMAIN w = 1..Len(w) /\ Len(r) \in Nat /\ DOMAIN r = 1..Len(r)
      /\ DOMAIN (w \o r) = 1..(Len(w) + Len(r))
  BY <1>1, LenProperties DEF Rendering
<1>3. ASSUME NEW i \in 1..(Len(w) + Len(r))
      PROVE  \/ (w \o r)[i].turn \in {0, t}
             \/ \E j \in DOMAIN w : (w \o r)[i] = w[j]
  <2>1. CASE i <= Len(w)
    <3>1. i \in DOMAIN w /\ (w \o r)[i] = w[i]  BY <1>1, <1>2, <2>1
    <3>2. QED  BY <3>1
  <2>2. CASE ~(i <= Len(w))
    <3>1. i - Len(w) \in DOMAIN r /\ (w \o r)[i] = r[i - Len(w)]  BY <1>1, <1>2, <2>2
    <3>2. QED  BY <3>1 DEF Rendering
  <2>3. QED  BY <2>1, <2>2
<1>4. QED  BY <1>1, <1>2, <1>3 DEF TurnsFrom

LEMMA PrefixTurns ==
    ASSUME NEW S, NEW w \in Seq(S), NEW k \in 0..Len(w)
    PROVE  /\ SubSeq(w, 1, k) \in Seq(S) /\ Len(SubSeq(w, 1, k)) = k
           /\ \A j \in DOMAIN SubSeq(w, 1, k) : j \in 1..k /\ j \in DOMAIN w /\ SubSeq(w, 1, k)[j] = w[j]
<1>0. Len(w) \in Nat /\ DOMAIN w = 1..Len(w)  BY LenProperties
<1>1. \A i \in 1..k : w[i] \in S  BY <1>0, ElementOfSeq
<1>2. /\ SubSeq(w, 1, k) \in Seq(S) /\ Len(SubSeq(w, 1, k)) = IF 1 <= k THEN k - 1 + 1 ELSE 0
      /\ \A i \in 1..(k - 1 + 1) : SubSeq(w, 1, k)[i] = w[1 + i - 1]
  BY <1>0, <1>1, SubSeqProperties
<1>3. DOMAIN SubSeq(w, 1, k) = 1..k  BY <1>0, <1>2, LenProperties
<1>4. Len(SubSeq(w, 1, k)) = k  BY <1>0, <1>2
<1>5. ASSUME NEW j \in 1..k PROVE j \in DOMAIN w /\ SubSeq(w, 1, k)[j] = w[j]
  <2>1. j \in 1..(k - 1 + 1) /\ 1 + j - 1 = j /\ j \in 1..Len(w)  BY <1>0
  <2>2. QED  BY <1>0, <1>2, <2>1
<1>6. QED  BY <1>2, <1>3, <1>4, <1>5

---------------------------------------------------------------------------
\* The steps the providers share.

KalpaTurns(o) ==
    {o.svc.buf[k][1] : k \in DOMAIN o.svc.buf} \cup {o.utt.chunks[k][1] : k \in DOMAIN o.utt.chunks}
SendersFrom == \A j \in DOMAIN senders' : \E i \in DOMAIN senders : senders'[j].turn = senders[i].turn
WireFrom == \A k \in DOMAIN wire' : wire'[k].turn \in Flying \cup {0}

LEMMA FlyingFewer ==
    ASSUME tts' = tts, SendersFrom, WireFrom,
           tts = "kalpa" => KalpaTurns(own') \subseteq Flying
    PROVE  Flying' \subseteq Flying \cup {0}
<1>1. \A j \in DOMAIN senders' : senders'[j].turn \in Flying  BY DEF SendersFrom, Flying
<1>2. \A k \in DOMAIN wire' : wire'[k].turn \in Flying \cup {0}  BY DEF WireFrom
<1>3. CASE tts = "kalpa"
  <2>1. Flying' = {senders'[i].turn : i \in DOMAIN senders'} \cup {wire'[k].turn : k \in DOMAIN wire'}
                  \cup KalpaTurns(own')
    BY <1>3 DEF Flying, KalpaTurns
  <2>2. QED  BY <1>1, <1>2, <1>3, <2>1
<1>4. CASE tts # "kalpa"
  <2>1. Flying' = {senders'[i].turn : i \in DOMAIN senders'} \cup {wire'[k].turn : k \in DOMAIN wire'}
    BY <1>4 DEF Flying
  <2>2. QED  BY <1>1, <1>2, <2>1
<1>5. QED  BY <1>3, <1>4

LEMMA FlyingHas ==
    /\ \A i \in DOMAIN senders : senders[i].turn \in Flying
    /\ \A k \in DOMAIN wire : wire[k].turn \in Flying
    /\ tts = "kalpa" => KalpaTurns(own) \subseteq Flying
BY DEF Flying, KalpaTurns

LEMMA SameSenders ==
    ASSUME senders' = senders
    PROVE  SendersFrom
BY DEF SendersFrom

LEMMA FewerSenders ==
    ASSUME senders \in Seq(Senders), NEW i \in DOMAIN senders, senders' = Without(i)
    PROVE  senders' \in Seq(Senders) /\ SendersFrom
<1>1. /\ Without(i) \in Seq(Senders)
      /\ \A j \in DOMAIN Without(i) :
            /\ j \in 1..(Len(senders) - 1)
            /\ Without(i)[j] = IF j < i THEN senders[j] ELSE senders[j + 1]
  BY WithoutType
<1>2. Len(senders) \in Nat /\ DOMAIN senders = 1..Len(senders)  BY LenProperties
<1>3. \A j \in 1..(Len(senders) - 1) : j \in DOMAIN senders /\ j + 1 \in DOMAIN senders  BY <1>2
<1>4. QED  BY <1>1, <1>3 DEF SendersFrom

LEMMA WaitsField ==
    ASSUME NEW x \in Senders, NEW w \in BOOLEAN
    PROVE  [x EXCEPT !.waits = w] \in Senders /\ [x EXCEPT !.waits = w].turn = x.turn
BY DEF Senders

LEMMA WaitingSender ==
    ASSUME senders \in Seq(Senders), NEW i \in DOMAIN senders,
           senders' = [senders EXCEPT ![i].waits = TRUE]
    PROVE  senders' \in Seq(Senders) /\ SendersFrom
<1> DEFINE tr == TRUE
           s == [senders[i] EXCEPT !.waits = tr]
<1>1. senders[i] \in Senders  BY SenderType
<1>2. tr \in BOOLEAN  OBVIOUS
<1>3. senders' = [senders EXCEPT ![i] = s]  OBVIOUS
<1> HIDE DEF tr
<1>4. s \in Senders  BY <1>1, <1>2, WaitsField
<1>4a. s.turn = senders[i].turn  BY <1>1, <1>2, WaitsField
<1> HIDE DEF s
<1>4b. i \in 1..Len(senders)  BY LenProperties
<1>4c. [senders EXCEPT ![i] = s] \in Seq(Senders)  BY <1>4, <1>4b, ExceptSeq, Zenon
<1>5. senders' \in Seq(Senders)  BY <1>3, <1>4c, Zenon
<1>6. \A j \in DOMAIN senders' : j \in DOMAIN senders /\ senders'[j].turn = senders[j].turn
  BY <1>3, <1>4a
<1>7. QED  BY <1>5, <1>6 DEF SendersFrom

LEMMA StillLabels ==
    ASSUME base'.q = base.q, base'.meta = base.meta, base'.open => base.open
    PROVE  SameLabels
BY DEF SameLabels, QueueIn, LabelsIn

LEMMA StillSaid ==
    ASSUME said' = said
    PROVE  NoNewWrong
BY DEF NoNewWrong

LEMMA StillCall ==
    ASSUME pipe' = pipe
    PROVE  SameCall
BY DEF SameCall

LEMMA WaitsStep ==
    ASSUME TypeInv, NEW i \in DOMAIN senders, NEW ready, Waits(i, ready)
    PROVE  TypeInv' /\ Onward
<1>1. /\ senders' = [senders EXCEPT ![i].waits = TRUE]
      /\ UNCHANGED <<tts, pipe, base, link, own, wire, said>>
  BY DEF Waits
<1>2. senders' \in Seq(Senders) /\ SendersFrom  BY <1>1, WaitingSender DEF TypeInv
<1>3. TypeInv'  BY <1>1, <1>2 DEF TypeInv, Owns
<1>4. WireFrom  BY <1>1, FlyingHas DEF WireFrom
<1>5. Flying' \subseteq Flying \cup {0}  BY <1>1, <1>2, <1>4, FlyingFewer, FlyingHas
<1>6. SameContext  BY <1>1 DEF SameContext
<1>7. QED  BY <1>1, <1>3, <1>5, <1>6, StillLabels, StillSaid, StillCall DEF Onward

LEMMA DropsStep ==
    ASSUME TypeInv, NEW i \in DOMAIN senders, NEW again, Drops(i, again)
    PROVE  TypeInv' /\ Onward
<1>1. senders' = Without(i) /\ UNCHANGED <<tts, pipe, base, link, own, wire, said>>
  BY DEF Drops
<1>2. senders' \in Seq(Senders) /\ SendersFrom  BY <1>1, FewerSenders DEF TypeInv
<1>3. TypeInv'  BY <1>1, <1>2 DEF TypeInv, Owns
<1>4. WireFrom  BY <1>1, FlyingHas DEF WireFrom
<1>5. Flying' \subseteq Flying \cup {0}  BY <1>1, <1>2, <1>4, FlyingFewer, FlyingHas
<1>6. SameContext  BY <1>1 DEF SameContext
<1>7. QED  BY <1>1, <1>3, <1>5, <1>6, StillLabels, StillSaid, StillCall DEF Onward

\* base with some flags changed.
Flags(b) ==
    /\ b \in Bases /\ b.q = base.q /\ b.meta = base.meta /\ b.open = base.open

LEMMA LastFlags ==
    ASSUME base \in Bases, NEW x \in BOOLEAN
    PROVE  /\ Flags([base EXCEPT !.last = x]) /\ [base EXCEPT !.last = x].sock = base.sock
           /\ Flags([base EXCEPT !.error = x]) /\ [base EXCEPT !.error = x].sock = base.sock
BY DEF Flags, Bases

LEMMA ErrorFlags ==
    ASSUME base \in Bases, NEW x \in BOOLEAN, NEW y \in BOOLEAN
    PROVE  /\ Flags([base EXCEPT !.error = x, !.last = y])
           /\ [base EXCEPT !.error = x, !.last = y].sock = base.sock
BY DEF Flags, Bases

\* A send: the frame of a sender's step whose message is on its way or lost.
LEMMA SendShape ==
    ASSUME TypeInv, NEW i \in DOMAIN senders, tts # "kalpa", senders' = Without(i),
           Flags(base'), base'.sock <= link.n, own' \in StreamOwns, SameContext,
           said' \in {said, Given(said, i)},
           wire' \in Seq(Messages), WireFrom,
           UNCHANGED <<tts, pipe, link>>
    PROVE  TypeInv' /\ Onward
<1>1. senders' \in Seq(Senders) /\ SendersFrom  BY FewerSenders DEF TypeInv
<1>2. said' \in Verdicts /\ NoNewWrong
  <2>1. CASE said' = said  BY <2>1, StillSaid DEF TypeInv
  <2>2. CASE said' = Given(said, i)
    <3>1. said \in Verdicts  BY DEF TypeInv
    <3>2. QED  BY <2>2, <3>1, GivenType DEF NoNewWrong
  <2>3. QED  BY <2>1, <2>2
<1>3. own' \in Owns'  BY DEF Owns
<1>4. TypeInv'  BY <1>1, <1>2, <1>3 DEF TypeInv, Flags
<1>5. Flying' \subseteq Flying \cup {0}  BY <1>1, FlyingFewer
<1>6. SameLabels  BY StillLabels DEF Flags
<1>7. QED  BY <1>2, <1>4, <1>5, <1>6, StillCall DEF Onward

LEMMA RenderedWire ==
    ASSUME TypeInv, NEW i \in DOMAIN senders, NEW w \in Seq(Messages),
           \A k \in DOMAIN w : w[k].turn \in Flying \cup {0},
           NEW r, Rendering(r, senders[i].turn), wire' = w \o r
    PROVE  wire' \in Seq(Messages) /\ WireFrom
<1>1. senders[i].turn \in Flying  BY FlyingHas
<1>2. w \o r \in Seq(Messages) /\ TurnsFrom(w \o r, w, senders[i].turn)
  BY ConcatTurns
<1>3. ASSUME NEW k \in DOMAIN (w \o r) PROVE (w \o r)[k].turn \in Flying \cup {0}
  <2>1. CASE (w \o r)[k].turn \in {0, senders[i].turn}  BY <1>1, <2>1
  <2>2. CASE \E j \in DOMAIN w : (w \o r)[k] = w[j]
    <3>1. PICK j \in DOMAIN w : (w \o r)[k] = w[j]  BY <2>2
    <3>2. QED  BY <3>1
  <2>3. QED  BY <1>2, <2>1, <2>2 DEF TurnsFrom
<1>4. QED  BY <1>2, <1>3 DEF WireFrom

LEMMA SendsStep ==
    ASSUME TypeInv, NEW i \in DOMAIN senders, NEW again, NEW STATE r, NEW STATE o,
           tts # "kalpa", Rendering(r, senders[i].turn), o \in StreamOwns,
           tts = "elevenlabs" => o.mine = own.mine /\ o.kept = own.kept /\ o.ctx \in {0, own.ctx},
           Sends(i, again, r, o)
    PROVE  TypeInv' /\ Onward
<1>1. senders' = Without(i) /\ UNCHANGED <<tts, pipe, link>>  BY DEF Sends, AtSend
<1>2. senders[i].text \in BOOLEAN /\ senders[i].last \in BOOLEAN  BY SenderType DEF TypeInv
<1>3. base \in Bases /\ base.sock <= link.n /\ own \in StreamOwns /\ wire \in Seq(Messages)
  BY DEF TypeInv, Owns
<1>4. CASE link.ws = "open"
  <2>1. /\ wire' = wire \o r /\ own' = o /\ said' = Given(said, i)
        /\ base' = [base EXCEPT !.last = base.last \/ senders[i].last]
    BY <1>4 DEF Sends
  <2> DEFINE x == base.last \/ senders[i].last
  <2>2. x \in BOOLEAN  BY <1>2
  <2>3. base' = [base EXCEPT !.last = x]  BY <2>1
  <2> HIDE DEF x
  <2>4. Flags(base') /\ base'.sock <= link.n  BY <1>3, <2>2, <2>3, LastFlags
  <2>5. wire' \in Seq(Messages) /\ WireFrom  BY <1>3, <2>1, RenderedWire, FlyingHas
  <2>6. SameContext  BY <2>1 DEF SameContext
  <2>7. QED  BY <1>1, <2>1, <2>4, <2>5, <2>6, SendShape
<1>5. CASE link.ws # "open"
  <2>1. /\ UNCHANGED <<wire, own, said>>
        /\ base' = [base EXCEPT !.error = TRUE, !.last = base.last \/ (senders[i].last /\ ~senders[i].text)]
    BY <1>5 DEF Sends
  <2> DEFINE x == TRUE
             y == base.last \/ (senders[i].last /\ ~senders[i].text)
  <2>2. x \in BOOLEAN /\ y \in BOOLEAN  BY <1>2
  <2>3. base' = [base EXCEPT !.error = x, !.last = y]  BY <2>1
  <2> HIDE DEF x, y
  <2>4. Flags(base') /\ base'.sock <= link.n  BY <1>3, <2>2, <2>3, ErrorFlags
  <2>5. wire' \in Seq(Messages) /\ WireFrom  BY <1>3, <2>1, FlyingHas DEF WireFrom
  <2>6. SameContext  BY <2>1 DEF SameContext
  <2>7. QED  BY <1>1, <1>3, <2>1, <2>4, <2>5, <2>6, SendShape
<1>6. QED  BY <1>4, <1>5

LEMMA MintedType ==
    ASSUME NEW o \in StreamOwns
    PROVE  Minted(o) \in StreamOwns /\ Minted(o).mine = o.mine /\ Minted(o).kept = o.kept
           /\ Minted(o).ctx = o.minted + 1 /\ Minted(o).ctx \in Nat /\ Minted(o).ctx # 0
<1> DEFINE n == o.minted + 1
<1>1. n \in Nat /\ n # 0  BY DEF StreamOwns
<1>2. Minted(o) = [o EXCEPT !.ctx = n, !.minted = n]  BY DEF Minted
<1>3. Minted(o).ctx = o.minted + 1  BY DEF Minted, StreamOwns
<1> HIDE DEF n
<1>4. Minted(o) \in StreamOwns  BY <1>1, <1>2 DEF StreamOwns
<1>5. Minted(o).mine = o.mine /\ Minted(o).kept = o.kept /\ Minted(o).ctx = n
  BY <1>2 DEF StreamOwns
<1>6. QED  BY <1>1, <1>3, <1>4, <1>5

LEMMA StreamOwnType == ASSUME TypeInv, tts # "kalpa" PROVE own \in StreamOwns /\ own.ctx \in Nat
<1>1. own \in StreamOwns  BY DEF TypeInv, Owns
<1>2. QED  BY <1>1 DEF StreamOwns

LEMMA ElevenSendStep ==
    ASSUME TypeInv, NEW i \in DOMAIN senders, tts = "elevenlabs", ElevenSend(i)
    PROVE  TypeInv' /\ Onward
<1> DEFINE c == IF senders[i].last THEN 0 ELSE own.ctx
           o == [own EXCEPT !.ctx = c]
           r == Texts(i, own.ctx) \o (IF own.ctx # 0 THEN Ends(i, own.ctx) ELSE << >>)
           again == senders[i].text
<1>0. own \in StreamOwns /\ own.ctx \in Nat  BY StreamOwnType
<1>1. Sends(i, again, r, o)  BY DEF ElevenSend
<1>2. Rendering(IF own.ctx # 0 THEN Ends(i, own.ctx) ELSE << >>, senders[i].turn)
  BY <1>0, TextsRendering, RenderingEmpty DEF TypeInv
<1>3. Rendering(r, senders[i].turn)
  BY <1>0, <1>2, TextsRendering, RenderingConcat DEF TypeInv
<1>4. c \in Nat /\ c \in {0, own.ctx}  BY <1>0
<1> HIDE DEF c, r, again
<1>5. o \in StreamOwns /\ o.mine = own.mine /\ o.kept = own.kept /\ o.ctx = c
  BY <1>0, <1>4 DEF StreamOwns
<1> HIDE DEF o
<1>6. QED  BY <1>1, <1>3, <1>4, <1>5, SendsStep

LEMMA PlainSendStep ==
    ASSUME TypeInv, NEW i \in DOMAIN senders, tts \in {"cartesia", "pixa", "deepgram"},
           CartesiaSend(i) \/ PixaSend(i) \/ DeepgramSend(i)
    PROVE  TypeInv' /\ Onward
<1>0. own \in StreamOwns /\ own.ctx \in Nat /\ 0 \in Nat  BY StreamOwnType
<1>1. PICK c \in {0, own.ctx} : \E again \in {FALSE, senders[i].text} :
         Sends(i, again, Texts(i, c) \o Ends(i, c), own)
  BY DEF CartesiaSend, PixaSend, DeepgramSend
<1>2. PICK again : Sends(i, again, Texts(i, c) \o Ends(i, c), own)  BY <1>1
<1>3. Rendering(Texts(i, c) \o Ends(i, c), senders[i].turn)
  <2>1. c \in Nat  BY <1>0
  <2>2. QED  BY <2>1, TextsRendering, RenderingConcat DEF TypeInv
<1>4. QED  BY <1>0, <1>2, <1>3, SendsStep

LEMMA SarvamSendStep ==
    ASSUME TypeInv, NEW i \in DOMAIN senders, tts = "sarvam", SarvamSend(i)
    PROVE  TypeInv' /\ Onward
<1>0. /\ own \in StreamOwns /\ wire \in Seq(Messages) /\ base \in Bases /\ link.n \in Nat
      /\ base.sock \in Nat /\ base.sock <= link.n
  BY StreamOwnType DEF TypeInv, Sockets, Bases
<1>1. senders' = Without(i) /\ UNCHANGED <<tts, pipe, link, own>>  BY DEF SarvamSend, AtSend
<1>2. senders[i].text \in BOOLEAN /\ senders[i].last \in BOOLEAN  BY SenderType DEF TypeInv
<1>3. SameContext  BY DEF SameContext
<1> DEFINE n == IF senders[i].text THEN link.n ELSE base.sock
           b == [base EXCEPT !.sock = n]
<1>4. n \in Nat /\ n <= link.n  BY <1>0
<1>5. CASE link.ws = "open"
  <2> DEFINE r == Texts(i, 0) \o Ends(i, 0)
             x == base.last \/ senders[i].last
  <2>1. wire' = (wire \o Texts(i, 0)) \o Ends(i, 0) /\ said' = Given(said, i)
    BY <1>5 DEF SarvamSend
  <2>2. base' = [b EXCEPT !.last = b.last \/ senders[i].last]
    BY <1>5 DEF SarvamSend
  <2>3. x \in BOOLEAN /\ b.last = base.last  BY <1>0, <1>2 DEF Bases
  <2>4. base' = [b EXCEPT !.last = x]  BY <2>2, <2>3
  <2>5. Rendering(Texts(i, 0), senders[i].turn) /\ Rendering(Ends(i, 0), senders[i].turn)
    BY TextsRendering DEF TypeInv
  <2>6. Rendering(r, senders[i].turn)  BY <2>5, RenderingConcat
  <2>7. wire' = wire \o r
    BY <1>0, <2>1, <2>5, ConcatAssociative DEF Rendering
  <2> HIDE DEF r, x, n
  <2>8. Flags(base') /\ base'.sock <= link.n
    BY <1>0, <1>4, <2>3, <2>4 DEF Flags, Bases
  <2>9. wire' \in Seq(Messages) /\ WireFrom  BY <1>0, <2>6, <2>7, RenderedWire, FlyingHas
  <2>10. QED  BY <1>0, <1>1, <1>3, <2>1, <2>8, <2>9, SendShape
<1>6. CASE link.ws # "open"
  <2> DEFINE x == TRUE
             y == base.last \/ (senders[i].last /\ ~senders[i].text)
  <2>1. UNCHANGED <<wire, said>>  BY <1>6 DEF SarvamSend
  <2>2. base' = [b EXCEPT !.error = TRUE, !.last = b.last \/ (senders[i].last /\ ~senders[i].text)]
    BY <1>6 DEF SarvamSend
  <2>3. x \in BOOLEAN /\ y \in BOOLEAN /\ b.last = base.last  BY <1>0, <1>2 DEF Bases
  <2>4. base' = [b EXCEPT !.error = x, !.last = y]  BY <2>2, <2>3
  <2> HIDE DEF x, y, n
  <2>5. Flags(base') /\ base'.sock <= link.n
    BY <1>0, <1>4, <2>3, <2>4 DEF Flags, Bases
  <2>6. wire' \in Seq(Messages) /\ WireFrom  BY <1>0, <2>1, FlyingHas DEF WireFrom
  <2>7. QED  BY <1>0, <1>1, <1>3, <2>1, <2>5, <2>6, SendShape
<1>7. QED  BY <1>5, <1>6

LEMMA SmallestSendStep ==
    ASSUME TypeInv, NEW i \in DOMAIN senders, tts = "smallest", SmallestSend(i)
    PROVE  TypeInv' /\ Onward
<1> DEFINE r == IF senders[i].text THEN Texts(i, 0) \o <<End(senders[i].turn, 0)>> ELSE << >>
<1>0. own \in StreamOwns  BY StreamOwnType
<1>1. Sends(i, FALSE, r, own)  BY DEF SmallestSend
<1>2. Rendering(Texts(i, 0), senders[i].turn)  BY TextsRendering DEF TypeInv
<1>3. Rendering(<<End(senders[i].turn, 0)>>, senders[i].turn)
  BY SenderType, EndType, RenderingOne DEF TypeInv
<1>4. Rendering(r, senders[i].turn)  BY <1>2, <1>3, RenderingConcat, RenderingEmpty
<1> HIDE DEF r
<1>5. QED  BY <1>0, <1>1, <1>4, SendsStep

LEMMA RimeSendStep ==
    ASSUME TypeInv, NEW i \in DOMAIN senders, tts = "rime", RimeSend(i)
    PROVE  TypeInv' /\ Onward
<1> DEFINE o == IF senders[i].last THEN Minted(own) ELSE own
           again == senders[i].text
<1>0. own \in StreamOwns /\ own.ctx \in Nat  BY StreamOwnType
<1>1. Sends(i, again, Texts(i, own.ctx), o)  BY DEF RimeSend
<1>2. Rendering(Texts(i, own.ctx), senders[i].turn)  BY <1>0, TextsRendering DEF TypeInv
<1>3. o \in StreamOwns  BY <1>0, MintedType
<1> HIDE DEF o, again
<1>4. QED  BY <1>1, <1>2, <1>3, SendsStep

LEMMA MayaSendStep ==
    ASSUME TypeInv, NEW i \in DOMAIN senders, tts = "maya", MayaSend(i)
    PROVE  TypeInv' /\ Onward
<1> DEFINE x == own.drop /\ ~senders[i].text
           o == [own EXCEPT !.drop = x]
           r == Texts(i, 0) \o Ends(i, 0)
<1>0. own \in StreamOwns /\ own.ctx \in Nat  BY StreamOwnType
<1>1. Sends(i, TRUE, r, o)  BY DEF MayaSend
<1>2. Rendering(r, senders[i].turn)  BY TextsRendering, RenderingConcat DEF TypeInv
<1>3. x \in BOOLEAN  OBVIOUS
<1> HIDE DEF x, r
<1>4. o \in StreamOwns  BY <1>0, <1>3 DEF StreamOwns
<1> HIDE DEF o
<1>5. QED  BY <1>1, <1>2, <1>4, SendsStep

\* A part of the indices of a sequence.
LEMMA CountWithin ==
    ASSUME NEW S, NEW w \in Seq(S), NEW K \in SUBSET DOMAIN w
    PROVE  Cardinality(K) \in 0..Len(w)
<1>1. DOMAIN w = 1..Len(w) /\ Len(w) \in Nat  BY LenProperties
<1>2. IsFiniteSet(1..Len(w)) /\ Cardinality(1..Len(w)) = Len(w)
  <2>1. 1 \in Int /\ Len(w) \in Int  BY <1>1
  <2>2. /\ IsFiniteSet(1..Len(w))
        /\ Cardinality(1..Len(w)) = IF 1 > Len(w) THEN 0 ELSE Len(w) - 1 + 1
    BY <2>1, FS_Interval
  <2>3. QED  BY <1>1, <2>2
<1>3. IsFiniteSet(K) /\ Cardinality(K) <= Cardinality(1..Len(w))
  BY <1>1, <1>2, FS_Subset
<1>4. Cardinality(K) \in Nat  BY <1>3, FS_CardinalityType
<1>5. QED  BY <1>1, <1>2, <1>3, <1>4

LEMMA PrefixWire ==
    ASSUME TypeInv, NEW k \in 0..Len(wire)
    PROVE  /\ SubSeq(wire, 1, k) \in Seq(Messages)
           /\ \A j \in DOMAIN SubSeq(wire, 1, k) : SubSeq(wire, 1, k)[j].turn \in Flying
<1>1. wire \in Seq(Messages)  BY DEF TypeInv
<1>2. QED  BY <1>1, PrefixTurns, FlyingHas

Regroups(w, a, b, c) == ((w \o a) \o b) \o c = w \o ((a \o b) \o c)

LEMMA ConcatThree ==
    ASSUME NEW w \in Seq(Messages), NEW a \in Seq(Messages), NEW b \in Seq(Messages),
           NEW c \in Seq(Messages)
    PROVE  Regroups(w, a, b, c)
<1> DEFINE wa == w \o a
           ab == a \o b
           wab == w \o ab
<1>1. wa \in Seq(Messages) /\ ab \in Seq(Messages) /\ wab \in Seq(Messages)  OBVIOUS
<1>2. wa \o b = wab  BY ConcatAssociative
<1> HIDE DEF ab
<1>3. wab \o c = w \o (ab \o c)  BY <1>1, ConcatAssociative
<1>4. QED  BY <1>2, <1>3 DEF Regroups, ab

LEMMA SonioxSendStep ==
    ASSUME TypeInv, NEW i \in DOMAIN senders, tts = "soniox", SonioxSend(i)
    PROVE  TypeInv' /\ Onward
<1> DEFINE s == senders[i]
           o == IF own.flag THEN [own EXCEPT !.pend = {}]
                ELSE [Minted(own) EXCEPT !.seq = s.turn, !.pend = {}]
<1>0. /\ own \in StreamOwns /\ wire \in Seq(Messages) /\ base \in Bases /\ base.sock <= link.n
      /\ senders \in Seq(Senders)
  BY StreamOwnType DEF TypeInv
<1>1. senders' = Without(i) /\ UNCHANGED <<tts, pipe, link>>  BY DEF SonioxSend, AtSend
<1>2. senders[i].text \in BOOLEAN /\ senders[i].last \in BOOLEAN /\ s.turn \in 0..MaxTurn
  BY <1>0, SenderType
<1>3. o \in StreamOwns /\ o.ctx \in Nat
  <2>1. [own EXCEPT !.pend = {}] \in StreamOwns  BY <1>0 DEF StreamOwns
  <2>2. Minted(own) \in StreamOwns  BY <1>0, MintedType
  <2>3. [Minted(own) EXCEPT !.seq = s.turn, !.pend = {}] \in StreamOwns
    BY <1>2, <2>2 DEF StreamOwns
  <2>4. o \in StreamOwns  BY <2>1, <2>3
  <2>5. QED  BY <2>4 DEF StreamOwns
<1>4. SameContext  BY DEF SameContext
<1>5. CASE link.ws = "open"
  <2> DEFINE x == base.last \/ senders[i].last
             tr == TRUE
             note == IF senders[i].last THEN <<Note(o.ctx)>> ELSE << >>
             k == Cardinality({j \in DOMAIN wire : wire[j].ctx \notin own.pend})
             w == SubSeq(wire, 1, k)
             r == (Texts(i, o.ctx) \o Ends(i, o.ctx)) \o note
  <2>1. /\ own' = [o EXCEPT !.flag = tr] /\ said' = Given(said, i)
        /\ wire' = ((w \o Texts(i, o.ctx)) \o Ends(i, o.ctx)) \o note
        /\ base' = [base EXCEPT !.last = x]
    BY <1>5 DEF SonioxSend, Unabandoned
  <2>2. x \in BOOLEAN /\ tr \in BOOLEAN  BY <1>2
  <2>3. k \in 0..Len(wire)  BY <1>0, CountWithin
  <2> HIDE DEF x, tr, k
  <2>4. w \in Seq(Messages) /\ \A j \in DOMAIN w : w[j].turn \in Flying  BY <2>3, PrefixWire
  <2> HIDE DEF w, o
  <2>5. Rendering(Texts(i, o.ctx), senders[i].turn) /\ Rendering(Ends(i, o.ctx), senders[i].turn)
    BY <1>0, <1>3, TextsRendering
  <2>6. Rendering(note, senders[i].turn)  BY <1>3, NoteType, RenderingOne, RenderingEmpty
  <2>7. Rendering(Texts(i, o.ctx) \o Ends(i, o.ctx), senders[i].turn)  BY <2>5, RenderingConcat
  <2>8. Rendering(r, senders[i].turn)  BY <2>6, <2>7, RenderingConcat
  <2> HIDE DEF note
  <2>9. wire' = w \o r
    <3>1. /\ Texts(i, o.ctx) \in Seq(Messages) /\ Ends(i, o.ctx) \in Seq(Messages)
          /\ note \in Seq(Messages) /\ Texts(i, o.ctx) \o Ends(i, o.ctx) \in Seq(Messages)
      BY <2>5, <2>6, <2>7 DEF Rendering
    <3> DEFINE a == Texts(i, o.ctx)
               b == Ends(i, o.ctx)
    <3> HIDE DEF a, b
    <3>2. Regroups(w, a, b, note)
      <4>1. a \in Seq(Messages) /\ b \in Seq(Messages) /\ note \in Seq(Messages)  BY <3>1 DEF a, b
      <4>2. QED  BY <2>4, <4>1, ConcatThree
    <3>3. QED  BY <2>1, <3>2 DEF a, b, Regroups
  <2> HIDE DEF r
  <2>10. Flags(base') /\ base'.sock <= link.n  BY <1>0, <2>1, <2>2, LastFlags
  <2>11. wire' \in Seq(Messages) /\ WireFrom  BY <2>4, <2>8, <2>9, RenderedWire
  <2>12. own' \in StreamOwns  BY <1>3, <2>1, <2>2 DEF StreamOwns
  <2>13. QED  BY <1>0, <1>1, <1>4, <2>1, <2>10, <2>11, <2>12, SendShape
<1>6. CASE link.ws # "open"
  <2>1. own' = o /\ UNCHANGED <<base, wire, said>>  BY <1>6 DEF SonioxSend
  <2> HIDE DEF o
  <2>2. Flags(base') /\ base'.sock <= link.n  BY <1>0, <2>1 DEF Flags
  <2>3. wire' \in Seq(Messages) /\ WireFrom  BY <1>0, <2>1, FlyingHas DEF WireFrom
  <2>4. QED  BY <1>1, <1>3, <1>4, <2>1, <2>2, <2>3, SendShape
<1>7. QED  BY <1>5, <1>6

LEMMA V3SendStep ==
    ASSUME TypeInv, NEW i \in DOMAIN senders, tts = "elevenlabsV3", V3Send(i)
    PROVE  TypeInv' /\ Onward
<1> DEFINE s == senders[i]
           fed == own.fed /\ ~(s.text /\ ~own.flag)
           flag == own.flag \/ s.text
           o == [own EXCEPT !.fed = fed, !.flag = flag, !.seq = s.turn]
<1>0. /\ own \in StreamOwns /\ wire \in Seq(Messages) /\ base \in Bases /\ base.sock <= link.n
      /\ senders \in Seq(Senders)
  BY StreamOwnType DEF TypeInv
<1>1. senders' = Without(i) /\ UNCHANGED <<tts, pipe, link>> /\ own' = o
  BY DEF V3Send, AtSend
<1>2. senders[i].text \in BOOLEAN /\ senders[i].last \in BOOLEAN /\ s.turn \in 0..MaxTurn
  BY <1>0, SenderType
<1>3. fed \in BOOLEAN /\ flag \in BOOLEAN  BY <1>0, <1>2 DEF StreamOwns
<1>4. SameContext  BY DEF SameContext
<1>5. own' \in StreamOwns
  <2> HIDE DEF fed, flag
  <2>1. QED  BY <1>0, <1>1, <1>2, <1>3 DEF StreamOwns
<1>6. CASE link.ws = "open"
  <2> DEFINE x == base.last \/ senders[i].last
             r == Texts(i, 0) \o Ends(i, 0)
  <2>1. /\ wire' = (wire \o Texts(i, 0)) \o Ends(i, 0) /\ said' = Given(said, i)
        /\ base' = [base EXCEPT !.last = x]
    BY <1>6 DEF V3Send
  <2>2. x \in BOOLEAN  BY <1>2
  <2>3. Rendering(Texts(i, 0), senders[i].turn) /\ Rendering(Ends(i, 0), senders[i].turn)
    BY <1>0, TextsRendering
  <2>4. Rendering(r, senders[i].turn)  BY <2>3, RenderingConcat
  <2>5. wire' = wire \o r
    <3>1. Texts(i, 0) \in Seq(Messages) /\ Ends(i, 0) \in Seq(Messages)  BY <2>3 DEF Rendering
    <3>2. (wire \o Texts(i, 0)) \o Ends(i, 0) = wire \o (Texts(i, 0) \o Ends(i, 0))
      BY <1>0, <3>1, ConcatAssociative
    <3>3. QED  BY <2>1, <3>2
  <2> HIDE DEF r, x
  <2>6. Flags(base') /\ base'.sock <= link.n  BY <1>0, <2>1, <2>2, LastFlags
  <2>7. wire' \in Seq(Messages) /\ WireFrom  BY <1>0, <2>4, <2>5, RenderedWire, FlyingHas
  <2>8. QED  BY <1>1, <1>4, <1>5, <2>1, <2>6, <2>7, SendShape
<1>7. CASE link.ws # "open"
  <2> DEFINE x == base.error \/ ~own.drop
             y == base.last \/ (senders[i].last /\ ~senders[i].text)
  <2>1. UNCHANGED <<wire, said>> /\ base' = [base EXCEPT !.error = x, !.last = y]
    BY <1>7 DEF V3Send
  <2>2. x \in BOOLEAN /\ y \in BOOLEAN  BY <1>2
  <2> HIDE DEF x, y
  <2>3. Flags(base') /\ base'.sock <= link.n  BY <1>0, <2>1, <2>2, ErrorFlags
  <2>4. wire' \in Seq(Messages) /\ WireFrom  BY <1>0, <2>1, FlyingHas DEF WireFrom
  <2>5. QED  BY <1>1, <1>4, <1>5, <2>1, <2>3, <2>4, SendShape
<1>8. QED  BY <1>6, <1>7

---------------------------------------------------------------------------
\* The receiver.

LEMMA ReadWire ==
    ASSUME TypeInv, NEW more, wire # << >>, Read(more)
    PROVE  /\ wire' \in Seq(Messages) /\ WireFrom
           /\ Hd \in Messages /\ Hd.turn \in Flying /\ Hd.turn \in 0..MaxTurn /\ Hd.ctx \in Nat
           /\ 1 \in DOMAIN wire /\ Hd = wire[1]
<1>0. wire \in Seq(Messages) /\ DOMAIN wire = 1..Len(wire) /\ Len(wire) \in Nat
  BY LenProperties DEF TypeInv
<1>1. 1 \in DOMAIN wire /\ Hd = wire[1]  BY <1>0 DEF Hd
<1>2. Hd \in Messages  BY <1>0, <1>1, ElementOfSeq
<1>3. Hd.turn \in Flying  BY <1>1, FlyingHas
<1>4. wire' \in Seq(Messages) /\ WireFrom
  <2>1. CASE wire' = wire  BY <1>0, <2>1, FlyingHas DEF WireFrom
  <2>2. CASE wire' = Tail(wire)
    <3>1. /\ Tail(wire) \in Seq(Messages) /\ Len(Tail(wire)) = Len(wire) - 1
          /\ \A j \in 1..Len(Tail(wire)) : Tail(wire)[j] = wire[j + 1]
      BY <1>0, HeadTailProperties
    <3>2. DOMAIN Tail(wire) = 1..(Len(wire) - 1)  BY <3>1, LenProperties
    <3>3. \A j \in 1..(Len(wire) - 1) : j + 1 \in DOMAIN wire  BY <1>0
    <3>4. \A j \in DOMAIN Tail(wire) : Tail(wire)[j].turn \in Flying
      BY <3>1, <3>2, <3>3, FlyingHas
    <3>5. QED  BY <2>2, <3>1, <3>4 DEF WireFrom
  <2>3. QED  BY <2>1, <2>2 DEF Read
<1>5. Hd.turn \in 0..MaxTurn /\ Hd.ctx \in Nat  BY <1>2 DEF Messages
<1>6. QED  BY <1>1, <1>2, <1>3, <1>4, <1>5

LEMMA PairConcat ==
    ASSUME NEW a \in Messages, NEW b \in Messages
    PROVE  <<a>> \o <<b>> = <<a, b>>
<1>1. <<a>> \in Seq(Messages) /\ <<b>> \in Seq(Messages) /\ <<a, b>> \in Seq(Messages)
  OBVIOUS
<1>2. Len(<<a>>) = 1 /\ Len(<<b>>) = 1 /\ Len(<<a, b>>) = 2  OBVIOUS
<1>3. /\ <<a>> \o <<b>> \in Seq(Messages) /\ Len(<<a>> \o <<b>>) = 1 + 1
      /\ \A i \in 1..(1 + 1) : (<<a>> \o <<b>>)[i] = IF i <= 1 THEN <<a>>[i] ELSE <<b>>[i - 1]
  BY <1>1, <1>2, ConcatProperties
<1>4. (<<a>> \o <<b>>)[1] = a /\ (<<a>> \o <<b>>)[2] = b  BY <1>3
<1>5. <<a, b>>[1] = a /\ <<a, b>>[2] = b  OBVIOUS
<1>6. \A i \in 1..2 : i = 1 \/ i = 2  OBVIOUS
<1>7. \A i \in 1..2 : (<<a>> \o <<b>>)[i] = <<a, b>>[i]  BY <1>4, <1>5, <1>6
<1> DEFINE s == <<a>> \o <<b>>
           t == <<a, b>>
<1>8. /\ s \in Seq(Messages) /\ t \in Seq(Messages) /\ Len(s) = Len(t)
      /\ \A i \in 1..Len(s) : s[i] = t[i]
  BY <1>1, <1>2, <1>3, <1>7
<1> HIDE DEF s, t
<1>9. s = t  BY <1>8, SeqEqual
<1>10. QED  BY <1>9 DEF s, t

LEMMA FrameTypes ==
    /\ << >> \in Frames
    /\ \A a \in Messages : <<a>> \in Frames
    /\ \A a, b \in Messages : b.kind # "audio" => <<a, b>> \in Frames
BY DEF Frames

\* A step of the receiver that makes frames.
LEMMA ReceiveShape ==
    ASSUME TypeInv, tts # "kalpa", NEW STATE frames, frames \in Frames, Yield(frames),
           \A k \in DOMAIN frames : frames[k].kind = "audio" => frames[k].turn \in Flying,
           own' \in StreamOwns, SameContext,
           wire' \in Seq(Messages), WireFrom, link' \in Sockets, link'.n = link.n,
           UNCHANGED <<tts, senders>>
    PROVE  TypeInv' /\ Onward
<1>1. /\ pipe' \in Calling /\ base' \in Bases /\ said' \in Verdicts
      /\ base'.sock \in {0, base.sock} /\ SameCall /\ SameLabels /\ NoNewWrong
  BY YieldShape
<1>2. base.sock <= link.n /\ 0 <= link.n  BY DEF TypeInv, Sockets
<1>3. base'.sock <= link'.n  BY <1>1, <1>2
<1>4. own' \in Owns'  BY DEF Owns
<1>5. TypeInv'  BY <1>1, <1>3, <1>4 DEF TypeInv
<1>6. Flying' \subseteq Flying \cup {0}  BY SameSenders, FlyingFewer
<1>7. QED  BY <1>1, <1>5, <1>6 DEF Onward

LEMMA PlainReceiveStep ==
    ASSUME TypeInv, NEW more, tts \in {"deepgram", "sarvam", "smallest"}, PlainReceive(tts, more)
    PROVE  TypeInv' /\ Onward
<1>1. wire # << >> /\ Read(more) /\ UNCHANGED <<tts, link, senders, own>> /\ Yield(<<Hd>>)
  BY DEF PlainReceive, Reads, Reading
<1>2. /\ wire' \in Seq(Messages) /\ WireFrom /\ Hd \in Messages /\ Hd.turn \in Flying
  BY <1>1, ReadWire
<1>3. <<Hd>> \in Frames  BY <1>2, FrameTypes
<1>4. own' \in StreamOwns /\ SameContext  BY <1>1, StreamOwnType DEF SameContext
<1>5. link' \in Sockets /\ link'.n = link.n  BY <1>1 DEF TypeInv
<1>6. \A k \in DOMAIN <<Hd>> : <<Hd>>[k].kind = "audio" => <<Hd>>[k].turn \in Flying  BY <1>2
<1>7. QED  BY <1>1, <1>2, <1>3, <1>4, <1>5, <1>6, ReceiveShape

LEMMA ElevenReceiveStep ==
    ASSUME TypeInv, NEW more, ElevenReceive(more)
    PROVE  TypeInv' /\ Onward
<1>1. tts = "elevenlabs" /\ wire # << >> /\ Read(more) /\ UNCHANGED <<tts, link, senders>>
  BY DEF ElevenReceive, Reads, Reading
<1>2. /\ wire' \in Seq(Messages) /\ WireFrom /\ Hd \in Messages /\ Hd.turn \in Flying
      /\ Hd.turn \in 0..MaxTurn /\ Hd.ctx \in Nat
  BY <1>1, ReadWire
<1>3. own \in StreamOwns  BY <1>1, StreamOwnType
<1>4. link' \in Sockets /\ link'.n = link.n  BY <1>1 DEF TypeInv
<1> DEFINE e == End(Hd.turn, Hd.ctx)
<1>5. e \in Messages /\ e.kind # "audio"  BY <1>2, EndType
<1>6. PICK ends :
         IF Hd.ctx \in own.ignore THEN Yield(<< >>) /\ UNCHANGED own
         ELSE /\ Yield((IF IsAudio THEN <<Hd>> ELSE << >>) \o (IF ends THEN <<e>> ELSE << >>))
              /\ own' = [own EXCEPT !.eos = IF ends THEN Hd.ctx ELSE @]
  BY DEF ElevenReceive
<1> HIDE DEF e
<1>7. CASE Hd.ctx \in own.ignore
  <2>1. Yield(<< >>) /\ own' = own  BY <1>6, <1>7
  <2>2. << >> \in Frames  BY FrameTypes
  <2>3. SameContext  BY <2>1 DEF SameContext
  <2>4. DOMAIN << >> = {}  OBVIOUS
  <2>5. QED  BY <1>1, <1>2, <1>3, <1>4, <2>1, <2>2, <2>3, <2>4, ReceiveShape
<1>8. CASE Hd.ctx \notin own.ignore
  <2> DEFINE frames == (IF IsAudio THEN <<Hd>> ELSE << >>) \o (IF ends THEN <<e>> ELSE << >>)
             n == IF ends THEN Hd.ctx ELSE own.eos
  <2>1. Yield(frames) /\ own' = [own EXCEPT !.eos = n]  BY <1>6, <1>8
  <2>2. n \in Nat  BY <1>2, <1>3 DEF StreamOwns
  <2>3. frames \in {<< >>, <<Hd>>, <<e>>, <<Hd, e>>}
    <3>1. CASE IsAudio /\ ends
      <4>1. frames = <<Hd>> \o <<e>>  BY <3>1
      <4>2. <<Hd>> \o <<e>> = <<Hd, e>>  BY <1>2, <1>5, PairConcat
      <4>3. QED  BY <4>1, <4>2
    <3>2. CASE IsAudio /\ ~ends
      <4>1. frames = <<Hd>> \o << >>  BY <3>2
      <4>2. <<Hd>> \o << >> = <<Hd>>  OBVIOUS
      <4>3. QED  BY <4>1, <4>2
    <3>3. CASE ~IsAudio /\ ends
      <4>1. frames = << >> \o <<e>>  BY <3>3
      <4>2. << >> \o <<e>> = <<e>>  OBVIOUS
      <4>3. QED  BY <4>1, <4>2
    <3>4. CASE ~IsAudio /\ ~ends
      <4>1. frames = << >> \o << >>  BY <3>4
      <4>2. << >> \o << >> = << >>  OBVIOUS
      <4>3. QED  BY <4>1, <4>2
    <3>5. QED  BY <3>1, <3>2, <3>3, <3>4
  <2> HIDE DEF frames, n
  <2>4. frames \in Frames  BY <1>2, <1>5, <2>3, FrameTypes
  <2>5. \A k \in DOMAIN frames : frames[k].kind = "audio" => frames[k].turn \in Flying
    <3>1. CASE frames = << >>  BY <3>1
    <3>2. CASE frames = <<Hd>>  BY <1>2, <3>2
    <3>3. CASE frames = <<e>>  BY <1>5, <3>3
    <3>4. CASE frames = <<Hd, e>>
      <4>1. \A k \in DOMAIN frames : frames[k] = Hd \/ frames[k] = e  BY <3>4
      <4>2. QED  BY <1>2, <1>5, <4>1
    <3>5. QED  BY <2>3, <3>1, <3>2, <3>3, <3>4
  <2>6. own' \in StreamOwns  BY <1>3, <2>1, <2>2 DEF StreamOwns
  <2>7. own'.mine = own.mine /\ own'.kept = own.kept /\ own'.ctx = own.ctx
    BY <1>3, <2>1 DEF StreamOwns
  <2>8. SameContext  BY <2>7 DEF SameContext
  <2>9. QED  BY <1>1, <1>2, <1>4, <2>1, <2>4, <2>5, <2>6, <2>8, ReceiveShape
<1>9. QED  BY <1>7, <1>8

\* Of a message at most itself is a frame, or itself and an end.
LEMMA HeadFrames ==
    ASSUME NEW h \in Messages, h.turn \in Flying, NEW frames,
           frames \in {<< >>, <<h>>, <<h, End(h.turn, h.ctx)>>}
    PROVE  /\ frames \in Frames
           /\ \A k \in DOMAIN frames : frames[k].kind = "audio" => frames[k].turn \in Flying
<1> DEFINE e == End(h.turn, h.ctx)
<1>1. h.turn \in 0..MaxTurn /\ h.ctx \in Nat  BY DEF Messages
<1>2. e \in Messages /\ e.kind # "audio"  BY <1>1, EndType
<1> HIDE DEF e
<1>3. frames \in Frames  BY <1>2, FrameTypes DEF e
<1>4. CASE frames = << >>  BY <1>3, <1>4
<1>5. CASE frames = <<h>>  BY <1>3, <1>5
<1>6. CASE frames = <<h, e>>
  <2>1. \A k \in DOMAIN frames : frames[k] = h \/ frames[k] = e  BY <1>6
  <2>2. QED  BY <1>2, <1>3, <2>1
<1>7. QED  BY <1>4, <1>5, <1>6 DEF e

\* The own part may change, the socket does not.
LEMMA HeadStep ==
    ASSUME TypeInv, NEW more, tts \notin {"kalpa", "elevenlabs"}, wire # << >>, Read(more),
           UNCHANGED <<tts, link, senders>>, own' \in StreamOwns, NEW STATE frames,
           frames \in {<< >>, <<Hd>>, <<Hd, End(Hd.turn, Hd.ctx)>>}, Yield(frames)
    PROVE  TypeInv' /\ Onward
<1>1. /\ wire' \in Seq(Messages) /\ WireFrom /\ Hd \in Messages /\ Hd.turn \in Flying
  BY ReadWire
<1>2. /\ frames \in Frames
      /\ \A k \in DOMAIN frames : frames[k].kind = "audio" => frames[k].turn \in Flying
  BY <1>1, HeadFrames
<1>3. SameContext  BY DEF SameContext
<1>4. link' \in Sockets /\ link'.n = link.n  BY DEF TypeInv
<1>5. QED  BY <1>1, <1>2, <1>3, <1>4, ReceiveShape

LEMMA CartesiaReceiveStep ==
    ASSUME TypeInv, NEW more, CartesiaReceive(more)
    PROVE  TypeInv' /\ Onward
<1> DEFINE frames == IF Hd.ctx \in own.ignore THEN << >> ELSE <<Hd>>
<1>1. /\ tts = "cartesia" /\ wire # << >> /\ Read(more) /\ UNCHANGED <<tts, link, senders, own>>
      /\ Yield(frames)
  BY DEF CartesiaReceive, Reads, Reading
<1>2. frames \in {<< >>, <<Hd>>, <<Hd, End(Hd.turn, Hd.ctx)>>}  OBVIOUS
<1>3. own' \in StreamOwns  BY <1>1, StreamOwnType
<1> HIDE DEF frames
<1>4. QED  BY <1>1, <1>2, <1>3, HeadStep

LEMMA RimeReceiveStep ==
    ASSUME TypeInv, NEW more, RimeReceive(more)
    PROVE  TypeInv' /\ Onward
<1> DEFINE frames == IF Hd.ctx # own.ctx THEN <<Hd, End(Hd.turn, Hd.ctx)>> ELSE <<Hd>>
<1>1. /\ tts = "rime" /\ wire # << >> /\ Read(more) /\ UNCHANGED <<tts, link, senders, own>>
      /\ Yield(frames)
  BY DEF RimeReceive, Reads, Reading
<1>2. frames \in {<< >>, <<Hd>>, <<Hd, End(Hd.turn, Hd.ctx)>>}  OBVIOUS
<1>3. own' \in StreamOwns  BY <1>1, StreamOwnType
<1> HIDE DEF frames
<1>4. QED  BY <1>1, <1>2, <1>3, HeadStep

LEMMA MayaReceiveStep ==
    ASSUME TypeInv, NEW more, MayaReceive(more)
    PROVE  TypeInv' /\ Onward
<1> DEFINE frames == IF IsEnd \/ (IsAudio /\ ~own.drop) THEN <<Hd>> ELSE << >>
           x == own.drop /\ IsAudio
<1>1. /\ tts = "maya" /\ wire # << >> /\ Read(more) /\ UNCHANGED <<tts, link, senders>>
      /\ Yield(frames) /\ own' = [own EXCEPT !.drop = x]
  BY DEF MayaReceive, Reads, Reading
<1>2. frames \in {<< >>, <<Hd>>, <<Hd, End(Hd.turn, Hd.ctx)>>}  OBVIOUS
<1>3. x \in BOOLEAN  OBVIOUS
<1> HIDE DEF frames, x
<1>4. own' \in StreamOwns  BY <1>1, <1>3, StreamOwnType DEF StreamOwns
<1>5. QED  BY <1>1, <1>2, <1>4, HeadStep

LEMMA PixaReceiveStep ==
    ASSUME TypeInv, NEW more, PixaReceive(more)
    PROVE  TypeInv' /\ Onward
<1> DEFINE frames == IF IsAudio \/ Hd.ctx \notin own.ignore THEN <<Hd>> ELSE << >>
<1>1. /\ tts = "pixa" /\ wire # << >> /\ Read(more) /\ UNCHANGED <<tts, link, senders, own>>
      /\ Yield(frames)
  BY DEF PixaReceive, Reads, Reading
<1>2. frames \in {<< >>, <<Hd>>, <<Hd, End(Hd.turn, Hd.ctx)>>}  OBVIOUS
<1>3. own' \in StreamOwns  BY <1>1, StreamOwnType
<1> HIDE DEF frames
<1>4. QED  BY <1>1, <1>2, <1>3, HeadStep

LEMMA SonioxReceiveStep ==
    ASSUME TypeInv, NEW more, SonioxReceive(more)
    PROVE  TypeInv' /\ Onward
<1> DEFINE closes == Hd.kind = "note"
           frames == IF Hd.ctx \in own.ignore \/ closes THEN << >> ELSE <<Hd>>
           x == own.flag /\ Hd.ctx # own.ctx
           c == IF Hd.ctx = own.ctx THEN 0 ELSE own.ctx
           S == own.ignore \ {Hd.ctx}
<1>1. /\ tts = "soniox" /\ wire # << >> /\ Read(more) /\ UNCHANGED <<tts, link, senders>>
      /\ Yield(frames)
      /\ own' = IF ~closes THEN own ELSE [own EXCEPT !.ignore = S, !.flag = x, !.ctx = c]
  BY DEF SonioxReceive, Reads, Reading
<1>2. frames \in {<< >>, <<Hd>>, <<Hd, End(Hd.turn, Hd.ctx)>>}  OBVIOUS
<1>3. own \in StreamOwns /\ own.ctx \in Nat  BY <1>1, StreamOwnType
<1>4. x \in BOOLEAN  OBVIOUS
<1>5. c \in Nat /\ S \in SUBSET Nat  BY <1>3 DEF StreamOwns
<1> HIDE DEF frames, closes, x, c, S
<1>6. [own EXCEPT !.ignore = S, !.flag = x, !.ctx = c] \in StreamOwns
  BY <1>3, <1>4, <1>5 DEF StreamOwns
<1>7. own' \in StreamOwns  BY <1>1, <1>3, <1>6
<1>8. QED  BY <1>1, <1>2, <1>7, HeadStep

LEMMA V3ReceiveStep ==
    ASSUME TypeInv, NEW more, V3Receive(more)
    PROVE  TypeInv' /\ Onward
<1> DEFINE x == own.fed \/ IsEnd
           y == own.flag /\ ~(IsEnd /\ base.open)
<1>1. /\ tts = "elevenlabsV3" /\ wire # << >> /\ Read(more) /\ UNCHANGED <<tts, link, senders>>
      /\ Yield(<<Hd>>) /\ own' = [own EXCEPT !.fed = x, !.flag = y]
  BY DEF V3Receive, Reads, Reading
<1>2. <<Hd>> \in {<< >>, <<Hd>>, <<Hd, End(Hd.turn, Hd.ctx)>>}  OBVIOUS
<1>3. x \in BOOLEAN /\ y \in BOOLEAN  OBVIOUS
<1> HIDE DEF x, y
<1>4. own' \in StreamOwns  BY <1>1, <1>3, StreamOwnType DEF StreamOwns
<1>5. QED  BY <1>1, <1>2, <1>4, HeadStep

---------------------------------------------------------------------------
\* The end of a socket, its loss and the next one.

LEMMA OverCall ==
    ASSUME pipe \in Calling, NEW over \in BOOLEAN, NEW left \in {0, pipe.left},
           pipe' = [pipe EXCEPT !.over = over, !.left = left]
    PROVE  pipe' \in Calling /\ SameCall
<1>1. left \in {0, 1, 2}  BY DEF Calling
<1>2. pipe' \in Calling  BY <1>1 DEF Calling
<1>3. SameCall  BY DEF Calling, SameCall
<1>4. QED  BY <1>2, <1>3

\* Only the call, the socket and what is the provider's own change.
LEMMA EndShape ==
    ASSUME TypeInv, pipe' \in Calling, SameCall, link' \in Sockets, link'.n = link.n,
           own' \in Owns, tts = "kalpa" => KalpaTurns(own') \subseteq Flying, SameContext,
           UNCHANGED <<tts, base, senders, said>>,
           wire' \in Seq(Messages), WireFrom
    PROVE  TypeInv' /\ Onward
<1>1. TypeInv'  BY DEF TypeInv, Owns
<1>2. Flying' \subseteq Flying \cup {0}  BY SameSenders, FlyingFewer
<1>3. SameLabels /\ NoNewWrong  BY StillLabels, StillSaid
<1>4. QED  BY <1>1, <1>2, <1>3 DEF Onward

LEMMA SameOwn ==
    ASSUME TypeInv, own' = own
    PROVE  /\ own' \in Owns /\ (tts = "kalpa" => KalpaTurns(own') \subseteq Flying) /\ SameContext
BY FlyingHas DEF TypeInv, SameContext

LEMMA SameWire ==
    ASSUME TypeInv, wire' = wire
    PROVE  wire' \in Seq(Messages) /\ WireFrom
BY FlyingHas DEF TypeInv, WireFrom

LEMMA NoSocketType ==
    ASSUME link \in Sockets, NEW s \in {"none", "open", "closing", "closed", "dying"},
           NEW k \in Nat
    PROVE  /\ [link EXCEPT !.ws = s] \in Sockets /\ [link EXCEPT !.ws = s].n = link.n
           /\ [link EXCEPT !.ws = s, !.lost = k] \in Sockets
           /\ [link EXCEPT !.ws = s, !.lost = k].n = link.n
BY DEF Sockets

LEMMA GenerateEndsStep ==
    ASSUME TypeInv, GenerateEnds
    PROVE  TypeInv' /\ Onward
<1> DEFINE over == base.error
           left == IF base.error THEN 0 ELSE pipe.left
<1>1. /\ link' = [link EXCEPT !.ws = "none"] /\ UNCHANGED <<tts, base, senders, own, wire, said>>
      /\ pipe' = [pipe EXCEPT !.over = over, !.left = left]
  BY DEF GenerateEnds, NoMoreSocket
<1>2. over \in BOOLEAN /\ left \in {0, pipe.left}  BY DEF TypeInv, Bases
<1> HIDE DEF over, left
<1>3. pipe' \in Calling /\ SameCall  BY <1>1, <1>2, OverCall DEF TypeInv
<1>4. link' \in Sockets /\ link'.n = link.n  BY <1>1, NoSocketType DEF TypeInv
<1>5. QED  BY <1>1, <1>3, <1>4, EndShape, SameOwn, SameWire

LEMMA GivesUpStep ==
    ASSUME TypeInv, GivesUp
    PROVE  TypeInv' /\ Onward
<1> DEFINE over == TRUE
<1>1. /\ UNCHANGED <<tts, base, link, senders, own, wire, said>>
      /\ pipe' = [pipe EXCEPT !.over = over, !.left = 0]
  BY DEF GivesUp
<1>2. over \in BOOLEAN /\ 0 \in {0, pipe.left}  OBVIOUS
<1> HIDE DEF over
<1>3. pipe' \in Calling /\ SameCall  BY <1>1, <1>2, OverCall DEF TypeInv
<1>4. link' \in Sockets /\ link'.n = link.n  BY <1>1 DEF TypeInv
<1>5. QED  BY <1>1, <1>3, <1>4, EndShape, SameOwn, SameWire

LEMMA LoseStep ==
    ASSUME TypeInv, Lose
    PROVE  TypeInv' /\ Onward
<1>1. UNCHANGED <<tts, pipe, base, senders, own, said>>  BY DEF Lose
<1>2. link' \in Sockets /\ link'.n = link.n
  <2>1. link.lost \in Nat /\ link.lost + 1 \in Nat /\ 1 \in Nat  BY DEF TypeInv, Sockets
  <2>2. PICK s \in {"closing", "closed"}, k \in {link.lost, link.lost + 1, 1} :
           link' = [link EXCEPT !.ws = s, !.lost = k]
    BY DEF Lose
  <2>3. k \in Nat  BY <2>1
  <2>4. QED  BY <2>2, <2>3, NoSocketType DEF TypeInv
<1>3. PICK k \in 0..Len(wire) : wire' = SubSeq(wire, 1, k)
  <2>1. CASE wire' \in Prefixes(wire)  BY <2>1 DEF Prefixes
  <2>2. CASE wire' = << >>
    <3>1. SubSeq(wire, 1, 0) = << >>  BY SubSeqEmpty
    <3>2. Len(wire) \in Nat  BY LenProperties DEF TypeInv
    <3>3. 0 \in 0..Len(wire)  BY <3>2
    <3>4. QED  BY <2>2, <3>1, <3>3
  <2>3. QED  BY <2>1, <2>2 DEF Lose
<1>4. wire' \in Seq(Messages) /\ WireFrom  BY <1>3, PrefixWire DEF WireFrom
<1>5. pipe' \in Calling /\ SameCall  BY <1>1, StillCall DEF TypeInv
<1>6. QED  BY <1>1, <1>2, <1>4, <1>5, EndShape, SameOwn

LEMMA SonioxMeetsEndStep ==
    ASSUME TypeInv, SonioxMeetsEnd
    PROVE  TypeInv' /\ Onward
<1> DEFINE x == own.flag /\ link.ws # "closing"
<1>1. /\ tts = "soniox" /\ link' = [link EXCEPT !.ws = "none"]
      /\ UNCHANGED <<tts, pipe, base, senders, wire, said>> /\ own' = [own EXCEPT !.flag = x]
  BY DEF SonioxMeetsEnd, NoMoreSocket
<1>2. x \in BOOLEAN  OBVIOUS
<1> HIDE DEF x
<1>3. own' \in Owns  BY <1>1, <1>2, StreamOwnType DEF StreamOwns, Owns
<1>4. SameContext  BY <1>1 DEF SameContext
<1>5. link' \in Sockets /\ link'.n = link.n  BY <1>1, NoSocketType DEF TypeInv
<1>6. pipe' \in Calling /\ SameCall  BY <1>1, StillCall DEF TypeInv
<1>7. QED  BY <1>1, <1>3, <1>4, <1>5, <1>6, EndShape, SameWire

\* The call ends with an error, or at most one end is made.
LEMMA MeetsEndStep ==
    ASSUME TypeInv, tts # "kalpa", link' = [link EXCEPT !.ws = "none"],
           UNCHANGED <<tts, senders, wire>>, own' \in StreamOwns, SameContext,
           NEW t \in 0..MaxTurn, NEW STATE frames, frames \in {<< >>, <<End(t, 0)>>},
           \/ pipe' = [pipe EXCEPT !.over = TRUE, !.left = 0] /\ UNCHANGED <<base, said>>
           \/ Yield(frames)
    PROVE  TypeInv' /\ Onward
<1>1. link' \in Sockets /\ link'.n = link.n  BY NoSocketType DEF TypeInv
<1>2. wire' \in Seq(Messages) /\ WireFrom  BY SameWire
<1>3. CASE Yield(frames)
  <2> DEFINE e == End(t, 0)
  <2>1. e \in Messages /\ e.kind # "audio"  BY EndType
  <2>2. frames \in {<< >>, <<e>>}  OBVIOUS
  <2> HIDE DEF e
  <2>3. frames \in Frames  BY <2>1, <2>2, FrameTypes
  <2>4. \A k \in DOMAIN frames : frames[k].kind = "audio" => frames[k].turn \in Flying
    <3>1. CASE frames = << >>  BY <3>1
    <3>2. CASE frames = <<e>>  BY <2>1, <3>2
    <3>3. QED  BY <2>2, <3>1, <3>2
  <2>5. QED  BY <1>1, <1>2, <1>3, <2>3, <2>4, ReceiveShape
<1>4. CASE pipe' = [pipe EXCEPT !.over = TRUE, !.left = 0] /\ UNCHANGED <<base, said>>
  <2> DEFINE over == TRUE
  <2>1. over \in BOOLEAN /\ 0 \in {0, pipe.left} /\ pipe' = [pipe EXCEPT !.over = over, !.left = 0]
    BY <1>4
  <2> HIDE DEF over
  <2>2. pipe' \in Calling /\ SameCall  BY <2>1, OverCall DEF TypeInv
  <2>3. own' \in Owns  BY DEF Owns
  <2>4. QED  BY <1>1, <1>2, <1>4, <2>2, <2>3, EndShape
<1>5. QED  BY <1>3, <1>4

LEMMA SarvamMeetsEndStep ==
    ASSUME TypeInv, SarvamMeetsEnd
    PROVE  TypeInv' /\ Onward
<1> DEFINE frames == IF Unsettled THEN <<End(Label(base), 0)>> ELSE << >>
<1>1. /\ tts = "sarvam" /\ link' = [link EXCEPT !.ws = "none"]
      /\ UNCHANGED <<tts, senders, own, wire>>
      /\ \/ pipe' = [pipe EXCEPT !.over = TRUE, !.left = 0] /\ UNCHANGED <<base, said>>
         \/ Yield(frames)
  BY DEF SarvamMeetsEnd, NoMoreSocket
<1>2. Label(base) \in 0..MaxTurn  BY LabelledType DEF TypeInv
<1>3. frames \in {<< >>, <<End(Label(base), 0)>>}  OBVIOUS
<1> HIDE DEF frames
<1>4. own' \in StreamOwns /\ SameContext  BY <1>1, StreamOwnType DEF SameContext
<1>5. QED  BY <1>1, <1>2, <1>3, <1>4, MeetsEndStep

LEMMA V3MeetsEndStep ==
    ASSUME TypeInv, V3MeetsEnd
    PROVE  TypeInv' /\ Onward
<1> DEFINE ends == link.ws = "closing" /\ ~own.drop /\ base.last /\ ~own.fed
           frames == IF ends THEN <<End(own.seq, 0)>> ELSE << >>
           x == own.fed \/ ends
<1>1. /\ tts = "elevenlabsV3" /\ link' = [link EXCEPT !.ws = "none"]
      /\ UNCHANGED <<tts, senders, wire>>
      /\ own' \in {own, [own EXCEPT !.fed = x]}
      /\ \/ pipe' = [pipe EXCEPT !.over = TRUE, !.left = 0] /\ UNCHANGED <<base, said>>
         \/ Yield(frames)
  BY DEF V3MeetsEnd, NoMoreSocket
<1>2. own \in StreamOwns /\ own.seq \in 0..MaxTurn  BY <1>1, StreamOwnType DEF StreamOwns
<1>3. frames \in {<< >>, <<End(own.seq, 0)>>}  OBVIOUS
<1>4. x \in BOOLEAN  OBVIOUS
<1> HIDE DEF frames, ends, x
<1>5. [own EXCEPT !.fed = x] \in StreamOwns  BY <1>2, <1>4 DEF StreamOwns
<1>6. own' \in StreamOwns  BY <1>1, <1>2, <1>5
<1>7. SameContext  BY <1>1 DEF SameContext
<1>8. QED  BY <1>1, <1>2, <1>3, <1>6, <1>7, MeetsEndStep

\* A dial, for whatever it makes of the provider's own state.
LEMMA DialStep ==
    ASSUME TypeInv, NEW STATE fresh, NEW clears \in BOOLEAN, NEW rejects \in BOOLEAN,
           Dial(fresh, clears, rejects), fresh \in Owns,
           tts = "kalpa" => KalpaTurns(fresh) \subseteq Flying,
           tts = "elevenlabs" => fresh = own
    PROVE  TypeInv' /\ Onward
<1>0. link \in Sockets /\ base \in Bases /\ own \in Owns /\ base.sock <= link.n /\ base.sock \in Nat
      /\ link.n \in Nat /\ MaxFails \in Nat /\ link.tries < MaxFails /\ link.tries \in 0..MaxFails
  BY SynthesizerAssumption DEF TypeInv, Dial, Sockets, Bases
<1>1. UNCHANGED <<tts, pipe, senders, said>>  BY DEF Dial
<1>2. /\ own' \in {own, fresh} /\ (wire' = << >> \/ wire' = wire)
      /\ \E e \in BOOLEAN : base' = [base EXCEPT !.error = e]
      /\ \/ link' = [link EXCEPT !.ws = "open", !.n = @ + 1, !.tries = 0,
                                 !.forgot = @ \/ (clears /\ base.error),
                                 !.unmet = @ \/ (link.ws = "closed" /\ tts \in LossSettlers)]
         \/ link' = [link EXCEPT !.tries = @ + 1]
  <2>1. CASE /\ link' = [link EXCEPT !.ws = "open", !.n = @ + 1, !.tries = 0,
                                  !.forgot = @ \/ (clears /\ base.error),
                                  !.unmet = @ \/ (link.ws = "closed" /\ tts \in LossSettlers)]
             /\ own' = fresh
             /\ base' = [base EXCEPT !.error = @ /\ ~clears]
             /\ wire' = << >>
    <3> DEFINE e == base.error /\ ~clears
    <3>1. e \in BOOLEAN /\ base' = [base EXCEPT !.error = e]  BY <2>1
    <3> HIDE DEF e
    <3>2. QED  BY <2>1, <3>1
  <2>2. CASE /\ link' = [link EXCEPT !.tries = @ + 1]
             /\ \E rejected \in {FALSE, rejects} :
                   base' = [base EXCEPT !.error = @ \/ rejected \/ link.tries = MaxFails - 1]
             /\ UNCHANGED <<own, wire>>
    <3>0. PICK rejected \in {FALSE, rejects} :
             base' = [base EXCEPT !.error = @ \/ rejected \/ link.tries = MaxFails - 1]
      BY <2>2
    <3> DEFINE e == base.error \/ rejected \/ link.tries = MaxFails - 1
    <3>1. e \in BOOLEAN /\ base' = [base EXCEPT !.error = e]  BY <3>0
    <3> HIDE DEF e
    <3>2. QED  BY <2>2, <3>1
  <2>3. QED  BY <2>1, <2>2 DEF Dial
<1>3. link' \in Sockets /\ link'.n >= link.n
  <2> DEFINE f == link.forgot \/ (clears /\ base.error)
             u == link.unmet \/ (link.ws = "closed" /\ tts \in LossSettlers)
  <2>1. f \in BOOLEAN /\ u \in BOOLEAN  BY <1>0 DEF Sockets
  <2>2. \/ link' = [link EXCEPT !.ws = "open", !.n = link.n + 1, !.tries = 0, !.forgot = f, !.unmet = u]
        \/ link' = [link EXCEPT !.tries = link.tries + 1]
    BY <1>2
  <2>3. link.n + 1 \in Nat /\ link.tries + 1 \in 0..MaxFails /\ 0 \in 0..MaxFails  BY <1>0
  <2> HIDE DEF f, u
  <2>4. CASE link' = [link EXCEPT !.ws = "open", !.n = link.n + 1, !.tries = 0, !.forgot = f, !.unmet = u]
    <3>1. link' \in Sockets  BY <1>0, <2>1, <2>3, <2>4 DEF Sockets
    <3>2. link'.n = link.n + 1  BY <1>0, <2>4 DEF Sockets
    <3>3. QED  BY <1>0, <3>1, <3>2
  <2>5. CASE link' = [link EXCEPT !.tries = link.tries + 1]
    <3>1. link' \in Sockets  BY <1>0, <2>3, <2>5 DEF Sockets
    <3>2. link'.n = link.n  BY <1>0, <2>5 DEF Sockets
    <3>3. QED  BY <1>0, <3>1, <3>2
  <2>6. QED  BY <2>2, <2>4, <2>5
<1>4. base' \in Bases /\ base'.sock = base.sock /\ SameLabels
  <2>1. PICK e \in BOOLEAN : base' = [base EXCEPT !.error = e]  BY <1>2
  <2>2. Flags(base') /\ base'.sock = base.sock  BY <1>0, <2>1, LastFlags
  <2>3. QED  BY <2>2, StillLabels DEF Flags
<1>5. own' \in Owns /\ (tts = "kalpa" => KalpaTurns(own') \subseteq Flying)
  BY <1>0, <1>2, FlyingHas
<1>6. SameContext  BY <1>2 DEF SameContext
<1>7. wire' \in Seq(Messages) /\ WireFrom
  <2>1. CASE wire' = wire  BY <2>1, SameWire
  <2>2. CASE wire' = << >>
    <3>1. DOMAIN << >> = {} /\ << >> \in Seq(Messages)  OBVIOUS
    <3>2. QED  BY <2>2, <3>1 DEF WireFrom
  <2>3. QED  BY <1>2, <2>1, <2>2
<1>8. base'.sock <= link'.n
  <2>1. link'.n \in Nat  BY <1>3 DEF Sockets
  <2>2. QED  BY <1>0, <1>3, <1>4, <2>1
<1>9. own' \in Owns'  BY <1>1, <1>5 DEF Owns
<1>10. TypeInv'  BY <1>1, <1>3, <1>4, <1>7, <1>8, <1>9 DEF TypeInv
<1>11. Flying' \subseteq Flying \cup {0}  BY <1>1, <1>5, <1>7, SameSenders, FlyingFewer
<1>12. QED  BY <1>1, <1>4, <1>6, <1>10, <1>11, StillCall, StillSaid DEF Onward

LEMMA StreamOwnInit == StreamOwn \in StreamOwns
<1> DEFINE f == FALSE
           t == TRUE
<1>1. StreamOwn = [ctx |-> 0, minted |-> 0, mine |-> 0, eos |-> 0, ignore |-> {}, seq |-> 0,
                   flag |-> f, drop |-> f, fed |-> t, pend |-> {}, kept |-> f]
  BY DEF StreamOwn
<1>2. f \in BOOLEAN /\ t \in BOOLEAN /\ 0 \in 0..MaxTurn /\ {} \in SUBSET Nat
  BY SynthesizerAssumption
<1> HIDE DEF t, f
<1>3. QED  BY <1>1, <1>2 DEF StreamOwns

LEMMA StreamDialsStep ==
    ASSUME TypeInv, Dials, tts # "kalpa"
    PROVE  TypeInv' /\ Onward
<1>0. own \in StreamOwns /\ own.minted \in Nat  BY StreamOwnType DEF StreamOwns
<1> DEFINE f == FALSE
           quiet == [own EXCEPT !.drop = f]
           anew == [StreamOwn EXCEPT !.minted = own.minted]
<1>1. f \in BOOLEAN  OBVIOUS
<1>2. anew \in StreamOwns
  <2>1. StreamOwn \in StreamOwns  BY StreamOwnInit
  <2>2. QED  BY <1>0, <2>1 DEF StreamOwns
<1>3. quiet \in StreamOwns
  <2> HIDE DEF f
  <2>1. QED  BY <1>0, <1>1 DEF StreamOwns
<1>4. \E fresh \in {own, quiet, anew}, clears \in BOOLEAN, rejects \in BOOLEAN :
         Dial(fresh, clears, rejects) /\ (tts = "elevenlabs" => fresh = own)
  BY DEF Dials, ElevenDial, CartesiaDial, DeepgramDial, SarvamDial, SmallestDial, RimeDial,
         MayaDial, PixaDial, SonioxDial, V3Dial, KalpaDial
<1>5. own \in Owns /\ quiet \in Owns /\ anew \in Owns  BY <1>0, <1>2, <1>3 DEF Owns
<1> HIDE DEF quiet, anew
<1>6. CASE \E clears \in BOOLEAN, rejects \in BOOLEAN : Dial(own, clears, rejects)
  BY <1>5, <1>6, DialStep
<1>7. CASE tts # "elevenlabs" /\ \E clears \in BOOLEAN, rejects \in BOOLEAN : Dial(quiet, clears, rejects)
  <2>1. PICK clears \in BOOLEAN, rejects \in BOOLEAN : Dial(quiet, clears, rejects)  BY <1>7
  <2>2. QED  BY <1>5, <1>7, <2>1, DialStep DEF quiet
<1>8. CASE tts # "elevenlabs" /\ \E clears \in BOOLEAN, rejects \in BOOLEAN : Dial(anew, clears, rejects)
  <2>1. PICK clears \in BOOLEAN, rejects \in BOOLEAN : Dial(anew, clears, rejects)  BY <1>8
  <2>2. QED  BY <1>5, <1>8, <2>1, DialStep DEF anew
<1>9. QED  BY <1>4, <1>6, <1>7, <1>8

---------------------------------------------------------------------------
\* A push.

LEMMA StampedType ==
    ASSUME NEW b \in Bases, NEW t \in Turns
    PROVE  /\ Stamped(b, t) \in Bases /\ Stamped(b, t).meta = b.meta
           /\ Stamped(b, t).sock \in {0, b.sock}
           /\ b.open => Stamped(b, t) = b
           /\ ~b.open => \A k \in DOMAIN Stamped(b, t).q : Stamped(b, t).q[k] = t
<1>1. CASE b.open  BY <1>1 DEF Stamped
<1>2. CASE ~b.open
  <2> DEFINE n == Cardinality({j \in DOMAIN b.q : b.q[j] = t})
             q == [k \in 1..n |-> t]
             yes == TRUE
             no == FALSE
             z == 0
  <2>1. b.q \in Seq(Turns)  BY DEF Bases
  <2>2. n \in 0..Len(b.q) /\ Len(b.q) \in Nat  BY <2>1, CountWithin, LenProperties
  <2>3. n \in Nat  BY <2>2
  <2>4. Stamped(b, t) = [b EXCEPT !.q = q, !.open = yes, !.sock = z, !.last = no]
    BY <1>2 DEF Stamped
  <2>5. yes \in BOOLEAN /\ no \in BOOLEAN /\ z \in Nat  OBVIOUS
  <2>5a. z \in {0, b.sock}  OBVIOUS
  <2> HIDE DEF n
  <2>6. q \in Seq(Turns) /\ \A k \in DOMAIN q : q[k] = t  BY <2>3
  <2> HIDE DEF q, yes, no, z
  <2>7. Stamped(b, t) \in Bases  BY <2>4, <2>5, <2>6 DEF Bases
  <2>8. Stamped(b, t).meta = b.meta /\ Stamped(b, t).q = q /\ Stamped(b, t).sock = z
    BY <2>4 DEF Bases
  <2>9. QED  BY <1>2, <2>5a, <2>6, <2>7, <2>8
<1>3. QED  BY <1>1, <1>2

LEMMA QueuedType ==
    ASSUME NEW b \in Bases, NEW t \in Turns
    PROVE  /\ Queued(b, t) \in Bases /\ Queued(b, t).sock = b.sock /\ Queued(b, t).q # << >>
           /\ \A S : t \in S /\ QueueIn(b, S) => LabelsIn(Queued(b, t), S)
<1> DEFINE q == Append(b.q, t)
<1>1. b.q \in Seq(Turns)  BY DEF Bases
<1>2. /\ q \in Seq(Turns) /\ Len(q) = Len(b.q) + 1 /\ Len(b.q) \in Nat
      /\ \A k \in 1..Len(b.q) : q[k] = b.q[k]
      /\ q[Len(b.q) + 1] = t
  BY <1>1, AppendProperties, LenProperties
<1>3. /\ DOMAIN q = 1..(Len(b.q) + 1) /\ DOMAIN b.q = 1..Len(b.q)
  BY <1>1, <1>2, LenProperties
<1>4. q # << >>  BY <1>1, AppendProperties
<1>5. Queued(b, t) = [b EXCEPT !.q = q]  BY DEF Queued
<1> HIDE DEF q
<1>6. Queued(b, t) \in Bases /\ Queued(b, t).sock = b.sock /\ Queued(b, t).q = q
  BY <1>2, <1>5 DEF Bases
<1>7. ASSUME NEW S, t \in S, QueueIn(b, S) PROVE LabelsIn(Queued(b, t), S)
  <2>1. \A k \in 1..(Len(b.q) + 1) : q[k] \in S
    <3>1. ASSUME NEW k \in 1..(Len(b.q) + 1) PROVE q[k] \in S
      <4>1. k \in 1..Len(b.q) \/ k = Len(b.q) + 1  BY <1>2
      <4>2. QED  BY <1>2, <1>3, <1>7, <4>1 DEF QueueIn
    <3>2. QED  BY <3>1
  <2>2. QED  BY <1>3, <1>4, <1>6, <2>1 DEF LabelsIn
<1>8. QED  BY <1>4, <1>6, <1>7

\* What a push does but for the provider's part of it.
Asked(stamps, epoch) ==
    /\ Pushing
    /\ \E text \in BOOLEAN : senders' = Append(senders, Pushed(text, pipe.left = 1, epoch))
    /\ base' = Queued(IF stamps THEN Stamped(base, pipe.turn) ELSE [base EXCEPT !.open = TRUE], pipe.turn)
    /\ pipe' = [pipe EXCEPT !.left = @ - 1]
    /\ UNCHANGED <<tts, link, wire, said>>

\* What the call's push and the rest of the state have to do with each other.
Asks ==
    /\ tts' = tts /\ said' = said
    /\ pipe.left # 0 /\ pipe.turn \in pipe.ids
    /\ pipe'.turn = pipe.turn /\ pipe'.ids = pipe.ids /\ pipe'.cut = pipe.cut
    /\ pipe'.silent = pipe.silent
    /\ tts \in Unsilenced /\ (base.open => QueueIn(base, pipe.ids)) => LabelsIn(base', pipe.ids)
    /\ Flying' \subseteq Flying \cup {pipe.turn}
    /\ tts = "elevenlabs" => own' = ElevenPush(pipe.left = 1)

LEMMA PushedType ==
    ASSUME pipe \in Calling, pipe.turn \in pipe.ids, NEW text \in BOOLEAN, NEW last \in BOOLEAN,
           NEW epoch \in Nat
    PROVE  Pushed(text, last, epoch) \in Senders /\ Pushed(text, last, epoch).turn = pipe.turn
<1> DEFINE no == FALSE
           p == IF pipe.turn \in Pairs /\ last THEN 2 ELSE 1
<1>1. pipe.turn \in Turns  BY DEF Calling
<1>2. no \in BOOLEAN /\ p \in Parts  BY DEF Parts
<1>3. Pushed(text, last, epoch) =
         [turn |-> pipe.turn, part |-> p, text |-> text, last |-> last, waits |-> no, epoch |-> epoch]
  BY DEF Pushed
<1> HIDE DEF no, p
<1>4. QED  BY <1>1, <1>2, <1>3 DEF Senders

LEMMA LeftLess ==
    ASSUME pipe \in Calling, pipe.left > 0
    PROVE  pipe.left - 1 \in {0, 1, 2}
<1>1. pipe.left \in {0, 1, 2}  BY DEF Calling
<1>2. QED  BY <1>1

LEMMA AskedStep ==
    ASSUME TypeInv, NEW stamps \in BOOLEAN, NEW epoch \in Nat, Asked(stamps, epoch),
           tts \in Unsilenced => stamps, own' \in Owns,
           tts = "kalpa" => KalpaTurns(own') \subseteq Flying,
           tts = "elevenlabs" => own' = ElevenPush(pipe.left = 1)
    PROVE  TypeInv' /\ Asks
<1>0. /\ pipe \in Calling /\ base \in Bases /\ senders \in Seq(Senders) /\ pipe.turn \in pipe.ids
      /\ pipe.turn \in Turns /\ link \in Sockets /\ pipe.left > 0
  BY DEF TypeInv, Asked, Pushing, Calling
<1>1. UNCHANGED <<tts, link, wire, said>>  BY DEF Asked
<1>2. pipe' \in Calling /\ pipe.left # 0
      /\ pipe'.turn = pipe.turn /\ pipe'.ids = pipe.ids /\ pipe'.cut = pipe.cut
      /\ pipe'.silent = pipe.silent
  <2> DEFINE l == pipe.left - 1
  <2>1. l \in {0, 1, 2}  BY <1>0, LeftLess
  <2>2. pipe' = [pipe EXCEPT !.left = l]  BY DEF Asked
  <2>3. pipe.left # 0  BY <1>0
  <2> HIDE DEF l
  <2>4. QED  BY <1>0, <2>1, <2>2, <2>3 DEF Calling
<1> DEFINE b == IF stamps THEN Stamped(base, pipe.turn) ELSE [base EXCEPT !.open = TRUE]
<1>3. base' = Queued(b, pipe.turn)  BY DEF Asked
<1>4. b \in Bases /\ b.sock \in {0, base.sock}
  <2>1. CASE stamps  BY <1>0, <2>1, StampedType
  <2>2. CASE ~stamps
    <3> DEFINE yes == TRUE
    <3>1. b = [base EXCEPT !.open = yes] /\ yes \in BOOLEAN  BY <2>2
    <3> HIDE DEF yes, b
    <3>2. QED  BY <1>0, <3>1 DEF Bases
  <2>3. QED  BY <2>1, <2>2
<1>5. ASSUME tts \in Unsilenced, base.open => QueueIn(base, pipe.ids)
      PROVE  QueueIn(b, pipe.ids)
  <2>1. b = Stamped(base, pipe.turn)  BY <1>5
  <2>2. CASE base.open  BY <1>0, <1>5, <2>1, <2>2, StampedType
  <2>3. CASE ~base.open
    <3>1. \A k \in DOMAIN Stamped(base, pipe.turn).q : Stamped(base, pipe.turn).q[k] = pipe.turn
      BY <1>0, <2>3, StampedType
    <3> HIDE DEF b
    <3>2. QED  BY <1>0, <2>1, <3>1 DEF QueueIn
  <2>4. QED  BY <2>2, <2>3
<1> HIDE DEF b
<1>6. base' \in Bases /\ base'.sock \in {0, base.sock}  BY <1>0, <1>3, <1>4, QueuedType
<1>7. base'.sock <= link'.n
  <2>1. base.sock <= link.n /\ 0 <= link.n  BY <1>0 DEF TypeInv, Sockets
  <2>2. QED  BY <1>1, <1>6, <2>1
<1>8. tts \in Unsilenced /\ (base.open => QueueIn(base, pipe.ids)) => LabelsIn(base', pipe.ids)
  BY <1>0, <1>3, <1>4, <1>5, QueuedType
<1>9. PICK text \in BOOLEAN : senders' = Append(senders, Pushed(text, pipe.left = 1, epoch))
  BY DEF Asked
<1> DEFINE last == pipe.left = 1
           x == Pushed(text, last, epoch)
<1>10. x \in Senders /\ x.turn = pipe.turn
  <2>1. last \in BOOLEAN  OBVIOUS
  <2> HIDE DEF last
  <2>2. QED  BY <1>0, <2>1, PushedType
<1>11. senders' = Append(senders, x)  BY <1>9
<1> HIDE DEF x
<1>12. /\ senders' \in Seq(Senders) /\ DOMAIN senders' = 1..(Len(senders) + 1)
       /\ DOMAIN senders = 1..Len(senders) /\ Len(senders) \in Nat
       /\ \A k \in 1..Len(senders) : senders'[k] = senders[k]
       /\ senders'[Len(senders) + 1] = x
  <2>1. /\ Append(senders, x) \in Seq(Senders) /\ Len(Append(senders, x)) = Len(senders) + 1
        /\ \A k \in 1..Len(senders) : Append(senders, x)[k] = senders[k]
        /\ Append(senders, x)[Len(senders) + 1] = x
    BY <1>0, <1>10, AppendProperties
  <2>2. QED  BY <1>0, <1>11, <2>1, LenProperties
<1>13. \A k \in DOMAIN senders' : senders'[k].turn \in Flying \cup {pipe.turn}
  <2>1. ASSUME NEW k \in 1..(Len(senders) + 1) PROVE senders'[k].turn \in Flying \cup {pipe.turn}
    <3>1. k \in 1..Len(senders) \/ k = Len(senders) + 1  BY <1>12
    <3>2. CASE k \in 1..Len(senders)  BY <1>12, <3>2, FlyingHas
    <3>3. CASE k = Len(senders) + 1  BY <1>10, <1>12, <3>3
    <3>4. QED  BY <3>1, <3>2, <3>3
  <2>2. QED  BY <1>12, <2>1
<1>14. Flying' \subseteq Flying \cup {pipe.turn}
  <2>1. \A k \in DOMAIN wire' : wire'[k].turn \in Flying  BY <1>1, FlyingHas
  <2>2. CASE tts = "kalpa"
    <3>1. Flying' = {senders'[i].turn : i \in DOMAIN senders'} \cup {wire'[k].turn : k \in DOMAIN wire'}
                    \cup KalpaTurns(own')
      BY <1>1, <2>2 DEF Flying, KalpaTurns
    <3>2. QED  BY <1>13, <2>1, <2>2, <3>1
  <2>3. CASE tts # "kalpa"
    <3>1. Flying' = {senders'[i].turn : i \in DOMAIN senders'} \cup {wire'[k].turn : k \in DOMAIN wire'}
      BY <1>1, <2>3 DEF Flying
    <3>2. QED  BY <1>13, <2>1, <3>1
  <2>4. QED  BY <2>2, <2>3
<1>15. TypeInv'  BY <1>1, <1>2, <1>6, <1>7, <1>12 DEF TypeInv, Owns
<1>16. QED  BY <1>0, <1>1, <1>2, <1>8, <1>14, <1>15 DEF Asks

LEMMA StreamPushesStep ==
    ASSUME TypeInv, Pushes, tts # "kalpa"
    PROVE  TypeInv' /\ Asks
<1>0. own \in StreamOwns /\ own.minted \in Nat /\ 0 \in Nat  BY StreamOwnType DEF StreamOwns
<1> DEFINE last == pipe.left = 1
<1>1. (IF pipe.turn \in Pairs /\ last THEN EndTexts ELSE {TRUE}) \subseteq BOOLEAN
  BY SynthesizerAssumption
<1>2. \/ tts = "elevenlabs" /\ Asked(TRUE, 0) /\ own' = ElevenPush(last)
      \/ tts = "cartesia" /\ Asked(TRUE, 0) /\ own' = CartesiaPush(last)
      \/ tts \notin Unsilenced /\ Asked(TRUE, 0) /\ own' = own
      \/ tts = "rime" /\ Asked(TRUE, 0) /\ own' = RimePush(last)
      \/ tts = "pixa" /\ Asked(FALSE, 0) /\ own' = PixaPush(last)
      \/ tts = "soniox" /\ Asked(TRUE, 0) /\ own' = SonioxPush(last)
      \/ tts = "elevenlabsV3" /\ Asked(TRUE, 0) /\ own' = V3Push(last)
  <2>1. ASSUME Push(TRUE, ElevenPush, 0) PROVE Asked(TRUE, 0) /\ own' = ElevenPush(last)
    BY <1>1, <2>1 DEF Push, Asked
  <2>2. ASSUME Push(TRUE, CartesiaPush, 0) PROVE Asked(TRUE, 0) /\ own' = CartesiaPush(last)
    BY <1>1, <2>2 DEF Push, Asked
  <2>3. ASSUME Push(TRUE, Same, 0) PROVE Asked(TRUE, 0) /\ own' = own
    BY <1>1, <2>3 DEF Push, Asked, Same
  <2>4. ASSUME Push(TRUE, RimePush, 0) PROVE Asked(TRUE, 0) /\ own' = RimePush(last)
    BY <1>1, <2>4 DEF Push, Asked
  <2>5. ASSUME Push(FALSE, PixaPush, 0) PROVE Asked(FALSE, 0) /\ own' = PixaPush(last)
    BY <1>1, <2>5 DEF Push, Asked
  <2>6. ASSUME Push(TRUE, SonioxPush, 0) PROVE Asked(TRUE, 0) /\ own' = SonioxPush(last)
    BY <1>1, <2>6 DEF Push, Asked
  <2>7. ASSUME Push(TRUE, V3Push, 0) PROVE Asked(TRUE, 0) /\ own' = V3Push(last)
    BY <1>1, <2>7 DEF Push, Asked
  <2>8. tts \in {"deepgram", "sarvam", "smallest", "maya"} => tts \notin Unsilenced
    BY DEF Unsilenced, Exact
  <2>9. QED  BY <2>1, <2>2, <2>3, <2>4, <2>5, <2>6, <2>7, <2>8 DEF Pushes
<1>3. own' \in {own, ElevenPush(last), CartesiaPush(last), RimePush(last), PixaPush(last),
                SonioxPush(last), V3Push(last)}
  BY <1>2
<1>3a. /\ \E stamps \in BOOLEAN : Asked(stamps, 0) /\ (tts \in Unsilenced => stamps)
       /\ tts = "elevenlabs" => own' = ElevenPush(last)
  BY <1>2 DEF Unsilenced, Exact
<1>4. last \in BOOLEAN  OBVIOUS
<1> HIDE DEF last
<1>5. ElevenPush(last) \in StreamOwns
  <2>1. Minted(own) \in StreamOwns /\ own.minted + 1 \in Nat  BY <1>0, MintedType
  <2>2. [Minted(own) EXCEPT !.mine = own.minted + 1] \in StreamOwns  BY <2>1 DEF StreamOwns
  <2>3. QED  BY <1>0, <2>2 DEF ElevenPush
<1>6. CartesiaPush(last) \in StreamOwns
  <2> DEFINE o == IF own.ctx = 0 \/ own.flag \/ own.seq # pipe.turn
                  THEN [Minted(own) EXCEPT !.seq = pipe.turn] ELSE own
  <2>1. Minted(own) \in StreamOwns /\ pipe.turn \in 0..MaxTurn
    BY <1>0, MintedType DEF TypeInv, Calling
  <2>2. [Minted(own) EXCEPT !.seq = pipe.turn] \in StreamOwns  BY <2>1 DEF StreamOwns
  <2>3. o \in StreamOwns  BY <1>0, <2>2
  <2>4. CartesiaPush(last) = [o EXCEPT !.flag = last]  BY DEF CartesiaPush
  <2> HIDE DEF o
  <2>5. QED  BY <1>4, <2>3, <2>4 DEF StreamOwns
<1>7. RimePush(last) \in StreamOwns /\ PixaPush(last) \in StreamOwns
  BY <1>0, MintedType DEF RimePush, PixaPush
<1>8. SonioxPush(last) \in StreamOwns
  <2> DEFINE no == FALSE
             I == own.ignore \cup Named({own.ctx})
             P == own.pend \cup Named({own.ctx})
  <2>1. no \in BOOLEAN /\ I \in SUBSET Nat /\ P \in SUBSET Nat  BY <1>0 DEF StreamOwns, Named
  <2>2. SonioxPush(last) \in {own, [own EXCEPT !.ignore = I, !.pend = P, !.flag = no, !.ctx = 0]}
    BY DEF SonioxPush
  <2> HIDE DEF no, I, P
  <2>3. [own EXCEPT !.ignore = I, !.pend = P, !.flag = no, !.ctx = 0] \in StreamOwns
    BY <1>0, <2>1 DEF StreamOwns
  <2>4. QED  BY <1>0, <2>2, <2>3
<1>9. V3Push(last) \in StreamOwns
  <2> DEFINE x == own.flag /\ base.open
  <2>1. x \in BOOLEAN  OBVIOUS
  <2>2. V3Push(last) = [own EXCEPT !.flag = x]  BY DEF V3Push
  <2> HIDE DEF x
  <2>3. QED  BY <1>0, <2>1, <2>2 DEF StreamOwns
<1>10. own' \in Owns  BY <1>0, <1>3, <1>5, <1>6, <1>7, <1>8, <1>9 DEF Owns
<1>11. tts = "elevenlabs" => own' = ElevenPush(pipe.left = 1)  BY <1>3a DEF last
<1>12. PICK stamps \in BOOLEAN : Asked(stamps, 0) /\ (tts \in Unsilenced => stamps)  BY <1>3a
<1>13. QED  BY <1>0, <1>10, <1>11, <1>12, AskedStep

---------------------------------------------------------------------------
\* An interruption.

Barges ==
    /\ tts' = tts /\ said' = said
    /\ pipe'.turn = pipe.turn /\ pipe'.ids = pipe.ids /\ pipe'.silent = pipe.silent
    /\ pipe'.cut /\ pipe'.left = 0
    /\ base'.q = base.q /\ base'.meta = base.meta /\ (base'.open => base.open)
    /\ Flying' \subseteq Flying \cup {0}
    /\ tts \in Unsilenced \ {"elevenlabs"} => ~base'.open
    /\ tts = "elevenlabs" => /\ own'.mine = 0 /\ (base'.open => own.mine = 0)
                             /\ ~own'.kept => ~own.kept /\ own'.ctx = 0

LEMMA CutWire ==
    ASSUME TypeInv, NEW w,
           w \in Prefixes(wire) \/ (\E c : w \in Stopped(c)) \/ w = wire \/ w = << >>
    PROVE  w \in Seq(Messages) /\ \A k \in DOMAIN w : w[k].turn \in Flying \cup {0}
<1>1. wire \in Seq(Messages) /\ Len(wire) \in Nat  BY LenProperties DEF TypeInv
<1>2. CASE w = wire  BY <1>1, <1>2, FlyingHas
<1>3. CASE w = << >>
  <2>1. << >> \in Seq(Messages) /\ DOMAIN << >> = {}  OBVIOUS
  <2>2. QED  BY <1>3, <2>1
<1>4. CASE w \in Prefixes(wire) \/ \E c : w \in Stopped(c)
  <2>1. PICK k \in 0..Len(wire) : w = SubSeq(wire, 1, k)  BY <1>4 DEF Prefixes, Stopped
  <2>2. QED  BY <2>1, PrefixWire
<1>5. QED  BY <1>2, <1>3, <1>4

LEMMA NotedWire ==
    ASSUME TypeInv, NEW w \in Seq(Messages), \A k \in DOMAIN w : w[k].turn \in Flying \cup {0},
           NEW c \in Nat, wire' = Append(w, Note(c))
    PROVE  wire' \in Seq(Messages) /\ WireFrom
<1> DEFINE x == Note(c)
<1>1. x \in Messages /\ x.turn = 0  BY NoteType
<1>2. wire' = Append(w, x)  OBVIOUS
<1> HIDE DEF x
<1>3. /\ Append(w, x) \in Seq(Messages) /\ Len(Append(w, x)) = Len(w) + 1 /\ Len(w) \in Nat
      /\ \A k \in 1..Len(w) : Append(w, x)[k] = w[k]
      /\ Append(w, x)[Len(w) + 1] = x
  BY <1>1, AppendProperties, LenProperties
<1>4. DOMAIN w = 1..Len(w) /\ DOMAIN Append(w, x) = 1..(Len(w) + 1)
  BY <1>3, LenProperties
<1>5. ASSUME NEW k \in 1..(Len(w) + 1) PROVE Append(w, x)[k].turn \in Flying \cup {0}
  <2>1. k \in 1..Len(w) \/ k = Len(w) + 1  BY <1>3
  <2>2. CASE k \in 1..Len(w)  BY <1>3, <1>4, <2>2
  <2>3. CASE k = Len(w) + 1  BY <1>1, <1>3, <2>3
  <2>4. QED  BY <2>1, <2>2, <2>3
<1>6. QED  BY <1>2, <1>3, <1>4, <1>5 DEF WireFrom

\* base may be closed and get an error.
Closed(b) ==
    /\ b \in Bases /\ b.q = base.q /\ b.meta = base.meta /\ b.sock = base.sock
    /\ b.open => base.open

LEMMA ClosedBase ==
    ASSUME base \in Bases, NEW x \in BOOLEAN, NEW y \in BOOLEAN, x => base.open
    PROVE  /\ Closed([base EXCEPT !.open = x]) /\ [base EXCEPT !.open = x].open = x
           /\ Closed([base EXCEPT !.open = x, !.error = y]) /\ Closed(base)
BY DEF Closed, Bases

LEMMA CutCall ==
    ASSUME pipe \in Calling, pipe' = CutPipe
    PROVE  /\ pipe' \in Calling /\ pipe'.turn = pipe.turn /\ pipe'.ids = pipe.ids
           /\ pipe'.silent = pipe.silent /\ pipe'.cut /\ pipe'.left = 0
<1> DEFINE yes == TRUE
           z == 0
<1>1. pipe' = [pipe EXCEPT !.left = z, !.cut = yes]  BY DEF CutPipe
<1>2. yes \in BOOLEAN /\ yes /\ z \in {0, 1, 2} /\ z = 0  OBVIOUS
<1> HIDE DEF yes, z
<1>3. QED  BY <1>1, <1>2 DEF Calling

LEMMA BargeShape ==
    ASSUME TypeInv, pipe' = CutPipe, UNCHANGED <<tts, senders, said>>,
           Closed(base'), link' \in Sockets, link'.n = link.n,
           own' \in Owns, tts = "kalpa" => KalpaTurns(own') \subseteq Flying,
           wire' \in Seq(Messages), WireFrom,
           tts \in Unsilenced \ {"elevenlabs"} => ~base'.open,
           tts = "elevenlabs" => /\ own'.mine = 0 /\ (base'.open => own.mine = 0)
                                 /\ ~own'.kept => ~own.kept /\ own'.ctx = 0
    PROVE  TypeInv' /\ Barges
<1>1. /\ pipe' \in Calling /\ pipe'.turn = pipe.turn /\ pipe'.ids = pipe.ids
      /\ pipe'.silent = pipe.silent /\ pipe'.cut /\ pipe'.left = 0
  BY CutCall DEF TypeInv
<1>2. TypeInv'  BY <1>1 DEF TypeInv, Owns, Closed
<1>3. Flying' \subseteq Flying \cup {0}  BY SameSenders, FlyingFewer
<1>4. QED  BY <1>1, <1>2, <1>3 DEF Barges, Closed

LEMMA ElevenInterruptStep ==
    ASSUME TypeInv, ElevenInterrupt
    PROVE  TypeInv' /\ Barges
<1> DEFINE I == own.ignore \cup Named({own.mine, own.ctx})
           c == IF link.ws = "open" THEN 0 ELSE own.ctx
           k == own.kept \/ (own.ctx # 0 /\ link.ws # "open")
           x == base.open /\ own.mine = 0
           z == 0
<1>1. /\ tts = "elevenlabs" /\ pipe' = CutPipe /\ UNCHANGED <<tts, senders, said, link>>
      /\ own' = [own EXCEPT !.ignore = I, !.mine = z, !.ctx = c, !.kept = k]
      /\ base' = [base EXCEPT !.open = x]
      /\ wire' \in IF own.ctx # 0 /\ link.ws = "open" THEN Stopped(own.ctx) ELSE {wire}
  BY DEF ElevenInterrupt, Interrupted
<1>2. own \in StreamOwns /\ own.ctx \in Nat /\ own.mine \in Nat /\ own.ignore \in SUBSET Nat
      /\ own.kept \in BOOLEAN
  BY <1>1, StreamOwnType DEF StreamOwns
<1>3. I \in SUBSET Nat /\ c \in Nat  BY <1>2 DEF Named
<1>4. k \in BOOLEAN /\ x \in BOOLEAN /\ (x => base.open /\ own.mine = 0) /\ z \in Nat /\ z = 0
  BY <1>2
<1>5. ~k => ~own.kept /\ c = 0  OBVIOUS
<1>6. wire' \in Seq(Messages) /\ WireFrom  BY <1>1, CutWire DEF WireFrom
<1> HIDE DEF I, c, k, x, z
<1>7. own' \in StreamOwns /\ own'.mine = 0 /\ own'.ctx = c /\ own'.kept = k
  BY <1>1, <1>2, <1>3, <1>4 DEF StreamOwns
<1>8. Closed(base') /\ base'.open = x
  BY <1>1, <1>4, ClosedBase DEF TypeInv
<1>9. own' \in Owns  BY <1>1, <1>7 DEF Owns
<1>10. link' \in Sockets /\ link'.n = link.n  BY <1>1 DEF TypeInv
<1>11. ~own'.kept => ~own.kept /\ own'.ctx = 0  BY <1>5, <1>7
<1>12. own'.mine = 0 /\ (base'.open => own.mine = 0)  BY <1>4, <1>7, <1>8
<1>13. QED  BY <1>1, <1>6, <1>8, <1>9, <1>10, <1>11, <1>12, BargeShape

\* The providers without a context per turn that is watched.
LEMMA OtherInterrupt ==
    ASSUME TypeInv, tts \notin Unsilenced, pipe' = CutPipe, UNCHANGED <<tts, senders, said, link>>,
           Closed(base'), own' \in StreamOwns, wire' \in Seq(Messages), WireFrom
    PROVE  TypeInv' /\ Barges
<1>1. own' \in Owns /\ tts # "kalpa" /\ tts # "elevenlabs"  BY DEF Owns, Unsilenced, Exact
<1>2. link' \in Sockets /\ link'.n = link.n  BY DEF TypeInv
<1>3. QED  BY <1>1, <1>2, BargeShape

LEMMA PlainInterruptsStep ==
    ASSUME TypeInv, DeepgramInterrupt \/ PlainInterrupt("sarvam") \/ PlainInterrupt("smallest")
    PROVE  TypeInv' /\ Barges
<1>1. /\ tts \in {"deepgram", "sarvam", "smallest"} /\ pipe' = CutPipe
      /\ UNCHANGED <<tts, senders, said, link, base, own>>
      /\ wire' \in Prefixes(wire) \/ wire' = wire
  BY DEF DeepgramInterrupt, PlainInterrupt, Interrupted
<1>2. tts \notin Unsilenced /\ tts # "kalpa"  BY <1>1 DEF Unsilenced, Exact
<1>3. wire' \in Seq(Messages) /\ WireFrom  BY <1>1, CutWire DEF WireFrom
<1>4. own' \in StreamOwns  BY <1>1, <1>2, StreamOwnType
<1>5. Closed(base')  BY <1>1 DEF TypeInv, Closed
<1>6. QED  BY <1>1, <1>2, <1>3, <1>4, <1>5, OtherInterrupt

LEMMA CartesiaInterruptStep ==
    ASSUME TypeInv, CartesiaInterrupt
    PROVE  TypeInv' /\ Barges
<1> DEFINE hears == own.ctx # 0 /\ link.ws = "open"
           I == own.ignore \cup Named({own.ctx})
           c == IF hears THEN 0 ELSE own.ctx
           x == base.open /\ ~hears
<1>1. /\ tts = "cartesia" /\ pipe' = CutPipe /\ UNCHANGED <<tts, senders, said, link>>
      /\ own' = [own EXCEPT !.ignore = I, !.ctx = c]
      /\ base' = [base EXCEPT !.open = x]
      /\ wire' \in IF hears THEN Stopped(own.ctx) ELSE {wire}
  BY DEF CartesiaInterrupt, Interrupted
<1>2. tts \notin Unsilenced /\ tts # "kalpa"  BY <1>1 DEF Unsilenced, Exact
<1>3. own \in StreamOwns /\ own.ctx \in Nat /\ own.ignore \in SUBSET Nat
  BY <1>2, StreamOwnType DEF StreamOwns
<1>4. I \in SUBSET Nat /\ c \in Nat  BY <1>3 DEF Named
<1>5. x \in BOOLEAN /\ (x => base.open)  OBVIOUS
<1>6. wire' \in Seq(Messages) /\ WireFrom  BY <1>1, CutWire DEF WireFrom
<1> HIDE DEF I, c, x
<1>7. own' \in StreamOwns  BY <1>1, <1>3, <1>4 DEF StreamOwns
<1>8. Closed(base')  BY <1>1, <1>5, ClosedBase DEF TypeInv
<1>9. QED  BY <1>1, <1>2, <1>6, <1>7, <1>8, OtherInterrupt

LEMMA RimeInterruptStep ==
    ASSUME TypeInv, RimeInterrupt
    PROVE  TypeInv' /\ Barges
<1>1. /\ tts = "rime" /\ pipe' = CutPipe /\ UNCHANGED <<tts, senders, said, link, base>>
      /\ own' \in {own, Minted(own)}
      /\ wire' \in IF own.ctx # 0 /\ link.ws = "open" THEN Prefixes(wire) ELSE {wire}
  BY DEF RimeInterrupt, Interrupted
<1>2. tts \notin Unsilenced /\ tts # "kalpa"  BY <1>1 DEF Unsilenced, Exact
<1>3. wire' \in Seq(Messages) /\ WireFrom  BY <1>1, CutWire DEF WireFrom
<1>4. own' \in StreamOwns  BY <1>1, <1>2, StreamOwnType, MintedType
<1>5. Closed(base')  BY <1>1 DEF TypeInv, Closed
<1>6. QED  BY <1>1, <1>2, <1>3, <1>4, <1>5, OtherInterrupt

LEMMA MayaInterruptStep ==
    ASSUME TypeInv, MayaInterrupt
    PROVE  TypeInv' /\ Barges
<1> DEFINE d == own.drop \/ Connected
           x == base.open /\ link.ws # "open"
           y == base.error \/ link.ws = "closing"
<1>1. /\ tts = "maya" /\ pipe' = CutPipe /\ UNCHANGED <<tts, senders, said, link>>
      /\ own' = [own EXCEPT !.drop = d]
      /\ base' = [base EXCEPT !.open = x, !.error = y]
      /\ (\E w \in Prefixes(wire) : wire' = Append(w, Note(0))) \/ wire' = wire
  BY DEF MayaInterrupt, Interrupted
<1>2. tts \notin Unsilenced /\ tts # "kalpa"  BY <1>1 DEF Unsilenced, Exact
<1>3. wire' \in Seq(Messages) /\ WireFrom
  <2>1. CASE wire' = wire  BY <2>1, SameWire
  <2>2. CASE \E w \in Prefixes(wire) : wire' = Append(w, Note(0))
    <3>1. PICK w \in Prefixes(wire) : wire' = Append(w, Note(0))  BY <2>2
    <3>2. w \in Seq(Messages) /\ \A k \in DOMAIN w : w[k].turn \in Flying \cup {0}  BY CutWire
    <3>3. QED  BY <3>1, <3>2, NotedWire
  <2>3. QED  BY <1>1, <2>1, <2>2
<1>4. d \in BOOLEAN /\ x \in BOOLEAN /\ y \in BOOLEAN /\ (x => base.open)  OBVIOUS
<1>5. own \in StreamOwns  BY <1>2, StreamOwnType
<1> HIDE DEF d, x, y
<1>6. own' \in StreamOwns  BY <1>1, <1>4, <1>5 DEF StreamOwns
<1>7. Closed(base')  BY <1>1, <1>4, ClosedBase DEF TypeInv
<1>8. QED  BY <1>1, <1>2, <1>3, <1>6, <1>7, OtherInterrupt

LEMMA PixaInterruptStep ==
    ASSUME TypeInv, PixaInterrupt
    PROVE  TypeInv' /\ Barges
<1> DEFINE I == own.ignore \cup Named({own.ctx})
<1>1. /\ tts = "pixa" /\ pipe' = CutPipe /\ UNCHANGED <<tts, senders, said, link, base>>
      /\ own' = [own EXCEPT !.ignore = I, !.ctx = 0]
      /\ wire' \in IF own.ctx # 0 /\ link.ws = "open" THEN Stopped(own.ctx) ELSE {wire}
  BY DEF PixaInterrupt, Interrupted
<1>2. tts \notin Unsilenced /\ tts # "kalpa"  BY <1>1 DEF Unsilenced, Exact
<1>3. own \in StreamOwns /\ own.ctx \in Nat /\ own.ignore \in SUBSET Nat
  BY <1>2, StreamOwnType DEF StreamOwns
<1>4. I \in SUBSET Nat  BY <1>3 DEF Named
<1>5. wire' \in Seq(Messages) /\ WireFrom  BY <1>1, CutWire DEF WireFrom
<1> HIDE DEF I
<1>6. own' \in StreamOwns  BY <1>1, <1>3, <1>4 DEF StreamOwns
<1>7. Closed(base')  BY <1>1 DEF TypeInv, Closed
<1>8. QED  BY <1>1, <1>2, <1>5, <1>6, <1>7, OtherInterrupt

LEMMA SonioxInterruptStep ==
    ASSUME TypeInv, SonioxInterrupt
    PROVE  TypeInv' /\ Barges
<1> DEFINE I == own.ignore \cup {own.ctx}
           no == FALSE
           z == 0
           t == 0
<1>1. tts = "soniox" /\ pipe' = CutPipe /\ UNCHANGED <<tts, senders, said, link>>
  BY DEF SonioxInterrupt, Interrupted
<1>2. tts \notin Unsilenced /\ tts # "kalpa"  BY <1>1 DEF Unsilenced, Exact
<1>3. own \in StreamOwns /\ own.ctx \in Nat /\ own.ignore \in SUBSET Nat
  BY <1>2, StreamOwnType DEF StreamOwns
<1>4. I \in SUBSET Nat  BY <1>3
<1>5. no \in BOOLEAN /\ z \in Nat /\ t \in 0..MaxTurn /\ (no => base.open)  BY SynthesizerAssumption
<1>6. CASE UNCHANGED <<base, own, wire>>
  <2>1. wire' \in Seq(Messages) /\ WireFrom  BY <1>6, SameWire
  <2>2. Closed(base')  BY <1>6 DEF TypeInv, Closed
  <2>3. QED  BY <1>1, <1>2, <1>3, <1>6, <2>1, <2>2, OtherInterrupt
<1>7. CASE /\ own' = [own EXCEPT !.ignore = I, !.flag = no, !.ctx = z, !.seq = t]
           /\ base' = [base EXCEPT !.open = no]
           /\ (\E w \in Stopped(own.ctx) : wire' = Append(w, Note(own.ctx))) \/ wire' = wire
  <2>1. wire' \in Seq(Messages) /\ WireFrom
    <3>1. CASE wire' = wire  BY <3>1, SameWire
    <3>2. CASE \E w \in Stopped(own.ctx) : wire' = Append(w, Note(own.ctx))
      <4>1. PICK w \in Stopped(own.ctx) : wire' = Append(w, Note(own.ctx))  BY <3>2
      <4>2. w \in Seq(Messages) /\ \A k \in DOMAIN w : w[k].turn \in Flying \cup {0}  BY CutWire
      <4>3. QED  BY <1>3, <4>1, <4>2, NotedWire
    <3>3. QED  BY <1>7, <3>1, <3>2
  <2> HIDE DEF I, no, z, t
  <2>2. own' \in StreamOwns  BY <1>3, <1>4, <1>5, <1>7 DEF StreamOwns
  <2>3. Closed(base')  BY <1>5, <1>7, ClosedBase DEF TypeInv
  <2>4. QED  BY <1>1, <1>2, <2>1, <2>2, <2>3, OtherInterrupt
<1>8. QED  BY <1>6, <1>7 DEF SonioxInterrupt

LEMMA V3InterruptStep ==
    ASSUME TypeInv, V3Interrupt
    PROVE  TypeInv' /\ Barges
<1> DEFINE no == FALSE
           yes == TRUE
<1>1. /\ tts = "elevenlabsV3" /\ pipe' = CutPipe /\ UNCHANGED <<tts, senders, said>>
      /\ own' = [own EXCEPT !.drop = yes] /\ base' = [base EXCEPT !.open = no]
      /\ \E s \in {"dying", "none"} : link' = [link EXCEPT !.ws = s]
      /\ wire' \in Prefixes(wire) \/ wire' = << >>
  BY DEF V3Interrupt, Interrupted
<1>2. wire' \in Seq(Messages) /\ WireFrom  BY <1>1, CutWire DEF WireFrom
<1>3. link' \in Sockets /\ link'.n = link.n  BY <1>1, NoSocketType DEF TypeInv
<1>4. no \in BOOLEAN /\ yes \in BOOLEAN /\ (no => base.open) /\ ~no  OBVIOUS
<1> HIDE DEF no, yes
<1>5. own' \in StreamOwns  BY <1>1, <1>4, StreamOwnType DEF StreamOwns
<1>6. Closed(base') /\ base'.open = no  BY <1>1, <1>4, ClosedBase DEF TypeInv
<1>7. own' \in Owns  BY <1>1, <1>5 DEF Owns
<1>8. QED  BY <1>1, <1>2, <1>3, <1>4, <1>6, <1>7, BargeShape
=============================================================================
