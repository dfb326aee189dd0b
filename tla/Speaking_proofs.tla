-------------------------- MODULE Speaking_proofs --------------------------
(***************************************************************************)
(* The same for Kalpa's actions, and the theorems of Speaking about every  *)
(* provider: the types, the labels of an open turn, and that no turn is    *)
(* silenced by the labels of a retired one.                                *)
(***************************************************************************)
EXTENDS StreamSynthesizers_proofs

---------------------------------------------------------------------------
\* Kalpa's own state.

\* The same but for where the holder of the lock is.
Alike(p, o) ==
    /\ p.igen = o.igen /\ p.utt = o.utt /\ p.dirty = o.dirty /\ p.slot = o.slot
    /\ p.resp = o.resp /\ p.svc = o.svc /\ p.made = o.made /\ p.crossed = o.crossed

LEMMA KalpaType ==
    ASSUME NEW o \in KalpaOwns
    PROVE  /\ o.igen \in Nat /\ o.utt \in Utterances /\ o.dirty \in Nat /\ o.slot \in SlotStates
           /\ o.resp \in Responses /\ o.at \in {"text", "end"} /\ o.slotted \in BOOLEAN
           /\ o.svc \in Services /\ o.made \in Nat /\ o.crossed \in BOOLEAN
BY DEF KalpaOwns

LEMMA KalpaParts ==
    ASSUME NEW o \in KalpaOwns
    PROVE  /\ o.utt.turn \in 0..MaxTurn /\ o.utt.chunks \in Seq(Pieces) /\ o.utt.dead \in BOOLEAN
           /\ o.utt.conn \in Nat
           /\ o.slot.idle \in BOOLEAN /\ o.slot.slot \in 0..MaxTurn /\ o.slot.gone \in BOOLEAN
           /\ o.resp.rid \in Nat /\ o.resp.serves \in BOOLEAN
           /\ o.svc.buf \in Seq(Pieces) /\ o.svc.flushed \in BOOLEAN /\ o.svc.resp \in Nat
<1>1. o.utt \in Utterances /\ o.slot \in SlotStates /\ o.resp \in Responses /\ o.svc \in Services
  BY KalpaType
<1>2. QED  BY <1>1 DEF Utterances, SlotStates, Responses, Services

LEMMA NothingTypes ==
    /\ NoUtterance \in Utterances /\ NoUtterance.turn = 0 /\ NoUtterance.chunks = << >>
    /\ FreeSlot \in SlotStates /\ NoResponse \in Responses /\ NoResponse.rid = 0
    /\ NoService \in Services /\ NoService.buf = << >> /\ NoService.resp = 0
    /\ ~NoService.flushed /\ FreeSlot.idle /\ ~NoUtterance.dead
<1> DEFINE no == FALSE
           yes == TRUE
           e == << >>
           z == 0
<1>1. e \in Seq(Pieces) /\ no \in BOOLEAN /\ yes \in BOOLEAN /\ z \in Nat /\ z \in 0..MaxTurn /\ ~no /\ yes
  BY SynthesizerAssumption
<1>2. /\ NoUtterance = [turn |-> z, chunks |-> e, dead |-> no, conn |-> z]
      /\ FreeSlot = [idle |-> yes, slot |-> z, gone |-> no]
      /\ NoResponse = [rid |-> z, serves |-> no]
      /\ NoService = [buf |-> e, flushed |-> no, resp |-> z]
  BY DEF NoUtterance, FreeSlot, NoResponse, NoService
<1>3. e = << >> /\ z = 0  OBVIOUS
<1> HIDE DEF no, yes, e, z
<1>4. NoUtterance \in Utterances /\ NoUtterance.turn = z /\ NoUtterance.chunks = e /\ NoUtterance.dead = no
  BY <1>1, <1>2 DEF Utterances
<1>5. FreeSlot \in SlotStates /\ FreeSlot.idle = yes  BY <1>1, <1>2 DEF SlotStates
<1>6. NoResponse \in Responses /\ NoResponse.rid = z  BY <1>1, <1>2 DEF Responses
<1>7. NoService \in Services /\ NoService.buf = e /\ NoService.resp = z /\ NoService.flushed = no
  BY <1>1, <1>2 DEF Services
<1>8. QED  BY <1>1, <1>3, <1>4, <1>5, <1>6, <1>7

\* Where the holder is.
LEMMA AtType ==
    ASSUME NEW o \in KalpaOwns, NEW a \in {"text", "end"}, NEW w \in BOOLEAN
    PROVE  /\ [o EXCEPT !.at = a, !.slotted = w] \in KalpaOwns
           /\ Alike([o EXCEPT !.at = a, !.slotted = w], o)
           /\ [o EXCEPT !.at = a, !.slotted = w].at = a
           /\ [o EXCEPT !.at = a, !.slotted = w].slotted = w
           /\ [o EXCEPT !.slotted = w] \in KalpaOwns
           /\ Alike([o EXCEPT !.slotted = w], o)
           /\ [o EXCEPT !.slotted = w].at = o.at
           /\ [o EXCEPT !.slotted = w].slotted = w
BY DEF KalpaOwns, Alike

LEMMA LetsGoType ==
    ASSUME NEW o \in KalpaOwns, LetsGo(o)
    PROVE  /\ own' \in KalpaOwns /\ Alike(own', o) /\ own'.at = "text" /\ ~own'.slotted
           /\ senders' = Tail(senders)
<1> DEFINE a == "text"
           no == FALSE
           q == [o EXCEPT !.at = a, !.slotted = no]
<1>1. own' = q /\ senders' = Tail(senders)  BY DEF LetsGo
<1>2. a \in {"text", "end"} /\ no \in BOOLEAN /\ ~no /\ a = "text"  OBVIOUS
<1> HIDE DEF a, no
<1>3. q \in KalpaOwns /\ Alike(q, o) /\ q.at = a /\ q.slotted = no  BY <1>2 DEF KalpaOwns, Alike
<1> HIDE DEF q
<1>4. QED  BY <1>1, <1>2, <1>3

LEMMA TextDoneType ==
    ASSUME NEW o \in KalpaOwns, TextDone(o)
    PROVE  /\ own' \in KalpaOwns /\ Alike(own', o) /\ ~own'.slotted
           /\ \/ Me.last /\ own'.at = "end" /\ senders' = senders
              \/ ~Me.last /\ own'.at = "text" /\ senders' = Tail(senders)
<1>1. CASE Me.last
  <2> DEFINE a == "end"
             no == FALSE
             q == [o EXCEPT !.at = a, !.slotted = no]
  <2>1. own' = q /\ senders' = senders  BY <1>1 DEF TextDone
  <2>2. a \in {"text", "end"} /\ no \in BOOLEAN /\ ~no /\ a = "end"  OBVIOUS
  <2> HIDE DEF a, no
  <2>3. q \in KalpaOwns /\ Alike(q, o) /\ q.at = a /\ q.slotted = no  BY <2>2 DEF KalpaOwns, Alike
  <2> HIDE DEF q
  <2>4. QED  BY <1>1, <2>1, <2>2, <2>3
<1>2. CASE ~Me.last  BY <1>2, LetsGoType DEF TextDone
<1>3. QED  BY <1>1, <1>2

LEMMA TailSenders ==
    ASSUME senders \in Seq(Senders), senders # << >>
    PROVE  /\ Tail(senders) \in Seq(Senders)
           /\ \A i \in DOMAIN Tail(senders) : i + 1 \in DOMAIN senders /\ Tail(senders)[i] = senders[i + 1]
<1>1. /\ Tail(senders) \in Seq(Senders) /\ Len(Tail(senders)) = Len(senders) - 1
      /\ \A j \in 1..Len(Tail(senders)) : Tail(senders)[j] = senders[j + 1]
  BY HeadTailProperties
<1>2. DOMAIN Tail(senders) = 1..(Len(senders) - 1) /\ DOMAIN senders = 1..Len(senders) /\ Len(senders) \in Nat
  BY <1>1, LenProperties
<1>3. \A j \in 1..(Len(senders) - 1) : j + 1 \in DOMAIN senders  BY <1>2
<1>4. QED  BY <1>1, <1>2, <1>3

LEMMA TailFrom ==
    ASSUME senders \in Seq(Senders), senders # << >>, senders' \in {senders, Tail(senders)}
    PROVE  senders' \in Seq(Senders) /\ SendersFrom
BY TailSenders DEF SendersFrom

LEMMA MeType ==
    ASSUME TypeInv, Holding
    PROVE  /\ senders \in Seq(Senders) /\ senders # << >> /\ 1 \in DOMAIN senders
           /\ Me \in Senders /\ Me.turn \in Turns /\ Me.part \in Parts /\ Me.last \in BOOLEAN
           /\ Me.text \in BOOLEAN /\ Me.turn \in Flying /\ Me.turn # 0
<1>1. senders \in Seq(Senders) /\ senders # << >>  BY DEF TypeInv, Holding
<1>2. 1 \in DOMAIN senders  BY <1>1, LenProperties, EmptySeq
<1>3. Me = senders[1]  BY DEF Me
<1>4. Me \in Senders /\ Me.turn \in Turns /\ Me.part \in Parts /\ Me.last \in BOOLEAN
      /\ Me.text \in BOOLEAN
  BY <1>1, <1>2, <1>3, SenderType
<1>5. Me.turn \in Flying  BY <1>2, <1>3, FlyingHas
<1>6. QED  BY <1>1, <1>2, <1>4, <1>5 DEF Turns

\* A step of Kalpa that is neither a push nor an interruption.
LEMMA KalpaShape ==
    ASSUME TypeInv, tts = "kalpa", tts' = tts, own' \in KalpaOwns, KalpaTurns(own') \subseteq Flying,
           senders' \in Seq(Senders), SendersFrom, wire' \in Seq(Messages), WireFrom,
           pipe' \in Calling, SameCall, base' \in Bases, SameLabels, said' \in Verdicts, NoNewWrong,
           link' \in Sockets, base'.sock <= link'.n
    PROVE  TypeInv' /\ Onward
<1>1. own' \in Owns'  BY DEF Owns
<1>2. TypeInv'  BY <1>1 DEF TypeInv
<1>3. Flying' \subseteq Flying \cup {0}  BY FlyingFewer
<1>4. SameContext  BY DEF SameContext
<1>5. QED  BY <1>2, <1>3, <1>4 DEF Onward

---------------------------------------------------------------------------
\* Pieces of text.

LEMMA PieceType == ASSUME NEW x \in Pieces PROVE x[1] \in Turns /\ x[2] \in Parts
BY DEF Pieces

TurnsOf(q) == {q[k][1] : k \in DOMAIN q}

LEMMA TurnsOfConcat ==
    ASSUME NEW q \in Seq(Pieces), NEW r \in Seq(Pieces)
    PROVE  q \o r \in Seq(Pieces) /\ TurnsOf(q \o r) \subseteq TurnsOf(q) \cup TurnsOf(r)
<1>1. /\ q \o r \in Seq(Pieces) /\ Len(q \o r) = Len(q) + Len(r)
      /\ \A i \in 1..(Len(q) + Len(r)) :
            (q \o r)[i] = IF i <= Len(q) THEN q[i] ELSE r[i - Len(q)]
  BY ConcatProperties
<1>2. /\ Len(q) \in Nat /\ DOMAIN q = 1..Len(q) /\ Len(r) \in Nat /\ DOMAIN r = 1..Len(r)
      /\ DOMAIN (q \o r) = 1..(Len(q) + Len(r))
  BY <1>1, LenProperties
<1>3. ASSUME NEW i \in 1..(Len(q) + Len(r)) PROVE (q \o r)[i][1] \in TurnsOf(q) \cup TurnsOf(r)
  <2>1. CASE i <= Len(q)
    <3>1. i \in DOMAIN q /\ (q \o r)[i] = q[i]  BY <1>1, <1>2, <2>1
    <3>2. QED  BY <3>1 DEF TurnsOf
  <2>2. CASE ~(i <= Len(q))
    <3>1. i - Len(q) \in DOMAIN r /\ (q \o r)[i] = r[i - Len(q)]  BY <1>1, <1>2, <2>2
    <3>2. QED  BY <3>1 DEF TurnsOf
  <2>3. QED  BY <2>1, <2>2
<1>4. QED  BY <1>1, <1>2, <1>3 DEF TurnsOf

LEMMA TurnsOfTail ==
    ASSUME NEW q \in Seq(Pieces), q # << >>
    PROVE  /\ Tail(q) \in Seq(Pieces) /\ TurnsOf(Tail(q)) \subseteq TurnsOf(q)
           /\ Head(q) \in Pieces /\ Head(q)[1] \in TurnsOf(q)
<1>1. /\ Tail(q) \in Seq(Pieces) /\ Len(Tail(q)) = Len(q) - 1 /\ Head(q) \in Pieces
      /\ \A j \in 1..Len(Tail(q)) : Tail(q)[j] = q[j + 1]
  BY HeadTailProperties
<1>2. DOMAIN Tail(q) = 1..(Len(q) - 1) /\ DOMAIN q = 1..Len(q) /\ Len(q) \in Nat
  BY <1>1, LenProperties
<1>3. \A j \in 1..(Len(q) - 1) : j + 1 \in DOMAIN q  BY <1>2
<1>4. 1 \in DOMAIN q /\ Head(q) = q[1]  BY <1>2, EmptySeq
<1>5. QED  BY <1>1, <1>2, <1>3, <1>4 DEF TurnsOf

LEMMA TurnsOfOne ==
    ASSUME NEW x \in Pieces
    PROVE  <<x>> \in Seq(Pieces) /\ TurnsOf(<<x>>) = {x[1]} /\ TurnsOf(<< >>) = {}
BY DEF TurnsOf

LEMMA KalpaTurnsIs == \A o : KalpaTurns(o) = TurnsOf(o.svc.buf) \cup TurnsOf(o.utt.chunks)
BY DEF KalpaTurns, TurnsOf

---------------------------------------------------------------------------
\* The service.

\* A response is begun, ends or fails under a message of no turn.
LEMMA ServiceTypes ==
    ASSUME NEW r \in Nat, NEW ok \in BOOLEAN
    PROVE  /\ Created(r) \in Messages /\ Created(r).turn = 0 /\ Created(r).kind = "created"
           /\ Created(r).ctx = r
           /\ Done(r, ok) \in Messages /\ Done(r, ok).turn = 0 /\ Done(r, ok).ctx = r
           /\ Done(r, ok).kind = IF ok THEN "done" ELSE "cancelled"
           /\ Failed(r) \in Messages /\ Failed(r).turn = 0 /\ Failed(r).kind = "error"
           /\ Failed(r).ctx = r
<1>1. 0 \in 0..MaxTurn  BY SynthesizerAssumption
<1>2. QED  BY <1>1 DEF Created, Done, Failed, Messages, Kinds

LEMMA FlushedType ==
    ASSUME NEW v \in Services
    PROVE  /\ Flushed(v) \in Services /\ Flushed(v).buf = v.buf /\ Flushed(v).resp = v.resp
           /\ Flushed(v).flushed
<1> DEFINE yes == TRUE
<1>1. yes \in BOOLEAN /\ yes  OBVIOUS
<1>2. Flushed(v) = [v EXCEPT !.flushed = yes]  BY DEF Flushed
<1> HIDE DEF yes
<1>3. Flushed(v) \in Services /\ Flushed(v).buf = v.buf /\ Flushed(v).resp = v.resp
      /\ Flushed(v).flushed = yes
  BY <1>1, <1>2 DEF Services
<1>4. QED  BY <1>1, <1>3

LEMMA WithTextType ==
    ASSUME NEW v \in Services, NEW ps \in Seq(Pieces)
    PROVE  /\ WithText(v, ps) \in Services /\ WithText(v, ps).buf = v.buf \o ps
           /\ WithText(v, ps).resp = v.resp /\ (WithText(v, ps).flushed <=> v.flushed)
<1> DEFINE b == v.buf \o ps
<1>1. v.buf \in Seq(Pieces) /\ v.flushed \in BOOLEAN  BY DEF Services
<1>2. b \in Seq(Pieces)  BY <1>1, ConcatProperties
<1>3. WithText(v, ps) = [v EXCEPT !.buf = b]  BY DEF WithText
<1>4. b = v.buf \o ps  OBVIOUS
<1> HIDE DEF b
<1>5. WithText(v, ps) \in Services /\ WithText(v, ps).buf = b /\ WithText(v, ps).resp = v.resp
  BY <1>2, <1>3 DEF Services
<1>6. WithText(v, ps).flushed = v.flushed  BY <1>3 DEF Services
<1>7. QED  BY <1>1, <1>4, <1>5, <1>6

\* The service a cancel finds: what was sent may be flushed first.
Found(o, flush) == IF flush THEN Flushed(o.svc) ELSE o.svc

LEMMA FoundType ==
    ASSUME NEW o \in KalpaOwns, NEW flush \in BOOLEAN
    PROVE  /\ Found(o, flush) \in Services /\ Found(o, flush).buf = o.svc.buf
           /\ Found(o, flush).resp = o.svc.resp /\ Found(o, flush).resp \in Nat
           /\ (Found(o, flush).flushed <=> (o.svc.flushed \/ flush))
<1>1. o.svc \in Services /\ << >> \in Seq(Pieces)  BY KalpaType
<1>2. o.svc.flushed \in BOOLEAN /\ o.svc.resp \in Nat  BY KalpaParts
<1>3. CASE flush
  <2>1. Found(o, flush) = Flushed(o.svc)  BY <1>3 DEF Found
  <2>2. /\ Flushed(o.svc) \in Services /\ Flushed(o.svc).buf = o.svc.buf
        /\ Flushed(o.svc).resp = o.svc.resp /\ Flushed(o.svc).flushed
    BY <1>1, FlushedType
  <2>3. QED  BY <1>2, <1>3, <2>1, <2>2
<1>4. CASE ~flush
  <2>1. Found(o, flush) = o.svc  BY <1>4 DEF Found
  <2>2. QED  BY <1>1, <1>2, <1>4, <2>1
<1>5. QED  BY <1>3, <1>4

LEMMA CancellingType ==
    ASSUME NEW o \in KalpaOwns, NEW flush \in BOOLEAN
    PROVE  LET p == Cancelling(o, flush)
           IN /\ p \in KalpaOwns /\ p.svc = NoService /\ p.made \in {o.made, o.made + 1}
              /\ p.igen = o.igen /\ p.utt = o.utt /\ p.dirty = o.dirty /\ p.slot = o.slot
              /\ p.resp = o.resp /\ p.at = o.at /\ p.slotted = o.slotted
              /\ p.crossed = (o.crossed \/ (flush /\ Crosses))
              /\ KalpaTurns(p) \subseteq KalpaTurns(o)
<1> DEFINE m == IF Found(o, flush).resp = 0 /\ Found(o, flush).flushed THEN o.made + 1 ELSE o.made
           c == o.crossed \/ (flush /\ Crosses)
           p == Cancelling(o, flush)
<1>1. /\ o.made \in Nat /\ o.crossed \in BOOLEAN  BY KalpaType
<1>2. m \in Nat /\ m \in {o.made, o.made + 1} /\ c \in BOOLEAN  BY <1>1
<1>3. NoService \in Services /\ NoService.buf = << >>  BY NothingTypes
<1>4. p = [o EXCEPT !.svc = NoService, !.made = m, !.crossed = c]
  BY DEF Cancelling, Found
<1>5. c = (o.crossed \/ (flush /\ Crosses))  OBVIOUS
<1> HIDE DEF m, c, p
<1>6. /\ p \in KalpaOwns /\ p.svc = NoService /\ p.made = m
      /\ p.igen = o.igen /\ p.utt = o.utt /\ p.dirty = o.dirty /\ p.slot = o.slot
      /\ p.resp = o.resp /\ p.at = o.at /\ p.slotted = o.slotted /\ p.crossed = c
  BY <1>2, <1>3, <1>4 DEF KalpaOwns
<1>7. KalpaTurns(p) \subseteq KalpaTurns(o)
  <2>1. TurnsOf(<< >>) = {}  BY DEF TurnsOf
  <2>2. QED  BY <1>3, <1>6, <2>1, KalpaTurnsIs
<1>8. QED  BY <1>2, <1>5, <1>6, <1>7 DEF p

\* What p keeps of o, from which a cancelResponse made it.
CancelledFrom(p, o, flush) ==
    /\ p \in KalpaOwns
    /\ p.igen = o.igen /\ p.utt = o.utt /\ p.dirty = o.dirty /\ p.slot = o.slot
    /\ p.resp = o.resp /\ p.at = o.at /\ p.slotted = o.slotted
    /\ p.crossed = (o.crossed \/ (flush /\ Crosses))
    /\ KalpaTurns(p) \subseteq KalpaTurns(o)

LEMMA CancelledType ==
    ASSUME NEW o \in KalpaOwns, NEW flush \in BOOLEAN
    PROVE  CancelledFrom(Cancelling(o, flush), o, flush)
BY CancellingType DEF CancelledFrom

LEMMA CancelOutputType ==
    ASSUME NEW o \in KalpaOwns, NEW flush \in BOOLEAN
    PROVE  /\ CancelOutput(o, flush) \in
                 {<< >>, <<Done(o.svc.resp, FALSE)>>, <<Created(o.made + 1), Done(o.made + 1, FALSE)>>}
           /\ \A t : Rendering(CancelOutput(o, flush), t)
<1>1. /\ Found(o, flush).resp = o.svc.resp /\ o.svc.resp \in Nat /\ o.made \in Nat
      /\ o.made + 1 \in Nat
  BY FoundType, KalpaType, KalpaParts
<1>2. CancelOutput(o, flush) \in
         {<< >>, <<Done(o.svc.resp, FALSE)>>, <<Created(o.made + 1), Done(o.made + 1, FALSE)>>}
  <2>1. CancelOutput(o, flush) = CancelMsgs(Found(o, flush), o.made)  BY DEF CancelOutput, Found
  <2>2. CASE Found(o, flush).resp # 0  BY <1>1, <2>1, <2>2 DEF CancelMsgs
  <2>3. CASE Found(o, flush).resp = 0 /\ Found(o, flush).flushed  BY <1>1, <2>1, <2>3 DEF CancelMsgs
  <2>4. CASE Found(o, flush).resp = 0 /\ ~Found(o, flush).flushed  BY <1>1, <2>1, <2>4 DEF CancelMsgs
  <2>5. QED  BY <2>2, <2>3, <2>4
<1> DEFINE d == Done(o.svc.resp, FALSE)
           a == Created(o.made + 1)
           b == Done(o.made + 1, FALSE)
           no == FALSE
<1>3. d \in Messages /\ d.turn = 0 /\ a \in Messages /\ a.turn = 0 /\ b \in Messages /\ b.turn = 0
  <2>1. no \in BOOLEAN  OBVIOUS
  <2>2. Done(o.svc.resp, no) \in Messages /\ Done(o.svc.resp, no).turn = 0
    BY <1>1, <2>1, ServiceTypes
  <2>3. Done(o.made + 1, no) \in Messages /\ Done(o.made + 1, no).turn = 0
    BY <1>1, <2>1, ServiceTypes
  <2>4. Created(o.made + 1) \in Messages /\ Created(o.made + 1).turn = 0
    BY <1>1, <2>1, ServiceTypes
  <2>5. QED  BY <2>2, <2>3, <2>4
<1>4. CancelOutput(o, flush) \in {<< >>, <<d>>, <<a, b>>}  BY <1>2
<1> HIDE DEF d, a, b
<1>5. <<d>> \in Seq(Messages) /\ <<a, b>> \in Seq(Messages) /\ << >> \in Seq(Messages)
  BY <1>3
<1>6. /\ \A k \in DOMAIN <<d>> : <<d>>[k].turn = 0
      /\ \A k \in DOMAIN <<a, b>> : <<a, b>>[k] = a \/ <<a, b>>[k] = b
  BY <1>3
<1>7. ASSUME NEW t PROVE Rendering(CancelOutput(o, flush), t)
  <2>1. CASE CancelOutput(o, flush) = << >>  BY <2>1, RenderingEmpty
  <2>2. CASE CancelOutput(o, flush) = <<d>>  BY <1>5, <1>6, <2>2 DEF Rendering
  <2>3. CASE CancelOutput(o, flush) = <<a, b>>
    <3>1. \A k \in DOMAIN <<a, b>> : <<a, b>>[k].turn \in {0, t}  BY <1>3, <1>6
    <3>2. QED  BY <1>5, <2>3, <3>1 DEF Rendering
  <2>4. QED  BY <1>4, <2>1, <2>2, <2>3
<1>8. QED  BY <1>2, <1>7

LEMMA WireGrows ==
    ASSUME TypeInv, NEW t \in Flying \cup {0}, NEW r, Rendering(r, t), wire' = wire \o r
    PROVE  wire' \in Seq(Messages) /\ WireFrom
<1>1. wire \in Seq(Messages)  BY DEF TypeInv
<1>2. wire \o r \in Seq(Messages) /\ TurnsFrom(wire \o r, wire, t)  BY <1>1, ConcatTurns
<1>3. ASSUME NEW k \in DOMAIN (wire \o r) PROVE (wire \o r)[k].turn \in Flying \cup {0}
  <2>1. CASE (wire \o r)[k].turn \in {0, t}  BY <2>1
  <2>2. CASE \E j \in DOMAIN wire : (wire \o r)[k] = wire[j]
    <3>1. PICK j \in DOMAIN wire : (wire \o r)[k] = wire[j]  BY <2>2
    <3>2. QED  BY <3>1, FlyingHas
  <2>3. QED  BY <1>2, <2>1, <2>2 DEF TurnsFrom
<1>4. QED  BY <1>2, <1>3 DEF WireFrom

LEMMA KalpaOwnType == ASSUME TypeInv, tts = "kalpa" PROVE own \in KalpaOwns /\ KalpaTurns(own) \subseteq Flying
BY FlyingHas DEF TypeInv, Owns

LEMMA ServesStep ==
    ASSUME TypeInv, tts = "kalpa", NEW v \in Services, NEW m \in Nat, NEW t \in Flying \cup {0},
           NEW r, Rendering(r, t), Serves(v, m, r), TurnsOf(v.buf) \subseteq Flying,
           link' \in Sockets, link'.n = link.n
    PROVE  TypeInv' /\ Onward
<1>1. /\ own' = [own EXCEPT !.svc = v, !.made = m] /\ wire' = wire \o r
      /\ UNCHANGED <<tts, pipe, base, senders, said>>
  BY DEF Serves
<1>2. own \in KalpaOwns /\ KalpaTurns(own) \subseteq Flying  BY KalpaOwnType
<1>3. own' \in KalpaOwns /\ own'.svc = v /\ own'.utt = own.utt  BY <1>1, <1>2 DEF KalpaOwns
<1>4. KalpaTurns(own') \subseteq Flying  BY <1>2, <1>3, KalpaTurnsIs
<1>5. wire' \in Seq(Messages) /\ WireFrom  BY <1>1, WireGrows
<1>6. /\ senders' \in Seq(Senders) /\ pipe' \in Calling /\ base' \in Bases /\ said' \in Verdicts
      /\ base'.sock <= link'.n
  BY <1>1 DEF TypeInv
<1>7. SendersFrom /\ SameCall /\ SameLabels /\ NoNewWrong
  BY <1>1, SameSenders, StillCall, StillLabels, StillSaid
<1>8. QED  BY <1>1, <1>3, <1>4, <1>5, <1>6, <1>7, KalpaShape

LEMMA RenderStep ==
    ASSUME TypeInv, Render
    PROVE  TypeInv' /\ Onward
<1>1. tts = "kalpa" /\ UNCHANGED link  BY DEF Render, OnKalpa
<1>2. link' \in Sockets /\ link'.n = link.n  BY <1>1 DEF TypeInv
<1>3. /\ own \in KalpaOwns /\ own.svc \in Services /\ own.svc.buf \in Seq(Pieces) /\ own.made \in Nat
      /\ own.made + 1 \in Nat /\ own.svc.resp \in Nat /\ TurnsOf(own.svc.buf) \subseteq Flying
  BY <1>1, KalpaOwnType, KalpaType, KalpaParts, KalpaTurnsIs
<1> DEFINE v == own.svc
           m == own.made + 1
           yes == TRUE
<1>0. yes \in BOOLEAN  OBVIOUS
<1>4. CASE Serves([v EXCEPT !.resp = m], m, <<Created(m)>>)
  <2>1. Created(m) \in Messages /\ Created(m).turn = 0  BY <1>0, <1>3, ServiceTypes
  <2>2. Rendering(<<Created(m)>>, 0)  BY <2>1, RenderingOne
  <2> HIDE DEF m
  <2>3. m \in Nat  BY <1>3 DEF m
  <2>4. [v EXCEPT !.resp = m] \in Services /\ [v EXCEPT !.resp = m].buf = v.buf
    BY <1>3, <2>3 DEF Services
  <2> DEFINE u == [v EXCEPT !.resp = m]
  <2>5. u \in Services /\ TurnsOf(u.buf) \subseteq Flying  BY <1>3, <2>4
  <2>6. Serves(u, m, <<Created(m)>>)  BY <1>4
  <2> HIDE DEF u
  <2>7. QED  BY <1>1, <1>2, <2>2, <2>3, <2>5, <2>6, ServesStep
<1>5. CASE /\ v.buf # << >>
           /\ Serves([v EXCEPT !.buf = Tail(v.buf)], own.made,
                     <<Audio(Head(v.buf)[1], Head(v.buf)[2], v.resp)>>)
  <2>1. /\ Tail(v.buf) \in Seq(Pieces) /\ TurnsOf(Tail(v.buf)) \subseteq TurnsOf(v.buf)
        /\ Head(v.buf) \in Pieces /\ Head(v.buf)[1] \in TurnsOf(v.buf)
    BY <1>3, <1>5, TurnsOfTail
  <2> DEFINE q == Tail(v.buf)
             u == [v EXCEPT !.buf = q]
             t == Head(v.buf)[1]
             x == Audio(t, Head(v.buf)[2], v.resp)
  <2>2. t \in Turns /\ Head(v.buf)[2] \in Parts /\ t \in Flying  BY <1>3, <2>1, PieceType
  <2>3. x \in Messages /\ x.turn = t  BY <1>3, <2>2, AudioType
  <2>4. Serves(u, own.made, <<x>>)  BY <1>5
  <2> HIDE DEF x, t
  <2>5. Rendering(<<x>>, t)  BY <2>3, RenderingOne
  <2>6. q \in Seq(Pieces) /\ TurnsOf(q) \subseteq Flying  BY <1>3, <2>1
  <2> HIDE DEF q
  <2>7. u \in Services /\ u.buf = q  BY <1>3, <2>6 DEF Services
  <2> HIDE DEF u
  <2>8. QED  BY <1>1, <1>2, <1>3, <2>2, <2>4, <2>5, <2>6, <2>7, ServesStep
<1>6. CASE Serves(NoService, own.made, <<Done(v.resp, TRUE)>>)
  <2>1. Done(v.resp, yes) \in Messages /\ Done(v.resp, yes).turn = 0  BY <1>0, <1>3, ServiceTypes
  <2>2. Rendering(<<Done(v.resp, yes)>>, 0)  BY <2>1, RenderingOne
  <2>3. NoService \in Services /\ TurnsOf(NoService.buf) \subseteq Flying
    BY NothingTypes DEF TurnsOf
  <2>4. Serves(NoService, own.made, <<Done(v.resp, yes)>>)  BY <1>6
  <2> HIDE DEF yes
  <2>5. QED  BY <1>1, <1>2, <1>3, <2>2, <2>3, <2>4, ServesStep
<1>7. QED  BY <1>4, <1>5, <1>6 DEF Render

LEMMA ServiceFailsStep ==
    ASSUME TypeInv, ServiceFails
    PROVE  TypeInv' /\ Onward
<1>1. /\ tts = "kalpa" /\ link' = [link EXCEPT !.lost = @ + 1]
      /\ Serves(NoService, own.made, <<Failed(own.svc.resp)>>)
  BY DEF ServiceFails, OnKalpa
<1>2. own.made \in Nat /\ own.svc.resp \in Nat  BY <1>1, KalpaOwnType, KalpaType, KalpaParts
<1>3. NoService \in Services /\ TurnsOf(NoService.buf) \subseteq Flying
  BY NothingTypes DEF TurnsOf
<1> DEFINE yes == TRUE
<1>0. yes \in BOOLEAN  OBVIOUS
<1>4. Failed(own.svc.resp) \in Messages /\ Failed(own.svc.resp).turn = 0
  BY <1>0, <1>2, ServiceTypes
<1>5. Rendering(<<Failed(own.svc.resp)>>, 0)  BY <1>4, RenderingOne
<1> DEFINE k == link.lost + 1
<1>6. link' \in Sockets /\ link'.n = link.n
  <2>1. link \in Sockets  BY DEF TypeInv
  <2>2. k \in Nat  BY <2>1 DEF Sockets
  <2>3. link' = [link EXCEPT !.lost = k]  BY <1>1
  <2> HIDE DEF k
  <2>4. QED  BY <2>1, <2>2, <2>3 DEF Sockets
<1>7. QED  BY <1>1, <1>2, <1>3, <1>5, <1>6, ServesStep

LEMMA UtteranceDead ==
    ASSUME NEW u \in Utterances, NEW d \in BOOLEAN
    PROVE  /\ [u EXCEPT !.dead = d] \in Utterances /\ [u EXCEPT !.dead = d].chunks = u.chunks
           /\ [u EXCEPT !.dead = d].turn = u.turn /\ [u EXCEPT !.dead = d].conn = u.conn
           /\ [u EXCEPT !.dead = d].dead = d
BY DEF Utterances

LEMMA KalpaPushStep ==
    ASSUME TypeInv, Pushes, tts = "kalpa"
    PROVE  TypeInv' /\ Asks
<1>0. own \in KalpaOwns /\ KalpaTurns(own) \subseteq Flying /\ own.igen \in Nat /\ own.dirty \in Nat
      /\ own.utt \in Utterances /\ link.n \in Nat
  BY KalpaOwnType, KalpaType DEF TypeInv, Sockets
<1>1. (IF pipe.turn \in Pairs /\ pipe.left = 1 THEN EndTexts ELSE {TRUE}) \subseteq BOOLEAN
  BY SynthesizerAssumption
<1>2. Push(TRUE, KalpaPush, own.igen)  BY DEF Pushes
<1>3. Asked(TRUE, own.igen) /\ own' = KalpaPush(pipe.left = 1)  BY <1>1, <1>2 DEF Push, Asked
<1> DEFINE yes == TRUE
           u == [own.utt EXCEPT !.dead = yes]
           d == IF own.utt.chunks # << >> /\ own.utt.conn = link.n THEN link.n ELSE own.dirty
<1>4. own' \in {own, [own EXCEPT !.utt = u, !.dirty = d]}  BY <1>3 DEF KalpaPush
<1>5. d \in Nat /\ yes \in BOOLEAN  BY <1>0
<1> HIDE DEF yes, d
<1>6. u \in Utterances /\ u.chunks = own.utt.chunks  BY <1>0, <1>5, UtteranceDead
<1> HIDE DEF u
<1>7. /\ [own EXCEPT !.utt = u, !.dirty = d] \in KalpaOwns
      /\ [own EXCEPT !.utt = u, !.dirty = d].utt = u /\ [own EXCEPT !.utt = u, !.dirty = d].svc = own.svc
  BY <1>0, <1>5, <1>6 DEF KalpaOwns
<1>8. own' \in KalpaOwns /\ own'.svc = own.svc /\ own'.utt.chunks = own.utt.chunks
  BY <1>0, <1>4, <1>6, <1>7
<1>9. KalpaTurns(own') \subseteq Flying  BY <1>0, <1>8, KalpaTurnsIs
<1>10. own' \in Owns  BY <1>8 DEF Owns
<1> DEFINE stamps == TRUE
<1>11. stamps \in BOOLEAN /\ stamps /\ Asked(stamps, own.igen)  BY <1>3
<1> HIDE DEF stamps
<1>12. QED  BY <1>0, <1>9, <1>10, <1>11, AskedStep

LEMMA SlotGone ==
    ASSUME NEW s \in SlotStates, NEW g \in BOOLEAN
    PROVE  /\ [s EXCEPT !.gone = g] \in SlotStates /\ [s EXCEPT !.gone = g].idle = s.idle
           /\ [s EXCEPT !.gone = g].slot = s.slot /\ [s EXCEPT !.gone = g].gone = g
BY DEF SlotStates

\* What an interruption leaves of Kalpa's state.
LEMMA KalpaInterruptStep ==
    ASSUME TypeInv, KalpaInterrupt
    PROVE  /\ TypeInv' /\ Barges /\ tts = "kalpa"
           /\ own'.igen = own.igen + 1 /\ own'.utt = NoUtterance /\ own'.dirty = 0
           /\ own'.slot.idle = own.slot.idle /\ own'.slot.slot = own.slot.slot
           /\ ~own.slot.idle => own'.slot.gone
           /\ own'.resp = own.resp /\ own'.at = own.at /\ own'.slotted = own.slotted
           /\ own'.crossed \/ ~own.crossed
<1>0. own \in KalpaOwns /\ KalpaTurns(own) \subseteq Flying /\ own.igen + 1 \in Nat
      /\ own.slot \in SlotStates /\ own.slot.idle \in BOOLEAN /\ own.slot.gone \in BOOLEAN
      /\ tts = "kalpa"
  BY KalpaOwnType, KalpaType, KalpaParts DEF KalpaInterrupt
<1> DEFINE g == own.slot.gone \/ ~own.slot.idle
           s == [own.slot EXCEPT !.gone = g]
           i == own.igen + 1
           z == 0
           o == [own EXCEPT !.igen = i, !.utt = NoUtterance, !.dirty = z, !.slot = s]
           flush == /\ ~own.slot.idle /\ own.resp.rid = 0
                    /\ own.utt.turn # 0 /\ ~own.utt.dead
           no == FALSE
<1>1. /\ pipe' = CutPipe /\ base' = [base EXCEPT !.open = no] /\ UNCHANGED <<tts, link, senders, said>>
      /\ \/ own' = Cancelling(o, flush) /\ wire' = wire \o CancelOutput(o, flush)
         \/ own' = o /\ UNCHANGED wire
  BY DEF KalpaInterrupt
<1>2. g \in BOOLEAN /\ flush \in BOOLEAN /\ i \in Nat /\ i = own.igen + 1 /\ z \in Nat /\ z = 0
      /\ no \in BOOLEAN /\ ~no /\ (no => base.open) /\ (~own.slot.idle => g)
  BY <1>0
<1>3. NoUtterance \in Utterances /\ NoUtterance.chunks = << >>  BY NothingTypes
<1> HIDE DEF g, i, z, flush, no
<1>4. s \in SlotStates /\ s.idle = own.slot.idle /\ s.slot = own.slot.slot /\ s.gone = g
  BY <1>0, <1>2, SlotGone
<1> HIDE DEF s
<1>5. /\ o \in KalpaOwns /\ o.igen = i /\ o.utt = NoUtterance /\ o.dirty = z /\ o.slot = s
      /\ o.resp = own.resp /\ o.at = own.at /\ o.slotted = own.slotted /\ o.svc = own.svc
      /\ o.crossed = own.crossed
  BY <1>0, <1>2, <1>3, <1>4 DEF KalpaOwns
<1>6. KalpaTurns(o) \subseteq Flying
  <2>1. TurnsOf(<< >>) = {}  BY DEF TurnsOf
  <2>2. TurnsOf(own.svc.buf) \subseteq Flying  BY <1>0, KalpaTurnsIs
  <2>3. QED  BY <1>3, <1>5, <2>1, <2>2, KalpaTurnsIs
<1> HIDE DEF o
<1>7. /\ own' \in KalpaOwns /\ own'.igen = i /\ own'.utt = NoUtterance /\ own'.dirty = z
      /\ own'.slot = s /\ own'.resp = own.resp /\ own'.at = own.at /\ own'.slotted = own.slotted
      /\ own'.crossed \/ ~own.crossed
      /\ KalpaTurns(own') \subseteq KalpaTurns(o)
  <2>1. CASE own' = o  BY <1>5, <2>1
  <2>2. CASE own' = Cancelling(o, flush)
    <3>1. CancelledFrom(Cancelling(o, flush), o, flush)  BY <1>2, <1>5, CancelledType
    <3>2. QED  BY <1>5, <2>2, <3>1 DEF CancelledFrom
  <2>3. QED  BY <1>1, <2>1, <2>2
<1>8. wire' \in Seq(Messages) /\ WireFrom
  <2>1. CASE UNCHANGED wire  BY <2>1, SameWire
  <2>2. CASE wire' = wire \o CancelOutput(o, flush)
    <3>1. Rendering(CancelOutput(o, flush), 0)  BY <1>2, <1>5, CancelOutputType
    <3>2. QED  BY <2>2, <3>1, WireGrows
  <2>3. QED  BY <1>1, <2>1, <2>2
<1>9. Closed(base') /\ base'.open = no  BY <1>1, <1>2, ClosedBase DEF TypeInv
<1>10. own' \in Owns  BY <1>0, <1>7 DEF Owns
<1>11. link' \in Sockets /\ link'.n = link.n  BY <1>1 DEF TypeInv
<1>12. TypeInv' /\ Barges
  BY <1>0, <1>1, <1>2, <1>6, <1>7, <1>8, <1>9, <1>10, <1>11, BargeShape
<1>13. QED  BY <1>0, <1>2, <1>4, <1>7, <1>12

---------------------------------------------------------------------------
\* The holder of the lock writes.

LEMMA KalpaStartsStep ==
    ASSUME TypeInv, tts = "kalpa", NEW i \in DOMAIN senders, KalpaStarts(i)
    PROVE  TypeInv' /\ Onward
<1>1. UNCHANGED <<tts, pipe, base, link, own, wire, said>>  BY DEF KalpaStarts
<1>2. senders' \in Seq(Senders) /\ SendersFrom
  <2>1. CASE senders' = Without(i)  BY <2>1, FewerSenders DEF TypeInv
  <2>2. CASE senders' = [senders EXCEPT ![i].waits = TRUE]  BY <2>2, WaitingSender DEF TypeInv
  <2>3. QED  BY <2>1, <2>2 DEF KalpaStarts
<1>3. TypeInv'  BY <1>1, <1>2 DEF TypeInv, Owns
<1>4. WireFrom  BY <1>1, FlyingHas DEF WireFrom
<1>5. Flying' \subseteq Flying \cup {0}  BY <1>1, <1>2, <1>4, FlyingFewer, FlyingHas
<1>6. SameContext  BY <1>1 DEF SameContext
<1>7. QED  BY <1>1, <1>3, <1>5, <1>6, StillLabels, StillSaid, StillCall DEF Onward

NewPiece == IF own.at = "text" THEN <<<<Me.turn, Me.part>>>> ELSE << >>
AllPieces(o) == o.utt.chunks \o NewPiece
Sent(o, replay) == IF replay THEN AllPieces(o) ELSE NewPiece
Fed(o, replay) ==
    IF own.at = "end" THEN Flushed(WithText(o.svc, Sent(o, replay)))
    ELSE WithText(o.svc, Sent(o, replay))

LEMMA SentType ==
    ASSUME TypeInv, Holding, NEW o \in KalpaOwns, NEW replay \in BOOLEAN, KalpaTurns(o) \subseteq Flying
    PROVE  /\ NewPiece \in Seq(Pieces) /\ TurnsOf(NewPiece) \subseteq {Me.turn}
           /\ AllPieces(o) \in Seq(Pieces) /\ TurnsOf(AllPieces(o)) \subseteq Flying
           /\ Sent(o, replay) \in Seq(Pieces) /\ TurnsOf(Sent(o, replay)) \subseteq Flying
           /\ Fed(o, replay) \in Services /\ Fed(o, replay).buf = o.svc.buf \o Sent(o, replay)
           /\ Fed(o, replay).resp = o.svc.resp
           /\ Fed(o, replay).flushed <=> (o.svc.flushed \/ own.at = "end")
           /\ TurnsOf(Fed(o, replay).buf) \subseteq Flying
<1>1. /\ Me.turn \in Turns /\ Me.part \in Parts /\ Me.turn \in Flying  BY MeType
<1>2. /\ o.utt.chunks \in Seq(Pieces) /\ o.svc \in Services /\ o.svc.buf \in Seq(Pieces)
      /\ o.svc.flushed \in BOOLEAN
      /\ TurnsOf(o.utt.chunks) \subseteq Flying /\ TurnsOf(o.svc.buf) \subseteq Flying
  BY KalpaType, KalpaParts, KalpaTurnsIs
<1>3. NewPiece \in Seq(Pieces) /\ TurnsOf(NewPiece) \subseteq {Me.turn}
  <2> DEFINE x == <<Me.turn, Me.part>>
  <2>1. x \in Pieces /\ x[1] = Me.turn  BY <1>1 DEF Pieces
  <2>2. NewPiece = IF own.at = "text" THEN <<x>> ELSE << >>  BY DEF NewPiece
  <2> HIDE DEF x
  <2>3. <<x>> \in Seq(Pieces) /\ TurnsOf(<<x>>) = {x[1]} /\ TurnsOf(<< >>) = {}
    BY <2>1, TurnsOfOne
  <2>4. << >> \in Seq(Pieces)  OBVIOUS
  <2>5. QED  BY <2>1, <2>2, <2>3, <2>4
<1>4. AllPieces(o) \in Seq(Pieces) /\ TurnsOf(AllPieces(o)) \subseteq Flying
  BY <1>1, <1>2, <1>3, TurnsOfConcat DEF AllPieces
<1>5. Sent(o, replay) \in Seq(Pieces) /\ TurnsOf(Sent(o, replay)) \subseteq Flying
  BY <1>1, <1>3, <1>4 DEF Sent
<1> DEFINE w == WithText(o.svc, Sent(o, replay))
<1>6. /\ w \in Services /\ w.buf = o.svc.buf \o Sent(o, replay) /\ w.resp = o.svc.resp
      /\ w.flushed <=> o.svc.flushed
  BY <1>2, <1>5, WithTextType
<1>7. /\ Flushed(w) \in Services /\ Flushed(w).buf = w.buf /\ Flushed(w).resp = w.resp /\ Flushed(w).flushed
  BY <1>5, <1>6, FlushedType
<1>8. Fed(o, replay) = IF own.at = "end" THEN Flushed(w) ELSE w  BY DEF Fed
<1> HIDE DEF w
<1>9. TurnsOf(o.svc.buf \o Sent(o, replay)) \subseteq Flying  BY <1>2, <1>5, TurnsOfConcat
<1>10. CASE own.at = "end"
  <2>1. Fed(o, replay) = Flushed(w)  BY <1>8, <1>10
  <2>2. QED  BY <1>3, <1>4, <1>5, <1>6, <1>7, <1>9, <1>10, <2>1
<1>11. CASE own.at # "end"
  <2>1. Fed(o, replay) = w  BY <1>8, <1>11
  <2>2. QED  BY <1>3, <1>4, <1>5, <1>6, <1>9, <1>11, <2>1
<1>12. QED  BY <1>10, <1>11

\* What was sent was played already, and what was sent joined another turn's text.
Repeats(o, replay) ==
    \E k \in DOMAIN Sent(o, replay) : Sent(o, replay)[k][2] \in said.parts[Sent(o, replay)[k][1]]
Joins(o) == link.ws = "open" /\ \E k \in DOMAIN o.svc.buf : o.svc.buf[k][1] # Me.turn

LEMMA WritesType ==
    ASSUME TypeInv, tts = "kalpa", Holding, NEW STATE o, NEW STATE replay, o \in KalpaOwns,
           replay \in BOOLEAN, KalpaTurns(o) \subseteq Flying, Writes(o, replay)
    PROVE  /\ own' \in KalpaOwns /\ KalpaTurns(own') \subseteq Flying
           /\ own'.igen = o.igen /\ own'.dirty = o.dirty /\ own'.slot = o.slot
           /\ own'.resp = o.resp /\ own'.made = o.made /\ ~own'.slotted
           /\ own'.crossed = (o.crossed \/ (link.ws = "open" /\ Crosses))
           /\ own'.svc = IF link.ws = "open" THEN Fed(o, replay) ELSE o.svc
           /\ own.at = "end" => own'.utt = NoUtterance /\ own'.at = "text" /\ senders' = Tail(senders)
           /\ own.at = "text" => /\ own'.utt = [o.utt EXCEPT !.chunks = AllPieces(o)]
                                 /\ \/ Me.last /\ own'.at = "end" /\ senders' = senders
                                    \/ ~Me.last /\ own'.at = "text" /\ senders' = Tail(senders)
           /\ senders' \in Seq(Senders) /\ SendersFrom
           /\ Flags(base') /\ base'.sock = base.sock
           /\ said' \in Verdicts /\ said'.mute = said.mute /\ said'.foreign = said.foreign
           /\ said'.clipped = said.clipped /\ said'.parts = said.parts
           /\ said'.again => said.again \/ Repeats(o, replay)
           /\ said'.mixed => said.mixed \/ Joins(o)
<1> DEFINE all == AllPieces(o)
           v == IF link.ws = "open" THEN Fed(o, replay) ELSE o.svc
           c == o.crossed \/ (link.ws = "open" /\ Crosses)
           u == [o.utt EXCEPT !.chunks = all]
           p == [o EXCEPT !.utt.chunks = all, !.svc = v, !.crossed = c]
           l == base.last \/ own.at = "end"
           again == said.again \/ Repeats(o, replay)
           mixed == said.mixed \/ Joins(o)
<1>0. /\ o.utt \in Utterances /\ o.svc \in Services /\ o.crossed \in BOOLEAN /\ own \in KalpaOwns
      /\ own.at \in {"text", "end"} /\ senders \in Seq(Senders) /\ senders # << >>
      /\ base \in Bases /\ said \in Verdicts /\ 1 \in DOMAIN senders
      /\ o.utt.chunks \in Seq(Pieces) /\ o.svc.buf \in Seq(Pieces)
  BY KalpaOwnType, KalpaType, KalpaParts, MeType DEF TypeInv
<1>1. /\ IF own.at = "end" THEN LetsGo([p EXCEPT !.utt = NoUtterance]) ELSE TextDone(p)
      /\ base' = [base EXCEPT !.last = l]
      /\ said' = [Given(said, 1) EXCEPT !.again = again, !.mixed = Given(said, 1).mixed \/ Joins(o)]
  <2>1. /\ Joins(o) = ({k \in DOMAIN o.svc.buf : o.svc.buf[k][1] # Me.turn} # {} /\ link.ws = "open")
        /\ Repeats(o, replay) =
              ({k \in DOMAIN Sent(o, replay) :
                  Sent(o, replay)[k][2] \in said.parts[Sent(o, replay)[k][1]]} # {})
    BY DEF Joins, Repeats
  <2>2. QED  BY <2>1 DEF Writes, Fed, Sent, AllPieces, NewPiece
<1>2. /\ all \in Seq(Pieces) /\ TurnsOf(all) \subseteq Flying /\ v \in Services
      /\ TurnsOf(v.buf) \subseteq Flying
  <2>1. TurnsOf(o.svc.buf) \subseteq Flying  BY KalpaTurnsIs
  <2>2. QED  BY <1>0, <2>1, SentType
<1>3. c \in BOOLEAN /\ l \in BOOLEAN /\ again \in BOOLEAN /\ mixed \in BOOLEAN
  BY <1>0 DEF Verdicts
<1>4. c = (o.crossed \/ (link.ws = "open" /\ Crosses))  OBVIOUS
<1>5. v = IF link.ws = "open" THEN Fed(o, replay) ELSE o.svc  OBVIOUS
<1>6. all = AllPieces(o)  OBVIOUS
<1>6a. (again => said.again \/ Repeats(o, replay)) /\ (mixed => said.mixed \/ Joins(o))  OBVIOUS
<1>7. p = [o EXCEPT !.utt = u, !.svc = v, !.crossed = c]  OBVIOUS
<1> HIDE DEF c, l, v, all, p
<1>8. u \in Utterances /\ u.chunks = all  BY <1>0, <1>2 DEF Utterances
<1>8a. u = [o.utt EXCEPT !.chunks = all]  OBVIOUS
<1> HIDE DEF u
<1>9. /\ p \in KalpaOwns /\ p.utt = u /\ p.svc = v /\ p.crossed = c /\ p.igen = o.igen
      /\ p.dirty = o.dirty /\ p.slot = o.slot /\ p.resp = o.resp /\ p.made = o.made
  BY <1>2, <1>3, <1>7, <1>8 DEF KalpaOwns
<1>10. /\ own' \in KalpaOwns /\ own'.igen = o.igen /\ own'.dirty = o.dirty /\ own'.slot = o.slot
       /\ own'.resp = o.resp /\ own'.made = o.made /\ ~own'.slotted
       /\ own'.crossed = c /\ own'.svc = v
       /\ own.at = "end" => own'.utt = NoUtterance /\ own'.at = "text" /\ senders' = Tail(senders)
       /\ own.at = "text" => /\ own'.utt = u
                             /\ \/ Me.last /\ own'.at = "end" /\ senders' = senders
                                \/ ~Me.last /\ own'.at = "text" /\ senders' = Tail(senders)
  <2>1. CASE own.at = "end"
    <3> DEFINE q == [p EXCEPT !.utt = NoUtterance]
    <3>1. /\ q \in KalpaOwns /\ q.utt = NoUtterance /\ q.svc = v /\ q.crossed = c /\ q.igen = o.igen
          /\ q.dirty = o.dirty /\ q.slot = o.slot /\ q.resp = o.resp /\ q.made = o.made
      BY <1>9, NothingTypes DEF KalpaOwns
    <3>2. LetsGo(q)  BY <1>1, <2>1
    <3> HIDE DEF q
    <3>3. own' \in KalpaOwns /\ Alike(own', q) /\ own'.at = "text" /\ ~own'.slotted /\ senders' = Tail(senders)
      BY <3>1, <3>2, LetsGoType
    <3>4. QED  BY <2>1, <3>1, <3>3 DEF Alike
  <2>2. CASE own.at # "end"
    <3>1. TextDone(p)  BY <1>1, <2>2
    <3>2. /\ own' \in KalpaOwns /\ Alike(own', p) /\ ~own'.slotted
          /\ \/ Me.last /\ own'.at = "end" /\ senders' = senders
             \/ ~Me.last /\ own'.at = "text" /\ senders' = Tail(senders)
      BY <1>9, <3>1, TextDoneType
    <3>3. QED  BY <1>9, <2>2, <3>2 DEF Alike
  <2>3. QED  BY <2>1, <2>2
<1>11. KalpaTurns(own') \subseteq Flying
  <2>1. own'.utt.chunks \in {<< >>, all}  BY <1>0, <1>8, <1>10, NothingTypes
  <2>2. TurnsOf(<< >>) = {}  BY DEF TurnsOf
  <2>3. TurnsOf(own'.utt.chunks) \subseteq Flying  BY <1>2, <2>1, <2>2
  <2>4. QED  BY <1>2, <1>10, <2>3, KalpaTurnsIs
<1>12. senders' \in Seq(Senders) /\ SendersFrom  BY <1>0, <1>10, TailFrom
<1>13. Flags(base') /\ base'.sock = base.sock  BY <1>0, <1>1, <1>3, LastFlags
<1>14. /\ said' \in Verdicts /\ said'.mute = said.mute /\ said'.foreign = said.foreign
       /\ said'.clipped = said.clipped /\ said'.parts = said.parts
       /\ said'.again = again /\ said'.mixed = mixed
  <2> DEFINE g == Given(said, 1)
  <2>1. /\ g \in Verdicts /\ g.parts = said.parts /\ g.foreign = said.foreign
        /\ g.mute = said.mute /\ g.clipped = said.clipped /\ g.mixed = said.mixed
    BY <1>0, GivenType
  <2>2. said' = [g EXCEPT !.again = again, !.mixed = mixed]
    <3>1. said' = [g EXCEPT !.again = again, !.mixed = g.mixed \/ Joins(o)]  BY <1>1
    <3>2. QED  BY <2>1, <3>1
  <2> HIDE DEF g, again, mixed
  <2>3. QED  BY <1>3, <2>1, <2>2 DEF Verdicts
<1> HIDE DEF again, mixed
<1>15. (said'.again => said.again \/ Repeats(o, replay)) /\ (said'.mixed => said.mixed \/ Joins(o))
  BY <1>6a, <1>14
<1>16. QED  BY <1>4, <1>5, <1>6, <1>8a, <1>10, <1>11, <1>12, <1>13, <1>14, <1>15

---------------------------------------------------------------------------
\* The slot is taken, awaited or cancelled.

Mine(o) == IF o.utt.turn = Me.turn THEN o.utt ELSE [NoUtterance EXCEPT !.turn = Me.turn]
Retaken(o) == [o EXCEPT !.utt = Mine(o), !.dirty = IF Wipes(o) THEN 0 ELSE o.dirty]
TakenSlot == [idle |-> FALSE, slot |-> Me.turn, gone |-> FALSE]
Taken(o) ==
    [(IF Wipes(o) THEN Cancelling(Retaken(o), FALSE) ELSE Retaken(o))
        EXCEPT !.utt.conn = link.n, !.slot = TakenSlot]

LEMMA MineType ==
    ASSUME NEW o \in KalpaOwns, Me.turn \in 0..MaxTurn
    PROVE  /\ Mine(o) \in Utterances /\ Mine(o).turn = Me.turn
           /\ o.utt.turn = Me.turn => Mine(o) = o.utt
           /\ o.utt.turn # Me.turn => Mine(o).chunks = << >> /\ ~Mine(o).dead
           /\ Mine(o).chunks \in {<< >>, o.utt.chunks}
<1>1. CASE o.utt.turn = Me.turn
  <2>1. Mine(o) = o.utt  BY <1>1 DEF Mine
  <2>2. o.utt \in Utterances  BY KalpaType
  <2>3. QED  BY <1>1, <2>1, <2>2
<1>2. CASE o.utt.turn # Me.turn
  <2>1. Mine(o) = [NoUtterance EXCEPT !.turn = Me.turn]  BY <1>2 DEF Mine
  <2>2. NoUtterance \in Utterances /\ NoUtterance.chunks = << >> /\ ~NoUtterance.dead
    BY NothingTypes
  <2>3. [NoUtterance EXCEPT !.turn = Me.turn] \in Utterances
        /\ [NoUtterance EXCEPT !.turn = Me.turn].turn = Me.turn
        /\ [NoUtterance EXCEPT !.turn = Me.turn].chunks = NoUtterance.chunks
        /\ [NoUtterance EXCEPT !.turn = Me.turn].dead = NoUtterance.dead
    BY <2>2 DEF Utterances
  <2>4. QED  BY <1>2, <2>1, <2>2, <2>3
<1>3. QED  BY <1>1, <1>2

LEMMA RetakenType ==
    ASSUME NEW o \in KalpaOwns, Me.turn \in 0..MaxTurn
    PROVE  /\ Retaken(o) \in KalpaOwns /\ Retaken(o).utt = Mine(o)
           /\ Retaken(o).dirty = (IF Wipes(o) THEN 0 ELSE o.dirty)
           /\ Retaken(o).igen = o.igen /\ Retaken(o).slot = o.slot /\ Retaken(o).resp = o.resp
           /\ Retaken(o).at = o.at /\ Retaken(o).slotted = o.slotted /\ Retaken(o).svc = o.svc
           /\ Retaken(o).made = o.made /\ Retaken(o).crossed = o.crossed
           /\ KalpaTurns(Retaken(o)) \subseteq KalpaTurns(o)
<1> DEFINE d == IF Wipes(o) THEN 0 ELSE o.dirty
           u == Mine(o)
<1>1. o.dirty \in Nat  BY KalpaType
<1>2. d \in Nat  BY <1>1
<1>3. u \in Utterances /\ u.chunks \in {<< >>, o.utt.chunks}  BY MineType
<1>4. Retaken(o) = [o EXCEPT !.utt = u, !.dirty = d]  BY DEF Retaken
<1>5. d = IF Wipes(o) THEN 0 ELSE o.dirty  OBVIOUS
<1> HIDE DEF d, u
<1>6. /\ Retaken(o) \in KalpaOwns /\ Retaken(o).utt = u /\ Retaken(o).dirty = d
      /\ Retaken(o).igen = o.igen /\ Retaken(o).slot = o.slot /\ Retaken(o).resp = o.resp
      /\ Retaken(o).at = o.at /\ Retaken(o).slotted = o.slotted /\ Retaken(o).svc = o.svc
      /\ Retaken(o).made = o.made /\ Retaken(o).crossed = o.crossed
  BY <1>2, <1>3, <1>4 DEF KalpaOwns
<1>7. TurnsOf(<< >>) = {}  BY DEF TurnsOf
<1>8. KalpaTurns(Retaken(o)) \subseteq KalpaTurns(o)  BY <1>3, <1>6, <1>7, KalpaTurnsIs
<1>9. QED  BY <1>5, <1>6, <1>8 DEF u

LEMMA TakenType ==
    ASSUME NEW o \in KalpaOwns, Me.turn \in 0..MaxTurn, link.n \in Nat
    PROVE  /\ Taken(o) \in KalpaOwns /\ Taken(o).utt = [Mine(o) EXCEPT !.conn = link.n]
           /\ Taken(o).dirty = (IF Wipes(o) THEN 0 ELSE o.dirty) /\ Taken(o).slot = TakenSlot
           /\ Taken(o).igen = o.igen /\ Taken(o).resp = o.resp
           /\ Taken(o).at = o.at /\ Taken(o).slotted = o.slotted
           /\ Taken(o).svc = (IF Wipes(o) THEN NoService ELSE o.svc)
           /\ Taken(o).crossed = o.crossed
           /\ KalpaTurns(Taken(o)) \subseteq KalpaTurns(o)
<1> DEFINE no == FALSE
           q == IF Wipes(o) THEN Cancelling(Retaken(o), no) ELSE Retaken(o)
           s == TakenSlot
           u == [Mine(o) EXCEPT !.conn = link.n]
<1>1. no \in BOOLEAN /\ ~no  OBVIOUS
<1>2. /\ q \in KalpaOwns /\ q.utt = Mine(o) /\ q.dirty = (IF Wipes(o) THEN 0 ELSE o.dirty)
      /\ q.igen = o.igen /\ q.resp = o.resp /\ q.at = o.at /\ q.slotted = o.slotted
      /\ q.svc = (IF Wipes(o) THEN NoService ELSE o.svc) /\ q.crossed = o.crossed
      /\ KalpaTurns(q) \subseteq KalpaTurns(o)
  <2>0. o.crossed \in BOOLEAN  BY KalpaType
  <2>1. CASE Wipes(o)
    <3> HIDE DEF no
    <3>1. LET p == Cancelling(Retaken(o), no)
          IN /\ p \in KalpaOwns /\ p.svc = NoService
             /\ p.igen = Retaken(o).igen /\ p.utt = Retaken(o).utt /\ p.dirty = Retaken(o).dirty
             /\ p.resp = Retaken(o).resp /\ p.at = Retaken(o).at /\ p.slotted = Retaken(o).slotted
             /\ p.crossed = (Retaken(o).crossed \/ (no /\ Crosses))
             /\ KalpaTurns(p) \subseteq KalpaTurns(Retaken(o))
      BY <1>1, RetakenType, CancellingType
    <3>2. q = Cancelling(Retaken(o), no)  BY <2>1
    <3> HIDE DEF q
    <3>3. q.crossed = (o.crossed \/ (no /\ Crosses))  BY <3>1, <3>2, RetakenType
    <3>4. q.crossed = o.crossed  BY <1>1, <2>0, <3>3
    <3>5. QED  BY <2>1, <3>1, <3>2, <3>4, RetakenType
  <2>2. CASE ~Wipes(o)
    <3>1. q = Retaken(o)  BY <2>2
    <3> HIDE DEF q
    <3>2. QED  BY <2>2, <3>1, RetakenType
  <2>3. QED  BY <2>1, <2>2
<1>3. u \in Utterances /\ u.chunks = Mine(o).chunks  BY MineType DEF Utterances
<1>4. s \in SlotStates
  <2>1. s = [idle |-> no, slot |-> Me.turn, gone |-> no]  BY DEF TakenSlot
  <2> HIDE DEF no, s
  <2>2. QED  BY <1>1, <2>1 DEF SlotStates
<1>5. Taken(o) = [q EXCEPT !.utt = [q.utt EXCEPT !.conn = link.n], !.slot = s]
  BY DEF Taken
<1> HIDE DEF q, s
<1>6. Taken(o) = [q EXCEPT !.utt = u, !.slot = s]  BY <1>2, <1>5
<1> HIDE DEF u
<1>7. /\ Taken(o) \in KalpaOwns /\ Taken(o).utt = u /\ Taken(o).slot = s
      /\ Taken(o).dirty = q.dirty /\ Taken(o).igen = q.igen /\ Taken(o).resp = q.resp
      /\ Taken(o).at = q.at /\ Taken(o).slotted = q.slotted /\ Taken(o).svc = q.svc
      /\ Taken(o).crossed = q.crossed
  BY <1>2, <1>3, <1>4, <1>6 DEF KalpaOwns
<1>8. KalpaTurns(Taken(o)) \subseteq KalpaTurns(o)
  <2>1. KalpaTurns(Taken(o)) = KalpaTurns(q)  BY <1>2, <1>3, <1>7, KalpaTurnsIs
  <2>2. QED  BY <1>2, <2>1
<1>9. QED  BY <1>2, <1>7, <1>8 DEF u, s

LEMMA TakesSlotForm ==
    ASSUME NEW o, TakesSlot(o)
    PROVE  \/ /\ Wipes(o) /\ link.ws = "closing"
              /\ own' = [Retaken(o) EXCEPT !.slotted = FALSE] /\ UNCHANGED <<base, senders, said, wire>>
           \/ /\ ~(Wipes(o) /\ link.ws = "closing")
              /\ Writes(Taken(o), Mine(o).chunks # << >>)
              /\ wire' = wire \o (IF Wipes(o) THEN CancelOutput(Retaken(o), FALSE) ELSE << >>)
BY DEF TakesSlot, Taken, Retaken, Mine, TakenSlot

\* Whatever the holder does but a time-out of its wait.
LEMMA HolderShape ==
    ASSUME TypeInv, tts = "kalpa", own' \in KalpaOwns, KalpaTurns(own') \subseteq Flying,
           senders' \in Seq(Senders), SendersFrom, wire' \in Seq(Messages), WireFrom,
           Flags(base'), base'.sock = base.sock, said' \in Verdicts, said'.mute = said.mute,
           UNCHANGED <<tts, pipe, link>>
    PROVE  TypeInv' /\ Onward
<1>1. pipe' \in Calling /\ SameCall  BY StillCall DEF TypeInv
<1>2. base' \in Bases /\ SameLabels  BY StillLabels DEF Flags
<1>3. NoNewWrong  BY DEF NoNewWrong, Exact
<1>4. link' \in Sockets /\ base'.sock <= link'.n  BY DEF TypeInv
<1>5. QED  BY <1>1, <1>2, <1>3, <1>4, KalpaShape

LEMMA SameFlags == ASSUME TypeInv, base' = base, said' = said
                   PROVE  Flags(base') /\ base'.sock = base.sock /\ said' \in Verdicts /\ said'.mute = said.mute
BY DEF TypeInv, Flags

LEMMA TakesSlotStep ==
    ASSUME TypeInv, tts = "kalpa", Holding, TakesSlot(own), UNCHANGED <<tts, pipe, link>>
    PROVE  TypeInv' /\ Onward
<1>0. /\ own \in KalpaOwns /\ KalpaTurns(own) \subseteq Flying /\ link.n \in Nat
      /\ Me.turn \in 0..MaxTurn /\ senders \in Seq(Senders)
  <2>1. Me.turn \in Turns /\ MaxTurn \in Nat  BY MeType, SynthesizerAssumption
  <2>2. QED  BY <2>1, KalpaOwnType DEF TypeInv, Sockets, Turns
<1>1. CASE /\ own' = [Retaken(own) EXCEPT !.slotted = FALSE]
           /\ UNCHANGED <<base, senders, said, wire>>
  <2> DEFINE no == FALSE
             o == Retaken(own)
  <2>1. o \in KalpaOwns /\ KalpaTurns(o) \subseteq Flying  BY <1>0, RetakenType
  <2>2. own' = [o EXCEPT !.slotted = no] /\ no \in BOOLEAN  BY <1>1
  <2> HIDE DEF no, o
  <2>3. own' \in KalpaOwns /\ own'.utt = o.utt /\ own'.svc = o.svc
    BY <2>1, <2>2 DEF KalpaOwns
  <2>4. KalpaTurns(own') \subseteq Flying  BY <2>1, <2>3, KalpaTurnsIs
  <2>5. senders' \in Seq(Senders) /\ SendersFrom  BY <1>0, <1>1, SameSenders
  <2>6. wire' \in Seq(Messages) /\ WireFrom  BY <1>1, SameWire
  <2>7. QED  BY <1>1, <2>3, <2>4, <2>5, <2>6, SameFlags, HolderShape
<1>2. CASE /\ Writes(Taken(own), Mine(own).chunks # << >>)
           /\ wire' = wire \o (IF Wipes(own) THEN CancelOutput(Retaken(own), FALSE) ELSE << >>)
  <2> DEFINE o == Taken(own)
             replay == Mine(own).chunks # << >>
             no == FALSE
  <2>1. o \in KalpaOwns /\ KalpaTurns(o) \subseteq Flying  BY <1>0, TakenType
  <2>2. replay \in BOOLEAN /\ Writes(o, replay)  BY <1>2
  <2> HIDE DEF o, replay
  <2>3. /\ own' \in KalpaOwns /\ KalpaTurns(own') \subseteq Flying
        /\ senders' \in Seq(Senders) /\ SendersFrom
        /\ Flags(base') /\ base'.sock = base.sock
        /\ said' \in Verdicts /\ said'.mute = said.mute
    BY <2>1, <2>2, WritesType
  <2>4. wire' \in Seq(Messages) /\ WireFrom
    <3>1. Retaken(own) \in KalpaOwns /\ no \in BOOLEAN  BY <1>0, RetakenType
    <3> HIDE DEF no
    <3>2. Rendering(CancelOutput(Retaken(own), no), 0)  BY <3>1, CancelOutputType
    <3>3. Rendering(CancelOutput(Retaken(own), FALSE), 0)  BY <3>2 DEF no
    <3>4. Rendering(IF Wipes(own) THEN CancelOutput(Retaken(own), FALSE) ELSE << >>, 0)
      BY <3>3, RenderingEmpty
    <3>5. QED  BY <1>2, <3>4, WireGrows
  <2>5. QED  BY <2>3, <2>4, HolderShape
<1>3. QED  BY <1>1, <1>2, TakesSlotForm

\* The holder changes its own state and lets the labels be.
LEMMA HolderStep ==
    ASSUME TypeInv, tts = "kalpa", Holding, own' \in KalpaOwns, KalpaTurns(own') \subseteq KalpaTurns(own),
           senders' \in {senders, Tail(senders)}, wire' \in Seq(Messages), WireFrom,
           UNCHANGED <<tts, pipe, link, base, said>>
    PROVE  TypeInv' /\ Onward
<1>1. KalpaTurns(own') \subseteq Flying  BY KalpaOwnType
<1>2. senders' \in Seq(Senders) /\ SendersFrom  BY MeType, TailFrom
<1>3. QED  BY <1>1, <1>2, SameFlags, HolderShape

LEMMA HolderLeaves ==
    ASSUME TypeInv, tts = "kalpa", Holding, LetsGo(own), UNCHANGED <<tts, pipe, link, base, said, wire>>
    PROVE  TypeInv' /\ Onward
<1>1. own' \in KalpaOwns /\ Alike(own', own) /\ senders' = Tail(senders)
  BY KalpaOwnType, LetsGoType
<1>2. KalpaTurns(own') = KalpaTurns(own)  BY <1>1, KalpaTurnsIs DEF Alike
<1>3. QED  BY <1>1, <1>2, SameWire, HolderStep

LEMMA SlottedType ==
    ASSUME NEW o \in KalpaOwns, NEW w \in BOOLEAN
    PROVE  /\ [o EXCEPT !.slotted = w] \in KalpaOwns /\ Alike([o EXCEPT !.slotted = w], o)
           /\ [o EXCEPT !.slotted = w].at = o.at /\ [o EXCEPT !.slotted = w].slotted = w
BY DEF KalpaOwns, Alike

\* Waiting for the slot begins or ends.
LEMMA HolderTurns ==
    ASSUME TypeInv, tts = "kalpa", Holding, NEW w \in BOOLEAN, own' = [own EXCEPT !.slotted = w],
           UNCHANGED <<tts, pipe, link, base, said, senders>>, wire' \in Seq(Messages), WireFrom
    PROVE  TypeInv' /\ Onward
<1>1. own' \in KalpaOwns /\ Alike(own', own)  BY KalpaOwnType, SlottedType
<1>2. KalpaTurns(own') = KalpaTurns(own)  BY <1>1, KalpaTurnsIs DEF Alike
<1>3. QED  BY <1>1, <1>2, HolderStep

\* The slot of a superseded turn is cancelled.
GivenUp == [own EXCEPT !.slot = [own.slot EXCEPT !.gone = TRUE], !.dirty = 0]

LEMMA GivenUpType ==
    ASSUME own \in KalpaOwns
    PROVE  /\ GivenUp \in KalpaOwns /\ GivenUp.igen = own.igen /\ GivenUp.utt = own.utt
           /\ GivenUp.dirty = 0 /\ GivenUp.slot.idle = own.slot.idle
           /\ GivenUp.slot.slot = own.slot.slot /\ GivenUp.slot.gone
           /\ GivenUp.resp = own.resp /\ GivenUp.at = own.at /\ GivenUp.slotted = own.slotted
           /\ GivenUp.svc = own.svc /\ GivenUp.made = own.made /\ GivenUp.crossed = own.crossed
<1> DEFINE yes == TRUE
           z == 0
           s == [own.slot EXCEPT !.gone = yes]
<1>1. yes \in BOOLEAN /\ yes /\ z \in Nat /\ z = 0  OBVIOUS
<1>2. GivenUp = [own EXCEPT !.slot = s, !.dirty = z]  BY DEF GivenUp
<1> HIDE DEF yes, z
<1>3. s \in SlotStates /\ s.idle = own.slot.idle /\ s.slot = own.slot.slot /\ s.gone = yes
  BY <1>1, KalpaType, SlotGone
<1> HIDE DEF s
<1>4. /\ GivenUp \in KalpaOwns /\ GivenUp.igen = own.igen /\ GivenUp.utt = own.utt
      /\ GivenUp.dirty = z /\ GivenUp.slot = s
      /\ GivenUp.resp = own.resp /\ GivenUp.at = own.at /\ GivenUp.slotted = own.slotted
      /\ GivenUp.svc = own.svc /\ GivenUp.made = own.made /\ GivenUp.crossed = own.crossed
  BY <1>1, <1>2, <1>3 DEF KalpaOwns
<1>5. QED  BY <1>1, <1>3, <1>4

\* What Cancels makes of Kalpa's state: with an open socket the service is emptied.
LEMMA CancelsType ==
    ASSUME own \in KalpaOwns, Cancels
    PROVE  /\ own' \in KalpaOwns /\ KalpaTurns(own') \subseteq KalpaTurns(own)
           /\ own'.igen = own.igen /\ own'.utt = own.utt /\ own'.dirty = 0
           /\ own'.slot.idle = own.slot.idle /\ own'.slot.slot = own.slot.slot /\ own'.slot.gone
           /\ own'.resp = own.resp /\ own'.at = own.at
           /\ link.ws = "open" => /\ own'.svc = NoService /\ own'.slotted
                                  /\ own'.crossed = (own.crossed \/ (own.resp.rid = 0 /\ Crosses))
                                  /\ wire' = wire \o CancelOutput(GivenUp, own.resp.rid = 0)
           /\ link.ws # "open" => own' = GivenUp /\ wire' = wire
<1> DEFINE flush == own.resp.rid = 0
           yes == TRUE
           p == Cancelling(GivenUp, flush)
<1>0. /\ GivenUp \in KalpaOwns /\ GivenUp.igen = own.igen /\ GivenUp.utt = own.utt
      /\ GivenUp.dirty = 0 /\ GivenUp.slot.idle = own.slot.idle
      /\ GivenUp.slot.slot = own.slot.slot /\ GivenUp.slot.gone
      /\ GivenUp.resp = own.resp /\ GivenUp.at = own.at
      /\ GivenUp.svc = own.svc /\ GivenUp.crossed = own.crossed
  BY GivenUpType
<1>1. GivenUp = [own EXCEPT !.slot.gone = TRUE, !.dirty = 0]  BY DEF GivenUp
<1>2. CASE link.ws = "open"
  <2>1. own' = [p EXCEPT !.slotted = yes] /\ wire' = wire \o CancelOutput(GivenUp, flush)
    BY <1>1, <1>2 DEF Cancels
  <2>2. flush \in BOOLEAN /\ yes \in BOOLEAN /\ yes  OBVIOUS
  <2>3. flush = (own.resp.rid = 0)  OBVIOUS
  <2> HIDE DEF flush, yes
  <2>4. /\ p \in KalpaOwns /\ p.svc = NoService
        /\ p.igen = GivenUp.igen /\ p.utt = GivenUp.utt /\ p.dirty = GivenUp.dirty
        /\ p.slot = GivenUp.slot /\ p.resp = GivenUp.resp /\ p.at = GivenUp.at
        /\ p.crossed = (GivenUp.crossed \/ (flush /\ Crosses))
        /\ KalpaTurns(p) \subseteq KalpaTurns(GivenUp)
    BY <1>0, <2>2, CancellingType
  <2> HIDE DEF p
  <2>5. own' \in KalpaOwns /\ Alike(own', p) /\ own'.at = p.at /\ own'.slotted = yes
    BY <2>1, <2>2, <2>4, SlottedType
  <2>6. KalpaTurns(own') \subseteq KalpaTurns(own)
    <3>1. KalpaTurns(own') = KalpaTurns(p) /\ KalpaTurns(GivenUp) = KalpaTurns(own)
      BY <1>0, <2>5, KalpaTurnsIs DEF Alike
    <3>2. QED  BY <2>4, <3>1
  <2>7. /\ own'.igen = own.igen /\ own'.utt = own.utt /\ own'.dirty = 0 /\ own'.slot = GivenUp.slot
        /\ own'.resp = own.resp /\ own'.at = own.at /\ own'.svc = NoService /\ own'.slotted
    BY <1>0, <2>2, <2>4, <2>5 DEF Alike
  <2>8. own'.crossed = (own.crossed \/ (own.resp.rid = 0 /\ Crosses))
    BY <1>0, <2>3, <2>4, <2>5 DEF Alike
  <2>9. wire' = wire \o CancelOutput(GivenUp, own.resp.rid = 0)  BY <2>1 DEF flush
  <2>10. QED  BY <1>0, <1>2, <2>5, <2>6, <2>7, <2>8, <2>9
<1>3. CASE link.ws # "open"
  <2>1. own' = GivenUp /\ wire' = wire  BY <1>1, <1>3 DEF Cancels
  <2>2. KalpaTurns(own') = KalpaTurns(own)  BY <1>0, <2>1, KalpaTurnsIs
  <2>3. QED  BY <1>0, <1>3, <2>1, <2>2
<1>4. QED  BY <1>2, <1>3

LEMMA CancelsWire ==
    ASSUME TypeInv, tts = "kalpa", Cancels
    PROVE  wire' \in Seq(Messages) /\ WireFrom
<1> DEFINE flush == own.resp.rid = 0
<1>1. own \in KalpaOwns  BY KalpaOwnType
<1>2. wire' = wire \/ wire' = wire \o CancelOutput(GivenUp, flush)  BY <1>1, CancelsType
<1>3. flush \in BOOLEAN  OBVIOUS
<1> HIDE DEF flush
<1>4. Rendering(CancelOutput(GivenUp, flush), 0)  BY <1>1, <1>3, GivenUpType, CancelOutputType
<1>5. CASE wire' = wire  BY <1>5, SameWire
<1>6. CASE wire' = wire \o CancelOutput(GivenUp, flush)  BY <1>4, <1>6, WireGrows
<1>7. QED  BY <1>2, <1>5, <1>6

LEMMA OpensStep ==
    ASSUME TypeInv, tts = "kalpa", Holding, Opens, UNCHANGED <<tts, pipe, link>>
    PROVE  TypeInv' /\ Onward
<1>1. CASE TakesSlot(own)  BY <1>1, TakesSlotStep
<1>2. CASE Cancels /\ UNCHANGED <<base, senders, said>>
  <2>1. own \in KalpaOwns  BY KalpaOwnType
  <2>2. own' \in KalpaOwns /\ KalpaTurns(own') \subseteq KalpaTurns(own)  BY <1>2, <2>1, CancelsType
  <2>3. wire' \in Seq(Messages) /\ WireFrom  BY <1>2, CancelsWire
  <2>4. QED  BY <1>2, <2>2, <2>3, HolderStep
<1>3. CASE own' = [own EXCEPT !.slotted = TRUE] /\ UNCHANGED <<wire, base, senders, said>>
  <2> DEFINE yes == TRUE
  <2>1. yes \in BOOLEAN /\ own' = [own EXCEPT !.slotted = yes]  BY <1>3
  <2> HIDE DEF yes
  <2>2. wire' \in Seq(Messages) /\ WireFrom  BY <1>3, SameWire
  <2>3. QED  BY <1>3, <2>1, <2>2, HolderTurns
<1>4. QED  BY <1>1, <1>2, <1>3 DEF Opens

LEMMA SkipsStep ==
    ASSUME TypeInv, tts = "kalpa", Holding, Skips, UNCHANGED <<tts, pipe, link, base, said, wire>>
    PROVE  TypeInv' /\ Onward
<1>0. own \in KalpaOwns  BY KalpaOwnType
<1> DEFINE o == IF DeadOne THEN [own EXCEPT !.utt = NoUtterance] ELSE own
<1>1. [own EXCEPT !.utt = NoUtterance] \in KalpaOwns
      /\ [own EXCEPT !.utt = NoUtterance].utt = NoUtterance
      /\ [own EXCEPT !.utt = NoUtterance].svc = own.svc
  BY <1>0, NothingTypes DEF KalpaOwns
<1>2. o \in KalpaOwns /\ KalpaTurns(o) \subseteq KalpaTurns(own)
  <2>1. TurnsOf(<< >>) = {} /\ NoUtterance.chunks = << >>  BY NothingTypes DEF TurnsOf
  <2>2. QED  BY <1>0, <1>1, <2>1, KalpaTurnsIs
<1>3. own' \in KalpaOwns /\ (Alike(own', own) \/ Alike(own', o)) /\ senders' \in {senders, Tail(senders)}
  <2>1. CASE own.at = "text"
    <3>1. TextDone(own)  BY <2>1 DEF Skips
    <3>2. QED  BY <1>0, <3>1, TextDoneType
  <2>2. CASE own.at # "text"
    <3>1. LetsGo(o)  BY <2>2 DEF Skips
    <3> HIDE DEF o
    <3>2. QED  BY <1>2, <3>1, LetsGoType
  <2>3. QED  BY <2>1, <2>2
<1> HIDE DEF o
<1>4. KalpaTurns(own') \subseteq KalpaTurns(own)  BY <1>2, <1>3, KalpaTurnsIs DEF Alike
<1>5. QED  BY <1>3, <1>4, SameWire, HolderStep

LEMMA WritesStep ==
    ASSUME TypeInv, tts = "kalpa", Holding, Writes(own, FALSE), UNCHANGED <<tts, pipe, link, wire>>
    PROVE  TypeInv' /\ Onward
<1> DEFINE no == FALSE
<1>1. no \in BOOLEAN /\ Writes(own, no)  OBVIOUS
<1> HIDE DEF no
<1>2. /\ own' \in KalpaOwns /\ KalpaTurns(own') \subseteq Flying
      /\ senders' \in Seq(Senders) /\ SendersFrom
      /\ Flags(base') /\ base'.sock = base.sock
      /\ said' \in Verdicts /\ said'.mute = said.mute
  BY <1>1, KalpaOwnType, WritesType
<1>3. QED  BY <1>2, SameWire, HolderShape

\* The holder's step, by what it does.
LEMMA KalpaSendsCases ==
    ASSUME KalpaSends
    PROVE  /\ Holding /\ ~own.slotted /\ UNCHANGED <<tts, pipe, link>>
           /\ \/ Retired(Me) /\ LetsGo(own) /\ UNCHANGED <<base, said, wire>>
              \/ /\ ~Retired(Me)
                 /\ \/ own.at = "text" /\ (~Me.text \/ DeadOne)
                    \/ own.at = "end" /\ (own.utt.turn # Me.turn \/ DeadOne)
                 /\ Skips /\ UNCHANGED <<base, said, wire>>
              \/ /\ ~Retired(Me)
                 /\ ~(own.at = "text" /\ (~Me.text \/ DeadOne))
                 /\ ~(own.at = "end" /\ (own.utt.turn # Me.turn \/ DeadOne))
                 /\ \/ OpenNow /\ Writes(own, FALSE) /\ UNCHANGED wire
                    \/ ~OpenNow /\ base.error /\ LetsGo(own) /\ UNCHANGED <<base, said, wire>>
                    \/ ~OpenNow /\ ~base.error /\ Connected /\ Opens
<1> DEFINE skips == \/ own.at = "text" /\ (~Me.text \/ DeadOne)
                    \/ own.at = "end" /\ (own.utt.turn # Me.turn \/ DeadOne)
<1>1. Holding /\ ~own.slotted /\ UNCHANGED <<tts, pipe, link>>  BY DEF KalpaSends
<1>2. CASE Retired(Me)  BY <1>1, <1>2 DEF KalpaSends
<1>3. CASE ~Retired(Me) /\ skips  BY <1>1, <1>3 DEF KalpaSends
<1>4. CASE ~Retired(Me) /\ ~skips  BY <1>1, <1>4 DEF KalpaSends
<1>5. QED  BY <1>2, <1>3, <1>4

LEMMA KalpaSendsStep ==
    ASSUME TypeInv, tts = "kalpa", KalpaSends
    PROVE  TypeInv' /\ Onward
<1>1. Holding /\ UNCHANGED <<tts, pipe, link>>  BY KalpaSendsCases
<1>2. CASE LetsGo(own) /\ UNCHANGED <<base, said, wire>>  BY <1>1, <1>2, HolderLeaves
<1>3. CASE Skips /\ UNCHANGED <<base, said, wire>>  BY <1>1, <1>3, SkipsStep
<1>4. CASE Writes(own, FALSE) /\ UNCHANGED wire  BY <1>1, <1>4, WritesStep
<1>5. CASE Opens  BY <1>1, <1>5, OpensStep
<1>6. QED  BY <1>2, <1>3, <1>4, <1>5, KalpaSendsCases

LEMMA SlotFreeStep ==
    ASSUME TypeInv, tts = "kalpa", SlotFree
    PROVE  TypeInv' /\ Onward
<1>1. Holding /\ UNCHANGED <<tts, pipe, link>>  BY DEF SlotFree
<1>2. CASE LetsGo(own) /\ UNCHANGED <<base, said, wire>>  BY <1>1, <1>2, HolderLeaves
<1>3. CASE own' = [own EXCEPT !.slotted = FALSE] /\ UNCHANGED <<base, senders, said, wire>>
  <2> DEFINE no == FALSE
  <2>1. no \in BOOLEAN /\ own' = [own EXCEPT !.slotted = no]  BY <1>3
  <2> HIDE DEF no
  <2>2. QED  BY <1>1, <1>3, <2>1, SameWire, HolderTurns
<1>4. CASE TakesSlot(own)  BY <1>1, <1>4, TakesSlotStep
<1>5. QED  BY <1>2, <1>3, <1>4 DEF SlotFree

\* The holder gives the wait up, and its socket with it.
LEMMA SlotTimesOutStep ==
    ASSUME TypeInv, tts = "kalpa", SlotTimesOut
    PROVE  TypeInv' /\ Onward
<1>1. Holding /\ UNCHANGED <<tts, pipe, base, said>>  BY DEF SlotTimesOut
<1>2. CASE LetsGo(own) /\ UNCHANGED <<link, wire>>  BY <1>1, <1>2, HolderLeaves
<1>3. CASE /\ own' = [own EXCEPT !.slotted = FALSE] /\ UNCHANGED senders
           /\ \/ link' = [link EXCEPT !.ws = "closing"] /\ wire' \in Prefixes(wire)
              \/ UNCHANGED <<link, wire>>
  <2> DEFINE no == FALSE
  <2>1. no \in BOOLEAN /\ own' = [own EXCEPT !.slotted = no]  BY <1>3
  <2> HIDE DEF no
  <2>2. own' \in KalpaOwns /\ Alike(own', own)  BY <2>1, KalpaOwnType, SlottedType
  <2>3. KalpaTurns(own') \subseteq Flying
    <3>1. KalpaTurns(own') = KalpaTurns(own)  BY <2>2, KalpaTurnsIs DEF Alike
    <3>2. QED  BY <3>1, KalpaOwnType
  <2>4. link' \in Sockets /\ link'.n = link.n
    <3>1. link \in Sockets  BY DEF TypeInv
    <3>2. CASE link' = [link EXCEPT !.ws = "closing"]  BY <3>1, <3>2 DEF Sockets
    <3>3. CASE link' = link  BY <3>1, <3>3
    <3>4. QED  BY <1>3, <3>2, <3>3
  <2>5. wire' \in Seq(Messages) /\ WireFrom
    <3>1. wire' \in Prefixes(wire) \/ wire' = wire  BY <1>3
    <3>2. QED  BY <3>1, CutWire DEF WireFrom
  <2>6. senders' \in Seq(Senders) /\ SendersFrom  BY <1>3, SameSenders DEF TypeInv
  <2>7. pipe' \in Calling /\ SameCall /\ base' \in Bases /\ SameLabels /\ said' \in Verdicts /\ NoNewWrong
        /\ base'.sock <= link'.n
    BY <1>1, <2>4, StillCall, StillLabels, StillSaid DEF TypeInv
  <2>8. tts' = tts  BY <1>1
  <2>9. QED  BY <2>2, <2>3, <2>4, <2>5, <2>6, <2>7, <2>8, KalpaShape
<1>4. QED
  <2>1. CASE Retired(Me)  BY <1>2, <2>1 DEF SlotTimesOut
  <2>2. CASE ~Retired(Me)  BY <1>3, <2>2 DEF SlotTimesOut
  <2>3. QED  BY <2>1, <2>2

---------------------------------------------------------------------------
\* The receiver, the end of Kalpa's socket and the next one.

LEMMA SettledType ==
    ASSUME NEW o \in KalpaOwns
    PROVE  /\ Settled(o) \in KalpaOwns
           /\ Settled(o).slot = (IF o.slot.idle THEN o.slot ELSE FreeSlot)
           /\ Settled(o).igen = o.igen /\ Settled(o).utt = o.utt /\ Settled(o).dirty = o.dirty
           /\ Settled(o).resp = o.resp /\ Settled(o).at = o.at /\ Settled(o).slotted = o.slotted
           /\ Settled(o).svc = o.svc /\ Settled(o).made = o.made /\ Settled(o).crossed = o.crossed
           /\ KalpaTurns(Settled(o)) = KalpaTurns(o) /\ Settled(o).slot.idle
<1>1. CASE o.slot.idle
  <2>1. Settled(o) = o  BY <1>1 DEF Settled
  <2>2. QED  BY <1>1, <2>1
<1>2. CASE ~o.slot.idle
  <2>1. Settled(o) = [o EXCEPT !.slot = FreeSlot]  BY <1>2 DEF Settled
  <2>2. FreeSlot \in SlotStates /\ FreeSlot.idle  BY NothingTypes
  <2>3. /\ Settled(o) \in KalpaOwns /\ Settled(o).slot = FreeSlot
        /\ Settled(o).igen = o.igen /\ Settled(o).utt = o.utt /\ Settled(o).dirty = o.dirty
        /\ Settled(o).resp = o.resp /\ Settled(o).at = o.at /\ Settled(o).slotted = o.slotted
        /\ Settled(o).svc = o.svc /\ Settled(o).made = o.made /\ Settled(o).crossed = o.crossed
    BY <2>1, <2>2 DEF KalpaOwns
  <2>4. KalpaTurns(Settled(o)) = KalpaTurns(o)  BY <2>3, KalpaTurnsIs
  <2>5. QED  BY <1>2, <2>2, <2>3, <2>4
<1>3. QED  BY <1>1, <1>2

LEMMA SettlesType ==
    ASSUME NEW o, NEW emit
    PROVE  /\ Settles(o, emit) \in {<< >>, <<End(o.slot.slot, 0)>>}
           /\ Settles(o, emit) # << >> =>
                 /\ ~o.slot.idle /\ ~o.slot.gone /\ emit
                 /\ base.q = << >> \/ Head(base.q) = o.slot.slot
BY DEF Settles

\* What an error, a completed or a lost response leaves.
Past(d) == [own EXCEPT !.utt = [own.utt EXCEPT !.dead = d], !.resp = NoResponse]

LEMMA PastType ==
    ASSUME own \in KalpaOwns, NEW d \in BOOLEAN
    PROVE  /\ Past(d) \in KalpaOwns /\ Past(d).utt = [own.utt EXCEPT !.dead = d]
           /\ Past(d).resp = NoResponse
           /\ Past(d).igen = own.igen /\ Past(d).dirty = own.dirty /\ Past(d).slot = own.slot
           /\ Past(d).at = own.at /\ Past(d).slotted = own.slotted /\ Past(d).svc = own.svc
           /\ Past(d).made = own.made /\ Past(d).crossed = own.crossed
           /\ KalpaTurns(Past(d)) = KalpaTurns(own)
<1> DEFINE u == [own.utt EXCEPT !.dead = d]
<1>1. u \in Utterances /\ u.chunks = own.utt.chunks  BY KalpaType, UtteranceDead
<1>2. Past(d) = [own EXCEPT !.utt = u, !.resp = NoResponse]  BY DEF Past
<1>3. NoResponse \in Responses  BY NothingTypes
<1>3a. u = [own.utt EXCEPT !.dead = d]  OBVIOUS
<1> HIDE DEF u
<1>4. /\ Past(d) \in KalpaOwns /\ Past(d).utt = u /\ Past(d).resp = NoResponse
      /\ Past(d).igen = own.igen /\ Past(d).dirty = own.dirty /\ Past(d).slot = own.slot
      /\ Past(d).at = own.at /\ Past(d).slotted = own.slotted /\ Past(d).svc = own.svc
      /\ Past(d).made = own.made /\ Past(d).crossed = own.crossed
  BY <1>1, <1>2, <1>3 DEF KalpaOwns
<1>5. KalpaTurns(Past(d)) = KalpaTurns(own)  BY <1>1, <1>4, KalpaTurnsIs
<1>6. QED  BY <1>3a, <1>4, <1>5

LEMMA PastSame == ASSUME own \in KalpaOwns PROVE Past(own.utt.dead) = [own EXCEPT !.resp = NoResponse]
<1>1. own.utt \in Utterances  BY KalpaType
<1>2. [own.utt EXCEPT !.dead = own.utt.dead] = own.utt  BY <1>1 DEF Utterances
<1>3. [own EXCEPT !.utt = own.utt, !.resp = NoResponse] = [own EXCEPT !.resp = NoResponse]
  BY DEF KalpaOwns
<1>4. QED  BY <1>2, <1>3 DEF Past

\* The step of the receiver, by what it does: nothing, a response begins, audio is
\* played, or a response or an error is over; and that settles the slot or not.
LEMMA KalpaHears ==
    ASSUME TypeInv, NEW more, KalpaReceive(more)
    PROVE  /\ tts = "kalpa" /\ wire # << >> /\ Read(more) /\ ~pipe.over
           /\ link.ws \in {"open", "closing", "dying"}
           /\ UNCHANGED <<tts, link, senders>>
           /\ \/ own' = own /\ Yield(<< >>)
              \/ /\ Hd.kind = "created" /\ Yield(<< >>)
                 /\ own' = [own EXCEPT !.resp = [rid |-> Hd.ctx, serves |-> ~own.slot.idle]]
              \/ Hd.kind = "audio" /\ Audible(Hd) /\ own' = own /\ Yield(<<Hd>>)
              \/ /\ Hd.kind \notin {"created", "audio", "error"} /\ Hd.ctx = own.resp.rid
                 /\ own.resp.serves /\ own' = Settled(Past(own.utt.dead))
                 /\ Yield(Settles(Past(own.utt.dead), Hd.kind = "done"))
              \/ /\ Hd.kind \notin {"created", "audio", "error"} /\ Hd.ctx = own.resp.rid
                 /\ ~own.resp.serves /\ own' = Past(own.utt.dead) /\ Yield(<< >>)
              \/ /\ Hd.kind = "error" /\ Hd.ctx = own.resp.rid
                 /\ Hd.ctx # 0 /\ ~own.resp.serves /\ Yield(<< >>)
                 /\ own' = Past(own.utt.dead \/ own.utt.turn # 0)
              \/ /\ Hd.kind = "error" /\ Hd.ctx = own.resp.rid
                 /\ (Hd.ctx # 0 /\ own.resp.serves) \/ (Hd.ctx = 0 /\ ~own.slot.idle)
                 /\ own' = Settled(Past(own.utt.dead \/ own.utt.turn # 0))
                 /\ Yield(Settles(Past(own.utt.dead \/ own.utt.turn # 0), TRUE))
<1>0. /\ tts = "kalpa" /\ wire # << >> /\ Read(more) /\ ~pipe.over
      /\ link.ws \in {"open", "closing", "dying"} /\ UNCHANGED <<tts, link, senders>>
      /\ IF Hd.kind = "error" THEN HearsError(Hd) ELSE HearsResponse(Hd)
  BY DEF KalpaReceive, Reading, Hd
<1>1. own \in KalpaOwns  BY <1>0, KalpaOwnType
<1>3. Past(own.utt.dead) = [own EXCEPT !.resp = NoResponse]  BY <1>1, PastSame
<1>4. Past(own.utt.dead \/ own.utt.turn # 0)
        = [own EXCEPT !.utt.dead = @ \/ own.utt.turn # 0, !.resp = NoResponse]
  BY DEF Past
<1>5. CASE Hd.kind = "error"
  <2>1. HearsError(Hd)  BY <1>0, <1>5
  <2>2. QED  BY <1>0, <1>4, <1>5, <2>1 DEF HearsError
<1>6. CASE Hd.kind = "created"
  <2>1. HearsResponse(Hd)  BY <1>0, <1>6
  <2>2. QED  BY <1>0, <1>6, <2>1 DEF HearsResponse
<1>7. CASE Hd.kind = "audio"
  <2>1. HearsResponse(Hd)  BY <1>0, <1>7
  <2>2. own' = own /\ Yield(IF Audible(Hd) THEN <<Hd>> ELSE << >>)  BY <1>7, <2>1 DEF HearsResponse
  <2>3. QED  BY <1>0, <1>7, <2>2
<1>8. CASE Hd.kind \notin {"created", "audio", "error"}
  <2>1. HearsResponse(Hd)  BY <1>0, <1>8
  <2>2. CASE Hd.ctx # own.resp.rid
    <3>1. own' = own /\ Yield(<< >>)  BY <1>8, <2>1, <2>2 DEF HearsResponse
    <3>2. QED  BY <1>0, <3>1
  <2>3. CASE Hd.ctx = own.resp.rid /\ own.resp.serves
    <3>1. own' = Settled(Past(own.utt.dead)) /\ Yield(Settles(Past(own.utt.dead), Hd.kind = "done"))
      BY <1>3, <1>8, <2>1, <2>3 DEF HearsResponse
    <3>2. QED  BY <1>0, <1>8, <2>3, <3>1
  <2>4. CASE Hd.ctx = own.resp.rid /\ ~own.resp.serves
    <3>1. own' = Past(own.utt.dead) /\ Yield(<< >>)  BY <1>3, <1>8, <2>1, <2>4 DEF HearsResponse
    <3>2. QED  BY <1>0, <1>8, <2>4, <3>1
  <2>5. QED  BY <2>2, <2>3, <2>4
<1>9. QED  BY <1>5, <1>6, <1>7, <1>8

\* A step of Kalpa's receiver that makes frames.
LEMMA KalpaFrames ==
    ASSUME TypeInv, tts = "kalpa", NEW STATE frames, frames \in Frames, Yield(frames),
           \A k \in DOMAIN frames : frames[k].kind = "audio" => frames[k].turn \in Flying,
           own' \in KalpaOwns, KalpaTurns(own') \subseteq KalpaTurns(own),
           wire' \in Seq(Messages), WireFrom, link' \in Sockets, link'.n = link.n,
           UNCHANGED <<tts, senders>>
    PROVE  TypeInv' /\ Onward
<1>1. /\ pipe' \in Calling /\ base' \in Bases /\ said' \in Verdicts
      /\ base'.sock \in {0, base.sock} /\ SameCall /\ SameLabels /\ NoNewWrong
  BY YieldShape
<1>2. base.sock <= link.n /\ 0 <= link.n  BY DEF TypeInv, Sockets
<1>3. base'.sock <= link'.n  BY <1>1, <1>2
<1>4. KalpaTurns(own') \subseteq Flying  BY KalpaOwnType
<1>5. senders' \in Seq(Senders) /\ SendersFrom  BY SameSenders DEF TypeInv
<1>6. QED  BY <1>1, <1>3, <1>4, <1>5, KalpaShape

\* The end of a slot's turn is a frame.
LEMMA SettlesFrames ==
    ASSUME NEW o \in KalpaOwns, NEW emit
    PROVE  /\ Settles(o, emit) \in Frames
           /\ \A k \in DOMAIN Settles(o, emit) : Settles(o, emit)[k].kind # "audio"
<1> DEFINE e == End(o.slot.slot, 0)
<1>1. e \in Messages /\ e.kind = "end"  BY KalpaParts, EndType
<1>2. Settles(o, emit) \in {<< >>, <<e>>}  BY SettlesType
<1> HIDE DEF e
<1>3. CASE Settles(o, emit) = << >>  BY <1>3, FrameTypes
<1>4. CASE Settles(o, emit) = <<e>>
  <2>1. \A k \in DOMAIN <<e>> : <<e>>[k].kind # "audio"  BY <1>1
  <2>2. QED  BY <1>1, <1>4, <2>1, FrameTypes
<1>5. QED  BY <1>2, <1>3, <1>4

LEMMA BegunType ==
    ASSUME own \in KalpaOwns, NEW c \in Nat,
           own' = [own EXCEPT !.resp = [rid |-> c, serves |-> ~own.slot.idle]]
    PROVE  /\ own' \in KalpaOwns /\ KalpaTurns(own') = KalpaTurns(own)
           /\ own'.resp.rid = c /\ own'.resp.serves = ~own.slot.idle
           /\ own'.igen = own.igen /\ own'.utt = own.utt /\ own'.dirty = own.dirty
           /\ own'.slot = own.slot
           /\ own'.at = own.at /\ own'.slotted = own.slotted /\ own'.svc = own.svc
           /\ own'.made = own.made /\ own'.crossed = own.crossed
<1> DEFINE b == ~own.slot.idle
           r == [rid |-> c, serves |-> b]
<1>1. b \in BOOLEAN /\ own' = [own EXCEPT !.resp = r] /\ b = ~own.slot.idle  OBVIOUS
<1> HIDE DEF b
<1>2. r \in Responses /\ r.rid = c /\ r.serves = b  BY <1>1 DEF Responses
<1> HIDE DEF r
<1>3. /\ own' \in KalpaOwns /\ own'.resp = r
      /\ own'.igen = own.igen /\ own'.utt = own.utt /\ own'.dirty = own.dirty
      /\ own'.slot = own.slot
      /\ own'.at = own.at /\ own'.slotted = own.slotted /\ own'.svc = own.svc
      /\ own'.made = own.made /\ own'.crossed = own.crossed
  BY <1>1, <1>2 DEF KalpaOwns
<1>4. KalpaTurns(own') = KalpaTurns(own)  BY <1>3, KalpaTurnsIs
<1>5. QED  BY <1>1, <1>2, <1>3, <1>4

LEMMA KalpaReceiveStep ==
    ASSUME TypeInv, NEW more, KalpaReceive(more)
    PROVE  TypeInv' /\ Onward
<1>0. /\ tts = "kalpa" /\ wire # << >> /\ Read(more) /\ UNCHANGED <<tts, link, senders>>
      /\ link' \in Sockets /\ link'.n = link.n
  BY KalpaHears DEF TypeInv
<1>1. /\ wire' \in Seq(Messages) /\ WireFrom /\ Hd \in Messages /\ Hd.turn \in Flying /\ Hd.ctx \in Nat
  BY <1>0, ReadWire
<1>2. own \in KalpaOwns /\ own.utt.dead \in BOOLEAN  BY <1>0, KalpaOwnType, KalpaParts
<1> DEFINE d == own.utt.dead \/ own.utt.turn # 0
<1>3. d \in BOOLEAN  OBVIOUS
<1>4. << >> \in Frames /\ DOMAIN << >> = {}  BY FrameTypes
<1>5. CASE own' = own /\ Yield(<< >>)  BY <1>0, <1>1, <1>2, <1>4, <1>5, KalpaFrames
<1>6. CASE /\ Hd.kind = "created" /\ Yield(<< >>)
           /\ own' = [own EXCEPT !.resp = [rid |-> Hd.ctx, serves |-> ~own.slot.idle]]
  <2>1. own' \in KalpaOwns /\ KalpaTurns(own') = KalpaTurns(own)  BY <1>1, <1>2, <1>6, BegunType
  <2>2. QED  BY <1>0, <1>1, <1>4, <1>6, <2>1, KalpaFrames
<1>7. CASE own' = own /\ Yield(<<Hd>>)
  <2>1. <<Hd>> \in Frames /\ \A k \in DOMAIN <<Hd>> : <<Hd>>[k].turn \in Flying  BY <1>1, FrameTypes
  <2>2. QED  BY <1>0, <1>1, <1>2, <1>7, <2>1, KalpaFrames
<1>8. ASSUME NEW STATE e, e \in BOOLEAN, NEW emit, own' = Settled(Past(e)), Yield(Settles(Past(e), emit))
      PROVE  TypeInv' /\ Onward
  <2>1. Past(e) \in KalpaOwns /\ KalpaTurns(Past(e)) = KalpaTurns(own)  BY <1>2, <1>8, PastType
  <2>2. own' \in KalpaOwns /\ KalpaTurns(own') = KalpaTurns(own)  BY <1>8, <2>1, SettledType
  <2>3. Settles(Past(e), emit) \in {<< >>, <<End(Past(e).slot.slot, 0)>>}  BY SettlesType
  <2> DEFINE x == End(Past(e).slot.slot, 0)
  <2>4. x \in Messages /\ x.kind = "end"  BY <2>1, KalpaParts, EndType
  <2>5. Yield(<< >>) \/ Yield(<<x>>)  BY <1>8, <2>3
  <2> HIDE DEF x
  <2>6. CASE Yield(<< >>)  BY <1>0, <1>1, <1>4, <2>2, <2>6, KalpaFrames
  <2>7. CASE Yield(<<x>>)
    <3>1. <<x>> \in Frames /\ \A k \in DOMAIN <<x>> : <<x>>[k].kind # "audio"  BY <2>4, FrameTypes
    <3>2. QED  BY <1>0, <1>1, <2>2, <2>7, <3>1, KalpaFrames
  <2>8. QED  BY <2>5, <2>6, <2>7
<1>9. ASSUME NEW STATE e, e \in BOOLEAN, own' = Past(e), Yield(<< >>)
      PROVE  TypeInv' /\ Onward
  <2>1. own' \in KalpaOwns /\ KalpaTurns(own') = KalpaTurns(own)  BY <1>2, <1>9, PastType
  <2>2. QED  BY <1>0, <1>1, <1>4, <1>9, <2>1, KalpaFrames
<1>10. \/ own' = own /\ Yield(<< >>)
       \/ /\ Hd.kind = "created" /\ Yield(<< >>)
          /\ own' = [own EXCEPT !.resp = [rid |-> Hd.ctx, serves |-> ~own.slot.idle]]
       \/ own' = own /\ Yield(<<Hd>>)
       \/ own' = Settled(Past(own.utt.dead)) /\ Yield(Settles(Past(own.utt.dead), Hd.kind = "done"))
       \/ own' = Past(own.utt.dead) /\ Yield(<< >>)
       \/ own' = Past(d) /\ Yield(<< >>)
       \/ own' = Settled(Past(d)) /\ Yield(Settles(Past(d), TRUE))
  BY KalpaHears
<1> HIDE DEF d
<1>11. QED  BY <1>2, <1>3, <1>5, <1>6, <1>7, <1>8, <1>9, <1>10

\* What the end of the socket leaves.
Lost(d) == [Past(d) EXCEPT !.svc = NoService]

LEMMA LostType ==
    ASSUME own \in KalpaOwns, NEW d \in BOOLEAN
    PROVE  /\ Lost(d) \in KalpaOwns /\ Lost(d).utt = [own.utt EXCEPT !.dead = d]
           /\ Lost(d).resp = NoResponse /\ Lost(d).svc = NoService
           /\ Lost(d).igen = own.igen /\ Lost(d).dirty = own.dirty /\ Lost(d).slot = own.slot
           /\ Lost(d).at = own.at /\ Lost(d).slotted = own.slotted
           /\ Lost(d).made = own.made /\ Lost(d).crossed = own.crossed
           /\ KalpaTurns(Lost(d)) \subseteq KalpaTurns(own)
<1> DEFINE p == Past(d)
<1>1. /\ p \in KalpaOwns /\ p.utt = [own.utt EXCEPT !.dead = d]
      /\ p.resp = NoResponse
      /\ p.igen = own.igen /\ p.dirty = own.dirty /\ p.slot = own.slot
      /\ p.at = own.at /\ p.slotted = own.slotted
      /\ p.made = own.made /\ p.crossed = own.crossed
      /\ KalpaTurns(p) = KalpaTurns(own)
  BY PastType
<1>2. Lost(d) = [p EXCEPT !.svc = NoService]  BY DEF Lost
<1>3. NoService \in Services /\ NoService.buf = << >>  BY NothingTypes
<1> HIDE DEF p
<1>4. /\ Lost(d) \in KalpaOwns /\ Lost(d).utt = p.utt
      /\ Lost(d).resp = p.resp /\ Lost(d).svc = NoService
      /\ Lost(d).igen = p.igen /\ Lost(d).dirty = p.dirty /\ Lost(d).slot = p.slot
      /\ Lost(d).at = p.at /\ Lost(d).slotted = p.slotted
      /\ Lost(d).made = p.made /\ Lost(d).crossed = p.crossed
  BY <1>1, <1>2, <1>3 DEF KalpaOwns
<1>5. KalpaTurns(Lost(d)) \subseteq KalpaTurns(p)
  <2>1. TurnsOf(<< >>) = {}  BY DEF TurnsOf
  <2>2. QED  BY <1>3, <1>4, <2>1, KalpaTurnsIs
<1>6. QED  BY <1>1, <1>4, <1>5

LEMMA KalpaLoses ==
    ASSUME TypeInv, KalpaMeetsEnd
    PROVE  /\ tts = "kalpa" /\ MeetsEnd /\ link' = [link EXCEPT !.ws = "none"]
           /\ UNCHANGED <<tts, senders, wire>>
           /\ own' = Settled(Lost(own.utt.dead \/ (~own.slot.idle /\ HeardInPart)))
           /\ Yield(Settles(own, ~own.slot.idle /\ (own.utt.turn = 0 \/ HeardInPart)))
<1> DEFINE dies == ~own.slot.idle /\ HeardInPart
           emit == ~own.slot.idle /\ (own.utt.turn = 0 \/ dies)
<1>1. /\ tts = "kalpa" /\ MeetsEnd /\ link' = [link EXCEPT !.ws = "none"]
      /\ UNCHANGED <<tts, senders, wire>>
      /\ own' = Settled([own EXCEPT !.utt.dead = own.utt.dead \/ dies, !.resp = NoResponse, !.svc = NoService])
      /\ Yield(Settles(own, emit))
  BY DEF KalpaMeetsEnd, NoMoreSocket
<1>2. [own EXCEPT !.utt.dead = own.utt.dead \/ dies, !.resp = NoResponse, !.svc = NoService]
        = Lost(own.utt.dead \/ dies)
  BY DEF Lost, Past
<1>3. Settles(own, emit) = Settles(own, ~own.slot.idle /\ (own.utt.turn = 0 \/ HeardInPart))
  BY DEF Settles
<1>4. QED  BY <1>1, <1>2, <1>3

LEMMA KalpaMeetsEndStep ==
    ASSUME TypeInv, KalpaMeetsEnd
    PROVE  TypeInv' /\ Onward
<1> DEFINE d == own.utt.dead \/ (~own.slot.idle /\ HeardInPart)
           emit == ~own.slot.idle /\ (own.utt.turn = 0 \/ HeardInPart)
           frames == Settles(own, emit)
<1>1. /\ tts = "kalpa" /\ link' = [link EXCEPT !.ws = "none"] /\ UNCHANGED <<tts, senders, wire>>
      /\ own' = Settled(Lost(d)) /\ Yield(frames)
  BY KalpaLoses
<1>2. own \in KalpaOwns /\ own.utt.dead \in BOOLEAN  BY <1>1, KalpaOwnType, KalpaParts
<1>3. d \in BOOLEAN  BY <1>2
<1> HIDE DEF d
<1>4. own' \in KalpaOwns /\ KalpaTurns(own') \subseteq KalpaTurns(own)
  <2>1. Lost(d) \in KalpaOwns /\ KalpaTurns(Lost(d)) \subseteq KalpaTurns(own)
    BY <1>2, <1>3, LostType
  <2>2. own' = Settled(Lost(d))  BY <1>1
  <2>3. Settled(Lost(d)) \in KalpaOwns /\ KalpaTurns(Settled(Lost(d))) = KalpaTurns(Lost(d))
    BY <2>1, SettledType
  <2>4. QED  BY <2>1, <2>2, <2>3
<1>5. frames \in Frames /\ \A k \in DOMAIN frames : frames[k].kind # "audio"  BY <1>2, SettlesFrames
<1> HIDE DEF frames
<1>6. link' \in Sockets /\ link'.n = link.n  BY <1>1, NoSocketType DEF TypeInv
<1>7. wire' \in Seq(Messages) /\ WireFrom  BY <1>1, SameWire
<1>8. QED  BY <1>1, <1>4, <1>5, <1>6, <1>7, KalpaFrames

\* What a dial makes of Kalpa's state.
Redialled == [own EXCEPT !.slot = FreeSlot, !.resp = NoResponse, !.svc = NoService]

LEMMA RedialledType ==
    ASSUME own \in KalpaOwns
    PROVE  /\ Redialled \in KalpaOwns /\ Redialled.slot = FreeSlot
           /\ Redialled.resp = NoResponse /\ Redialled.svc = NoService
           /\ Redialled.igen = own.igen /\ Redialled.utt = own.utt /\ Redialled.dirty = own.dirty
           /\ Redialled.at = own.at /\ Redialled.slotted = own.slotted
           /\ Redialled.made = own.made /\ Redialled.crossed = own.crossed
           /\ KalpaTurns(Redialled) \subseteq KalpaTurns(own)
<1>1. FreeSlot \in SlotStates /\ NoResponse \in Responses /\ NoService \in Services
      /\ NoService.buf = << >>
  BY NothingTypes
<1>2. /\ Redialled \in KalpaOwns /\ Redialled.slot = FreeSlot
      /\ Redialled.resp = NoResponse /\ Redialled.svc = NoService
      /\ Redialled.igen = own.igen /\ Redialled.utt = own.utt /\ Redialled.dirty = own.dirty
      /\ Redialled.at = own.at /\ Redialled.slotted = own.slotted
      /\ Redialled.made = own.made /\ Redialled.crossed = own.crossed
  BY <1>1 DEF KalpaOwns, Redialled
<1>3. KalpaTurns(Redialled) \subseteq KalpaTurns(own)
  <2>1. TurnsOf(<< >>) = {}  BY DEF TurnsOf
  <2>2. QED  BY <1>1, <1>2, <2>1, KalpaTurnsIs
<1>4. QED  BY <1>2, <1>3

LEMMA KalpaDialStep ==
    ASSUME TypeInv, KalpaDial
    PROVE  TypeInv' /\ Onward
<1> DEFINE no == FALSE
           yes == TRUE
           fresh == Redialled
<1>1. tts = "kalpa" /\ Dial(fresh, no, yes) /\ no \in BOOLEAN /\ yes \in BOOLEAN
  BY DEF KalpaDial, Redialled
<1>2. own \in KalpaOwns /\ KalpaTurns(own) \subseteq Flying  BY <1>1, KalpaOwnType
<1>3. fresh \in Owns /\ KalpaTurns(fresh) \subseteq Flying  BY <1>1, <1>2, RedialledType DEF Owns
<1> HIDE DEF no, yes, fresh
<1>4. QED  BY <1>1, <1>3, DialStep

---------------------------------------------------------------------------
\* The call and the whole step.

LEMMA StartTurnStep ==
    ASSUME TypeInv, StartTurn
    PROVE  /\ TypeInv' /\ UNCHANGED <<tts, base, link, senders, own, wire, said>>
           /\ pipe'.turn = pipe.turn + 1 /\ pipe'.ids = pipe.ids \cup {pipe.turn + 1}
           /\ ~pipe.cut /\ ~pipe'.cut /\ pipe'.silent = pipe.silent
           /\ pipe'.left # 0 /\ pipe.left = 0
<1> DEFINE t == pipe.turn + 1
           l == IF t \in Pairs THEN 2 ELSE 1
           o == pipe.overlap \/ pipe.ids # {}
           I == pipe.ids \cup {t}
<1>1. /\ pipe' = [pipe EXCEPT !.turn = t, !.ids = I, !.overlap = o, !.left = l]
      /\ pipe.turn < MaxTurn /\ ~pipe.cut /\ UNCHANGED <<tts, base, link, senders, own, wire, said>>
      /\ pipe.left = 0
  BY DEF StartTurn
<1>2. pipe \in Calling /\ MaxTurn \in Nat  BY SynthesizerAssumption DEF TypeInv
<1>3. t \in Turns /\ t \in 0..MaxTurn  BY <1>1, <1>2 DEF Calling, Turns
<1>4. l \in {0, 1, 2} /\ l # 0  OBVIOUS
<1>5. o \in BOOLEAN  OBVIOUS
<1>6. I \in SUBSET Turns  BY <1>2, <1>3 DEF Calling
<1>7. t = pipe.turn + 1 /\ I = pipe.ids \cup {pipe.turn + 1}  OBVIOUS
<1> HIDE DEF t, l, o, I
<1>8. /\ pipe' \in Calling /\ pipe'.turn = t /\ pipe'.ids = I /\ pipe'.cut = pipe.cut
      /\ pipe'.silent = pipe.silent /\ pipe'.left = l
  BY <1>1, <1>2, <1>3, <1>4, <1>5, <1>6 DEF Calling
<1>9. TypeInv'  BY <1>1, <1>8 DEF TypeInv, Owns
<1>10. QED  BY <1>1, <1>4, <1>7, <1>8, <1>9

LEMMA RetireStep ==
    ASSUME TypeInv, Retire
    PROVE  /\ TypeInv' /\ UNCHANGED <<tts, base, link, senders, own, wire, said>>
           /\ pipe'.turn = pipe.turn /\ pipe'.ids = pipe.ids \ {pipe.turn}
           /\ ~pipe.cut /\ ~pipe'.cut /\ pipe'.silent /\ pipe'.left = 0
<1> DEFINE I == pipe.ids \ {pipe.turn}
           z == 0
           yes == TRUE
<1>1. /\ pipe' = [pipe EXCEPT !.ids = I, !.left = z, !.silent = yes] /\ ~pipe.cut
      /\ UNCHANGED <<tts, base, link, senders, own, wire, said>>
  BY DEF Retire
<1>2. pipe \in Calling  BY DEF TypeInv
<1>3. I \in SUBSET Turns  BY <1>2 DEF Calling
<1>4. z \in {0, 1, 2} /\ z = 0 /\ yes \in BOOLEAN /\ yes /\ I = pipe.ids \ {pipe.turn}  OBVIOUS
<1> HIDE DEF z, yes, I
<1>5. /\ pipe' \in Calling /\ pipe'.turn = pipe.turn /\ pipe'.ids = I /\ pipe'.cut = pipe.cut
      /\ pipe'.silent = yes /\ pipe'.left = z
  BY <1>1, <1>2, <1>3, <1>4 DEF Calling
<1>6. TypeInv'  BY <1>1, <1>5 DEF TypeInv, Owns
<1>7. QED  BY <1>1, <1>4, <1>5, <1>6

LEMMA InvalidateStep ==
    ASSUME TypeInv, Invalidate
    PROVE  /\ TypeInv' /\ UNCHANGED <<tts, base, link, senders, own, wire, said>>
           /\ pipe'.turn = pipe.turn /\ pipe'.ids = {} /\ pipe.cut /\ ~pipe'.cut
           /\ pipe'.silent = pipe.silent /\ pipe'.left = pipe.left
<1> DEFINE no == FALSE
<1>1. /\ pipe' = [pipe EXCEPT !.ids = {}, !.cut = no] /\ pipe.cut
      /\ UNCHANGED <<tts, base, link, senders, own, wire, said>>
  BY DEF Invalidate
<1>2. pipe \in Calling  BY DEF TypeInv
<1>3. no \in BOOLEAN /\ ~no  OBVIOUS
<1> HIDE DEF no
<1>4. /\ pipe' \in Calling /\ pipe'.turn = pipe.turn /\ pipe'.ids = {} /\ pipe'.cut = no
      /\ pipe'.silent = pipe.silent /\ pipe'.left = pipe.left
  BY <1>1, <1>2, <1>3 DEF Calling
<1>5. TypeInv'  BY <1>1, <1>4 DEF TypeInv, Owns
<1>6. QED  BY <1>1, <1>3, <1>4, <1>5

LEMMA InterruptsStep ==
    ASSUME TypeInv, Interrupts
    PROVE  TypeInv' /\ Barges
BY ElevenInterruptStep, PlainInterruptsStep, CartesiaInterruptStep, RimeInterruptStep,
   MayaInterruptStep, PixaInterruptStep, SonioxInterruptStep, V3InterruptStep,
   KalpaInterruptStep DEF Interrupts

LEMMA SendingStep ==
    ASSUME TypeInv, NEW i \in DOMAIN senders, Sending(i)
    PROVE  TypeInv' /\ Onward
<1>1. CASE \E ready : Waits(i, ready)  BY <1>1, WaitsStep
<1>2. CASE \E again : Drops(i, again)  BY <1>2, DropsStep
<1>3. CASE tts = "elevenlabs" /\ ElevenSend(i)  BY <1>3, ElevenSendStep
<1>4. CASE tts \in {"cartesia", "pixa", "deepgram"} /\ (CartesiaSend(i) \/ PixaSend(i) \/ DeepgramSend(i))
  BY <1>4, PlainSendStep
<1>5. CASE tts = "sarvam" /\ SarvamSend(i)  BY <1>5, SarvamSendStep
<1>6. CASE tts = "smallest" /\ SmallestSend(i)  BY <1>6, SmallestSendStep
<1>7. CASE tts = "rime" /\ RimeSend(i)  BY <1>7, RimeSendStep
<1>8. CASE tts = "maya" /\ MayaSend(i)  BY <1>8, MayaSendStep
<1>9. CASE tts = "soniox" /\ SonioxSend(i)  BY <1>9, SonioxSendStep
<1>10. CASE tts = "elevenlabsV3" /\ V3Send(i)  BY <1>10, V3SendStep
<1>11. CASE tts = "kalpa" /\ KalpaStarts(i)  BY <1>11, KalpaStartsStep
<1>12. QED
  BY <1>1, <1>2, <1>3, <1>4, <1>5, <1>6, <1>7, <1>8, <1>9, <1>10, <1>11 DEF Sending

LEMMA ReceivesStep ==
    ASSUME TypeInv, NEW more \in BOOLEAN, Receives(more)
    PROVE  TypeInv' /\ Onward
<1>1. ASSUME NEW p \in {"deepgram", "sarvam", "smallest"}, PlainReceive(p, more)
      PROVE  TypeInv' /\ Onward
  <2>1. tts = p  BY <1>1 DEF PlainReceive, Reads
  <2>2. PlainReceive(tts, more)  BY <1>1, <2>1
  <2>3. QED  BY <1>1, <2>1, <2>2, PlainReceiveStep
<1>2. QED
  BY <1>1, ElevenReceiveStep, CartesiaReceiveStep, RimeReceiveStep, MayaReceiveStep,
     PixaReceiveStep, SonioxReceiveStep, V3ReceiveStep, KalpaReceiveStep DEF Receives

LEMMA EndingStep ==
    ASSUME TypeInv, Ending
    PROVE  TypeInv' /\ Onward
BY SarvamMeetsEndStep, SonioxMeetsEndStep, V3MeetsEndStep, KalpaMeetsEndStep, GenerateEndsStep,
   GivesUpStep DEF Ending

LEMMA DialsStep ==
    ASSUME TypeInv, Dials
    PROVE  TypeInv' /\ Onward
<1>1. CASE tts # "kalpa"  BY <1>1, StreamDialsStep
<1>2. CASE tts = "kalpa"
  <2>1. KalpaDial
    BY <1>2 DEF Dials, ElevenDial, CartesiaDial, DeepgramDial, SarvamDial, SmallestDial, RimeDial,
                MayaDial, PixaDial, SonioxDial, V3Dial
  <2>2. QED  BY <2>1, KalpaDialStep
<1>3. QED  BY <1>1, <1>2

LEMMA SlotsStep ==
    ASSUME TypeInv, Slots
    PROVE  TypeInv' /\ Onward
BY KalpaSendsStep, SlotFreeStep, SlotTimesOutStep DEF Slots

LEMMA PushesStep ==
    ASSUME TypeInv, Pushes
    PROVE  TypeInv' /\ Asks
BY StreamPushesStep, KalpaPushStep

LEMMA StutterStep ==
    ASSUME TypeInv, UNCHANGED synVars
    PROVE  TypeInv' /\ Onward
<1>1. UNCHANGED <<tts, pipe, base, link, senders, own, wire, said>>  BY DEF synVars
<1>2. pipe' \in Calling /\ SameCall  BY <1>1, StillCall DEF TypeInv
<1>3. link' \in Sockets /\ link'.n = link.n  BY <1>1 DEF TypeInv
<1>4. QED  BY <1>1, <1>2, <1>3, EndShape, SameOwn, SameWire

\* Every step is one of the call, a push, an interruption, or goes on.
LEMMA SpeakStep ==
    ASSUME TypeInv, [SpeakNext]_synVars
    PROVE  /\ TypeInv'
           /\ StartTurn \/ Retire \/ Invalidate \/ Asks \/ Barges \/ Onward
<1>1. CASE Calls  BY <1>1, StartTurnStep, RetireStep, InvalidateStep DEF Calls
<1>2. CASE Pushes  BY <1>2, PushesStep
<1>3. CASE Interrupts  BY <1>3, InterruptsStep
<1>4. CASE \E i \in DOMAIN senders : Sending(i)  BY <1>4, SendingStep
<1>5. CASE Slots  BY <1>5, SlotsStep
<1>6. CASE Render \/ ServiceFails  BY <1>6, RenderStep, ServiceFailsStep
<1>7. CASE \E more \in BOOLEAN : Receives(more)  BY <1>7, ReceivesStep
<1>8. CASE Ending \/ Lose \/ Dials  BY <1>8, EndingStep, LoseStep, DialsStep
<1>9. CASE UNCHANGED synVars  BY <1>9, StutterStep
<1>10. QED  BY <1>1, <1>2, <1>3, <1>4, <1>5, <1>6, <1>7, <1>8, <1>9 DEF SpeakNext

---------------------------------------------------------------------------
\* The labels.

\* The providers watched for what their labels silence; ElevenLabs as long as every
\* interrupted context was closed.
Watched == tts \in Unsilenced /\ (tts = "elevenlabs" => ~own.kept)

\* What is on its way is of a turn that started.
TurnsKnown == Flying \subseteq 0..pipe.turn /\ pipe.ids \subseteq 1..pipe.turn

\* An interruption leaves nothing to push and, where labels are watched, no open turn.
CutQuiet == pipe.cut => pipe.left = 0
CutCloses == (Watched /\ pipe.cut) => ~base.open

\* ElevenLabs: an open turn or context is the current turn's.
Contexts ==
    (tts = "elevenlabs" /\ ~own.kept) =>
        /\ own.ctx # 0 => own.mine # 0
        /\ base.open => own.mine # 0

\* The labels queued for an open turn are valid; and while anything of a valid turn
\* is on its way, so is the label the next frame gets.
LabelsHold ==
    (Watched /\ Told /\ base.open /\ ~pipe.cut) => QueueIn(base, pipe.ids)
NextHolds ==
    (Watched /\ Told /\ pipe.ids \cap Flying # {}) => LabelsIn(base, pipe.ids)

LabelInv ==
    /\ TypeInv /\ TurnsKnown /\ CutQuiet /\ CutCloses /\ Contexts /\ LabelsHold /\ NextHolds
    /\ NotMuted

LEMMA KalpaOwnInit == KalpaOwn \in KalpaOwns
<1> DEFINE z == 0
           no == FALSE
           a == "text"
<1>1. KalpaOwn = [igen |-> z, utt |-> NoUtterance, dirty |-> z, slot |-> FreeSlot,
                  resp |-> NoResponse, at |-> a, slotted |-> no,
                  svc |-> NoService, made |-> z, crossed |-> no]
  BY DEF KalpaOwn
<1>2. z \in Nat /\ no \in BOOLEAN /\ a \in {"text", "end"}  OBVIOUS
<1> HIDE DEF z, no, a
<1>3. QED  BY <1>1, <1>2, NothingTypes DEF KalpaOwns

LEMMA SpeakInits ==
    ASSUME SpeakInit
    PROVE  TypeInv /\ pipe.turn = 0 /\ pipe.ids = {} /\ ~pipe.cut /\ ~base.open /\ Flying = {}
           /\ ~said.mute /\ (tts = "elevenlabs" => own.ctx = 0)
           /\ (tts = "kalpa" => own = KalpaOwn) /\ said = NothingSaid /\ wire = << >> /\ senders = << >>
<1>1. /\ tts \in Engines /\ pipe = NoCall /\ base = NoPush /\ link = NoSocket /\ senders = << >>
      /\ own = (IF tts = "kalpa" THEN KalpaOwn ELSE StreamOwn) /\ wire = << >> /\ said = NothingSaid
  BY DEF SpeakInit, SynInit
<1> DEFINE no == FALSE
           z == 0
           e == << >>
           w == "none"
           P == [t \in Turns |-> {}]
<1>2. no \in BOOLEAN /\ ~no /\ z \in 0..MaxTurn /\ z \in {0, 1, 2} /\ z \in Nat /\ z \in 0..MaxFails
      /\ e \in Seq(Turns) /\ e \in Seq(Senders) /\ e \in Seq(Messages)
      /\ w \in {"none", "open", "closing", "closed", "dying"} /\ P \in [Turns -> SUBSET Parts]
      /\ z = 0 /\ e = << >>
  BY SynthesizerAssumption
<1>3. /\ pipe = [turn |-> z, ids |-> {}, left |-> z, cut |-> no, silent |-> no, overlap |-> no, over |-> no]
      /\ base = [q |-> e, meta |-> z, open |-> no, sock |-> z, last |-> no, error |-> no]
      /\ link = [ws |-> w, n |-> z, tries |-> z, lost |-> z, forgot |-> no,
                unmet |-> no]
      /\ said = [parts |-> P, ended |-> {}, foreign |-> no, mute |-> no, clipped |-> no, again |-> no,
                 order |-> no, mixed |-> no, late |-> no]
  BY <1>1 DEF NoCall, NoPush, NoSocket, NothingSaid
<1> HIDE DEF no, z, w, P
<1>4. pipe \in Calling /\ pipe.turn = z /\ pipe.ids = {} /\ pipe.cut = no  BY <1>2, <1>3 DEF Calling
<1>5. base \in Bases /\ base.open = no /\ base.sock = z  BY <1>2, <1>3 DEF Bases
<1>6. link \in Sockets /\ link.n = z  BY <1>2, <1>3 DEF Sockets
<1>7. said \in Verdicts /\ said.mute = no  BY <1>2, <1>3 DEF Verdicts
<1>8. own \in Owns  BY <1>1, KalpaOwnInit, StreamOwnInit DEF Owns
<1>9. tts = "elevenlabs" => own.ctx = 0  BY <1>1 DEF StreamOwn
<1>10. TypeInv  BY <1>1, <1>2, <1>4, <1>5, <1>6, <1>7, <1>8 DEF TypeInv
<1>11. Flying = {}
  <2>1. NoService.buf = << >> /\ NoUtterance.chunks = << >>  BY NothingTypes
  <2>2. DOMAIN << >> = {}  OBVIOUS
  <2>3. tts = "kalpa" => own.svc.buf = << >> /\ own.utt.chunks = << >>  BY <1>1, <2>1 DEF KalpaOwn
  <2>4. QED  BY <1>1, <2>2, <2>3 DEF Flying
<1>12. QED  BY <1>1, <1>2, <1>4, <1>5, <1>7, <1>9, <1>10, <1>11

LEMMA LabelInit ==
    ASSUME SpeakInit
    PROVE  LabelInv
<1>1. /\ TypeInv /\ pipe.turn = 0 /\ pipe.ids = {} /\ ~pipe.cut /\ ~base.open /\ Flying = {}
      /\ ~said.mute /\ (tts = "elevenlabs" => own.ctx = 0)
  BY SpeakInits
<1>2. TurnsKnown  BY <1>1 DEF TurnsKnown
<1>3. CutQuiet /\ CutCloses /\ Contexts /\ LabelsHold /\ NextHolds /\ NotMuted
  BY <1>1 DEF CutQuiet, CutCloses, Contexts, LabelsHold, NextHolds, NotMuted
<1>4. QED  BY <1>1, <1>2, <1>3 DEF LabelInv

LEMMA NoTurnZero ==
    ASSUME TypeInv, TurnsKnown
    PROVE  0 \notin pipe.ids /\ pipe.turn \in Nat /\ pipe.turn + 1 \notin Flying
<1>1. pipe.turn \in 0..MaxTurn /\ pipe.ids \subseteq Turns  BY DEF TypeInv, Calling
<1>2. QED  BY <1>1, SynthesizerAssumption DEF Turns, TurnsKnown

LEMMA LabelOnward ==
    ASSUME LabelInv, TypeInv', Onward
    PROVE  LabelInv'
<1>1. /\ TypeInv /\ TurnsKnown /\ CutQuiet /\ CutCloses /\ Contexts /\ LabelsHold /\ NextHolds /\ NotMuted
  BY DEF LabelInv
<1>2. /\ tts' = tts /\ SameCall /\ SameLabels /\ NoNewWrong /\ SameContext /\ Flying' \subseteq Flying \cup {0}
  BY DEF Onward
<1>3. /\ pipe'.turn = pipe.turn /\ pipe'.ids = pipe.ids /\ pipe'.cut = pipe.cut
      /\ pipe'.silent = pipe.silent /\ pipe'.left \in {0, pipe.left}
  BY <1>2 DEF SameCall
<1>4. 0 \notin pipe.ids /\ pipe.turn \in Nat  BY <1>1, NoTurnZero
<1>5. pipe'.ids \cap Flying' \subseteq pipe.ids \cap Flying  BY <1>2, <1>3, <1>4
<1>6. Watched' <=> Watched  BY <1>2 DEF Watched, SameContext
<1>7. Told' <=> Told  BY <1>3 DEF Told
<1>8. TurnsKnown'  BY <1>1, <1>2, <1>3, <1>4 DEF TurnsKnown
<1>9. CutQuiet'  BY <1>1, <1>3 DEF CutQuiet
<1>10. base'.open => base.open  BY <1>2 DEF SameLabels
<1>11. CutCloses'  BY <1>1, <1>3, <1>6, <1>10 DEF CutCloses
<1>12. Contexts'  BY <1>1, <1>2, <1>10 DEF Contexts, SameContext
<1>13. LabelsHold'
  <2>1. ASSUME Watched', Told', base'.open, ~pipe'.cut PROVE QueueIn(base', pipe'.ids)
    <3>1. QueueIn(base, pipe.ids)  BY <1>1, <1>3, <1>6, <1>7, <1>10, <2>1 DEF LabelsHold
    <3>2. QED  BY <1>2, <1>3, <3>1 DEF SameLabels
  <2>2. QED  BY <2>1 DEF LabelsHold
<1>14. NextHolds'
  <2>1. ASSUME Watched', Told', pipe'.ids \cap Flying' # {} PROVE LabelsIn(base', pipe'.ids)
    <3>1. LabelsIn(base, pipe.ids)  BY <1>1, <1>5, <1>6, <1>7, <2>1 DEF NextHolds
    <3>2. QED  BY <1>2, <1>3, <3>1 DEF SameLabels
  <2>2. QED  BY <2>1 DEF NextHolds
<1>15. NotMuted'
  <2>1. ASSUME Told', tts' = "elevenlabs" => ~own'.kept, said'.mute PROVE FALSE
    <3>1. Told /\ (tts = "elevenlabs" => ~own.kept)  BY <1>2, <1>7, <2>1 DEF SameContext
    <3>2. ~said.mute  BY <1>1, <3>1 DEF NotMuted
    <3>3. tts \in Unsilenced /\ ~LabelsIn(base, pipe.ids) /\ pipe.ids \cap Flying # {}
      BY <1>2, <2>1, <3>2 DEF NoNewWrong
    <3>4. QED  BY <1>1, <3>1, <3>3 DEF NextHolds, Watched
  <2>2. QED  BY <2>1 DEF NotMuted
<1>16. QED  BY <1>8, <1>9, <1>11, <1>12, <1>13, <1>14, <1>15 DEF LabelInv

LEMMA ElevenPushOwn ==
    ASSUME TypeInv, tts = "elevenlabs"
    PROVE  /\ own.ctx = 0 => /\ ElevenPush(pipe.left = 1).mine # 0
                             /\ ElevenPush(pipe.left = 1).kept = own.kept
           /\ own.ctx # 0 => ElevenPush(pipe.left = 1) = own
<1>1. own \in StreamOwns  BY StreamOwnType
<1>2. CASE own.ctx = 0
  <2> DEFINE n == own.minted + 1
  <2>1. n \in Nat /\ n # 0  BY <1>1 DEF StreamOwns
  <2>2. Minted(own) \in StreamOwns /\ Minted(own).kept = own.kept  BY <1>1, MintedType
  <2>3. ElevenPush(pipe.left = 1) = [Minted(own) EXCEPT !.mine = n]  BY <1>2 DEF ElevenPush
  <2> HIDE DEF n
  <2>4. QED  BY <1>2, <2>1, <2>2, <2>3 DEF StreamOwns
<1>3. CASE own.ctx # 0  BY <1>3 DEF ElevenPush
<1>4. QED  BY <1>2, <1>3

LEMMA LabelAsks ==
    ASSUME LabelInv, TypeInv', Asks
    PROVE  LabelInv'
<1>1. /\ TypeInv /\ TurnsKnown /\ CutQuiet /\ CutCloses /\ Contexts /\ LabelsHold /\ NextHolds /\ NotMuted
  BY DEF LabelInv
<1>2. /\ tts' = tts /\ said' = said /\ pipe.left # 0 /\ pipe.turn \in pipe.ids
      /\ pipe'.turn = pipe.turn /\ pipe'.ids = pipe.ids /\ pipe'.cut = pipe.cut
      /\ pipe'.silent = pipe.silent
      /\ tts \in Unsilenced /\ (base.open => QueueIn(base, pipe.ids)) => LabelsIn(base', pipe.ids)
      /\ Flying' \subseteq Flying \cup {pipe.turn}
      /\ tts = "elevenlabs" => own' = ElevenPush(pipe.left = 1)
  BY DEF Asks
<1>3. ~pipe.cut /\ ~pipe'.cut  BY <1>1, <1>2 DEF CutQuiet
<1>4. tts = "elevenlabs" => /\ own'.kept = own.kept
                            /\ own.ctx = 0 => own'.mine # 0
                            /\ own.ctx # 0 => own' = own
  BY <1>1, <1>2, ElevenPushOwn
<1>5. (Watched' <=> Watched) /\ (Told' <=> Told)  BY <1>2, <1>4 DEF Watched, Told
<1>6. TurnsKnown'
  <2>1. pipe.turn \in Nat  BY <1>1, NoTurnZero
  <2>2. QED  BY <1>1, <1>2, <2>1 DEF TurnsKnown
<1>7. CutQuiet' /\ CutCloses'  BY <1>3 DEF CutQuiet, CutCloses
<1>8. Contexts'
  <2>1. ASSUME tts = "elevenlabs", ~own.kept PROVE own'.mine # 0
    <3>1. own.ctx # 0 => own.mine # 0  BY <1>1, <2>1 DEF Contexts
    <3>2. QED  BY <1>4, <2>1, <3>1
  <2>2. QED  BY <1>2, <1>4, <2>1 DEF Contexts
<1>9. ASSUME Watched, Told PROVE LabelsIn(base', pipe'.ids)
  <2>1. base.open => QueueIn(base, pipe.ids)  BY <1>1, <1>3, <1>9 DEF LabelsHold
  <2>2. QED  BY <1>2, <1>9, <2>1 DEF Watched
<1>10. LabelsHold' /\ NextHolds'  BY <1>5, <1>9 DEF LabelsHold, NextHolds, LabelsIn, QueueIn
<1>11. NotMuted'  BY <1>1, <1>2, <1>4, <1>5 DEF NotMuted
<1>12. QED  BY <1>6, <1>7, <1>8, <1>10, <1>11 DEF LabelInv

LEMMA LabelBarges ==
    ASSUME LabelInv, TypeInv', Barges
    PROVE  LabelInv'
<1>1. /\ TypeInv /\ TurnsKnown /\ CutQuiet /\ CutCloses /\ Contexts /\ LabelsHold /\ NextHolds /\ NotMuted
  BY DEF LabelInv
<1>2. /\ tts' = tts /\ said' = said
      /\ pipe'.turn = pipe.turn /\ pipe'.ids = pipe.ids /\ pipe'.silent = pipe.silent
      /\ pipe'.cut /\ pipe'.left = 0
      /\ base'.q = base.q /\ base'.meta = base.meta /\ (base'.open => base.open)
      /\ Flying' \subseteq Flying \cup {0}
      /\ tts \in Unsilenced \ {"elevenlabs"} => ~base'.open
  BY DEF Barges
<1>3. tts = "elevenlabs" => /\ own'.mine = 0 /\ (base'.open => own.mine = 0)
                            /\ ~own'.kept => ~own.kept /\ own'.ctx = 0
  BY DEF Barges
<1>4. 0 \notin pipe.ids /\ pipe.turn \in Nat  BY <1>1, NoTurnZero
<1>5. (Watched' => Watched) /\ (Told' <=> Told)  BY <1>2, <1>3 DEF Watched, Told
<1>6. TurnsKnown' /\ CutQuiet'  BY <1>1, <1>2, <1>4 DEF TurnsKnown, CutQuiet
<1>7. ASSUME Watched' PROVE ~base'.open
  <2>1. CASE tts = "elevenlabs"
    <3>1. ~own'.kept  BY <1>2, <1>7, <2>1 DEF Watched
    <3>2. base.open => own.mine # 0  BY <1>1, <1>3, <2>1, <3>1 DEF Contexts
    <3>3. QED  BY <1>2, <1>3, <2>1, <3>2
  <2>2. CASE tts # "elevenlabs"
    <3>1. tts \in Unsilenced \ {"elevenlabs"}  BY <1>2, <1>7, <2>2 DEF Watched
    <3>2. QED  BY <1>2, <3>1
  <2>3. QED  BY <2>1, <2>2
<1>8. CutCloses' /\ LabelsHold'  BY <1>7 DEF CutCloses, LabelsHold
<1>9. Contexts'
  <2>1. ASSUME tts' = "elevenlabs", ~own'.kept PROVE own'.ctx = 0 /\ ~base'.open
    <3>1. Watched'  BY <2>1 DEF Watched, Unsilenced
    <3>2. QED  BY <1>2, <1>3, <1>7, <2>1, <3>1
  <2>2. QED  BY <2>1 DEF Contexts
<1>10. NextHolds'
  <2>1. ASSUME Watched', Told', pipe'.ids \cap Flying' # {} PROVE LabelsIn(base', pipe'.ids)
    <3>1. pipe.ids \cap Flying # {}  BY <1>2, <1>4, <2>1
    <3>2. LabelsIn(base, pipe.ids)  BY <1>1, <1>5, <2>1, <3>1 DEF NextHolds
    <3>3. QED  BY <1>2, <3>2 DEF LabelsIn
  <2>2. QED  BY <2>1 DEF NextHolds
<1>11. NotMuted'  BY <1>1, <1>2, <1>3, <1>5 DEF NotMuted
<1>12. QED  BY <1>6, <1>8, <1>9, <1>10, <1>11 DEF LabelInv

LEMMA LabelCalls ==
    ASSUME LabelInv, Calls
    PROVE  LabelInv'
<1>1. /\ TypeInv /\ TurnsKnown /\ CutQuiet /\ CutCloses /\ Contexts /\ LabelsHold /\ NextHolds /\ NotMuted
  BY DEF LabelInv
<1>2. UNCHANGED <<tts, base, link, senders, own, wire, said>> /\ TypeInv'
  BY <1>1, StartTurnStep, RetireStep, InvalidateStep DEF Calls
<1>3. Flying' = Flying /\ (Watched' <=> Watched) /\ (Contexts' <=> Contexts)
  BY <1>2 DEF Flying, Watched, Contexts
<1>4. pipe.turn \in Nat /\ pipe.turn + 1 \notin Flying  BY <1>1, NoTurnZero
<1>5. CASE StartTurn
  <2>1. /\ pipe'.turn = pipe.turn + 1 /\ pipe'.ids = pipe.ids \cup {pipe.turn + 1}
        /\ ~pipe.cut /\ ~pipe'.cut /\ pipe'.silent = pipe.silent
    BY <1>1, <1>5, StartTurnStep
  <2>2. TurnsKnown' /\ CutQuiet' /\ CutCloses'
    BY <1>1, <1>3, <1>4, <2>1 DEF TurnsKnown, CutQuiet, CutCloses
  <2>3. LabelsHold'  BY <1>1, <1>2, <1>3, <2>1 DEF LabelsHold, QueueIn, Told
  <2>4. NextHolds'  BY <1>1, <1>2, <1>3, <1>4, <2>1 DEF NextHolds, LabelsIn, Told
  <2>5. NotMuted'  BY <1>1, <1>2, <2>1 DEF NotMuted, Told
  <2>6. QED  BY <1>1, <1>2, <1>3, <2>2, <2>3, <2>4, <2>5 DEF LabelInv
<1>6. CASE Retire
  <2>1. /\ pipe'.turn = pipe.turn /\ pipe'.ids = pipe.ids \ {pipe.turn}
        /\ ~pipe'.cut /\ pipe'.silent
    BY <1>1, <1>6, RetireStep
  <2>2. TurnsKnown' /\ CutQuiet' /\ CutCloses'
    BY <1>1, <1>3, <1>4, <2>1 DEF TurnsKnown, CutQuiet, CutCloses
  <2>3. LabelsHold' /\ NextHolds' /\ NotMuted'  BY <2>1 DEF LabelsHold, NextHolds, NotMuted, Told
  <2>4. QED  BY <1>1, <1>2, <1>3, <2>2, <2>3 DEF LabelInv
<1>7. CASE Invalidate
  <2>1. /\ pipe'.turn = pipe.turn /\ pipe'.ids = {} /\ pipe.cut /\ ~pipe'.cut
        /\ pipe'.silent = pipe.silent
    BY <1>1, <1>7, InvalidateStep
  <2>2. TurnsKnown' /\ CutQuiet' /\ CutCloses'
    BY <1>1, <1>3, <1>4, <2>1 DEF TurnsKnown, CutQuiet, CutCloses
  <2>3. LabelsHold' /\ NextHolds'
    BY <1>1, <1>2, <1>3, <2>1 DEF LabelsHold, NextHolds, CutCloses
  <2>4. NotMuted'  BY <1>1, <1>2, <2>1 DEF NotMuted, Told
  <2>5. QED  BY <1>1, <1>2, <1>3, <2>2, <2>3, <2>4 DEF LabelInv
<1>8. QED  BY <1>5, <1>6, <1>7 DEF Calls

LEMMA LabelNext ==
    ASSUME LabelInv, [SpeakNext]_synVars
    PROVE  LabelInv'
<1>1. TypeInv  BY DEF LabelInv
<1>2. TypeInv' /\ (StartTurn \/ Retire \/ Invalidate \/ Asks \/ Barges \/ Onward)
  BY <1>1, SpeakStep
<1>3. QED  BY <1>2, LabelCalls, LabelAsks, LabelBarges, LabelOnward DEF Calls

\* The invariant behind the theorems below: what is in flight, the labels and the turns
\* that are valid agree.
THEOREM LabelInvariant == SpeakSpec => []LabelInv
<1>1. SpeakInit => LabelInv  BY LabelInit
<1>2. LabelInv /\ [SpeakNext]_synVars => LabelInv'  BY LabelNext
<1>3. QED  BY <1>1, <1>2, PTL DEF SpeakSpec

LEMMA TypeImplies == TypeInv => SpeakTypeOK
<1> SUFFICES ASSUME TypeInv PROVE SpeakTypeOK  OBVIOUS
<1>1. /\ tts \in Engines /\ pipe \in Calling /\ base \in Bases /\ link \in Sockets
      /\ senders \in Seq(Senders) /\ wire \in Seq(Messages) /\ said \in Verdicts
      /\ base.sock <= link.n
  BY DEF TypeInv
<1>2. pipe.turn \in 0..MaxTurn /\ pipe.ids \subseteq Turns /\ pipe.left \in {0, 1, 2}  BY <1>1 DEF Calling
<1>3. pipe.left \in 0..2  BY <1>2
<1>4. base.q \in Seq(Turns) /\ base.meta \in 0..MaxTurn /\ base.sock \in Nat  BY <1>1 DEF Bases
<1>5. /\ link.ws \in {"none", "open", "closing", "closed", "dying"} /\ link.tries \in 0..MaxFails
      /\ link.n \in Nat
  BY <1>1 DEF Sockets
<1>6. base.sock \in 0..link.n  BY <1>1, <1>4, <1>5
<1>7. \A i \in DOMAIN senders : senders[i].turn \in Turns /\ senders[i].part \in Parts
  BY <1>1, SenderType
<1>8. \A i \in DOMAIN wire : wire[i].turn \in 0..MaxTurn
  <2>1. \A i \in DOMAIN wire : wire[i] \in Messages  BY <1>1, LenProperties, ElementOfSeq
  <2>2. QED  BY <2>1 DEF Messages
<1>9. \A t \in Turns : said.parts[t] \subseteq Parts  BY <1>1 DEF Verdicts
<1>10. QED  BY <1>1, <1>2, <1>3, <1>4, <1>5, <1>6, <1>7, <1>8, <1>9 DEF SpeakTypeOK

\* Every variable of every synthesizer keeps its type, for any turns, sockets and errors.
THEOREM SpeakTypesHold == SpeakSpec => []SpeakTypeOK
<1>1. LabelInv => SpeakTypeOK  BY TypeImplies DEF LabelInv
<1>2. QED  BY <1>1, LabelInvariant, PTL

\* _push_stream drops what older turns left queued, and an interruption closes the turn:
\* while a turn of Kalpa or ElevenLabs v3 is open, no label of a retired turn is queued.
THEOREM LabelsStayValid == SpeakSpec => []LabelsOfValidTurns
<1>1. LabelInv => LabelsOfValidTurns
  BY DEF LabelInv, LabelsHold, LabelsOfValidTurns, Watched, Unsilenced, Exact, QueueIn
<1>2. QED  BY <1>1, LabelInvariant, PTL

\* __listen_synthesizer never drops the audio of a valid turn of Kalpa or ElevenLabs
\* under the label of a retired one, if the synthesizer was told of every drop.
THEOREM NeverMuted == SpeakSpec => []NotMuted
<1>1. LabelInv => NotMuted  BY DEF LabelInv
<1>2. QED  BY <1>1, LabelInvariant, PTL
=============================================================================
