---------------------- MODULE KalpaSynthesizer_proofs ----------------------
(***************************************************************************)
(* What Kalpa promises beyond the other providers: its turns are kept      *)
(* apart by a lock, a slot and an epoch, so no turn is ended by another's  *)
(* end, no audio is played under another turn's label, no text is rendered *)
(* as the continuation of another turn's, and what was heard is not sent   *)
(* again on the next socket.                                               *)
(***************************************************************************)
EXTENDS Speaking_proofs

\* The steps of a call that Kalpa speaks.
LEMMA KalpaCases ==
    ASSUME TypeInv, tts = "kalpa", [SpeakNext]_synVars
    PROVE  \/ Calls
           \/ Pushes
           \/ KalpaInterrupt
           \/ \E i \in DOMAIN senders : KalpaStarts(i)
           \/ KalpaSends \/ SlotFree \/ SlotTimesOut
           \/ Render \/ ServiceFails
           \/ \E more : KalpaReceive(more)
           \/ KalpaMeetsEnd \/ GivesUp \/ Lose \/ KalpaDial
           \/ UNCHANGED synVars
<1>1. Interrupts => KalpaInterrupt
  BY DEF Interrupts, Interrupted, ElevenInterrupt, CartesiaInterrupt, DeepgramInterrupt, RimeInterrupt,
         MayaInterrupt, PixaInterrupt, SonioxInterrupt, V3Interrupt, PlainInterrupt
<1>2. \A i \in DOMAIN senders : Sending(i) => KalpaStarts(i)  BY DEF Sending
<1>3. \A more : Receives(more) => KalpaReceive(more)
  BY DEF Receives, ElevenReceive, CartesiaReceive, RimeReceive, MayaReceive, PixaReceive,
         SonioxReceive, V3Receive, PlainReceive, Reads
<1>4. Ending => KalpaMeetsEnd \/ GivesUp
  BY DEF Ending, SarvamMeetsEnd, SonioxMeetsEnd, V3MeetsEnd
<1>5. Dials => KalpaDial
  BY DEF Dials, ElevenDial, CartesiaDial, DeepgramDial, SarvamDial, SmallestDial, RimeDial,
         MayaDial, PixaDial, SonioxDial, V3Dial
<1>6. QED  BY <1>1, <1>2, <1>3, <1>4, <1>5 DEF SpeakNext, Slots

---------------------------------------------------------------------------
\* Ends.  A turn that was barged in on ends no other one.

\* An interruption passes the senders there are by, gives the slot up and forgets the
\* utterance; the slot, as long as it is not given up, is a valid turn's.
Epochs ==
    /\ \A i \in DOMAIN senders : senders[i].epoch <= own.igen
    /\ pipe.cut => /\ \A i \in DOMAIN senders : senders[i].epoch # own.igen
                   /\ own.slot.idle \/ own.slot.gone
                   /\ own.utt.turn = 0
SlotValid == (Told /\ ~own.slot.idle /\ ~own.slot.gone) => own.slot.slot \in pipe.ids
EndInv == Epochs /\ SlotValid /\ OwnEnd

\* The holder of the lock is not retired.
Fresh == Holding /\ ~Retired(Me)
\* What a step leaves of the epochs and the slot, but a push, an interruption and a
\* step of the call.
EpochsFrom == \A j \in DOMAIN senders' : \E i \in DOMAIN senders : senders'[j].epoch = senders[i].epoch
SlotFrom ==
    \/ own'.slot.idle
    \/ /\ ~own.slot.idle /\ own'.slot.slot = own.slot.slot
       /\ own.slot.gone => own'.slot.gone
    \/ Fresh /\ own'.slot.slot = Me.turn
HoldsOn ==
    /\ own'.igen = own.igen /\ EpochsFrom /\ SlotFrom
    /\ own'.utt.turn \in {own.utt.turn, 0} \/ Fresh
    /\ said'.clipped => \/ said.clipped
                        \/ ~own.slot.idle /\ ~own.slot.gone /\ own.slot.slot \notin pipe.ids

LEMMA FreshCall ==
    ASSUME TypeInv, Epochs, Fresh
    PROVE  ~pipe.cut /\ Me.turn \in pipe.ids
<1>1. 1 \in DOMAIN senders /\ Me.epoch = own.igen /\ Me.turn \in pipe.ids
  BY MeType DEF Fresh, Retired
<1>2. QED  BY <1>1 DEF Epochs, Me

LEMMA EndHolds ==
    ASSUME TypeInv, EndInv, SameCall, HoldsOn
    PROVE  EndInv'
<1>1. Epochs /\ SlotValid /\ OwnEnd  BY DEF EndInv
<1>2. pipe'.ids = pipe.ids /\ pipe'.cut = pipe.cut /\ (Told' <=> Told)  BY DEF SameCall, Told
<1>3. /\ own'.igen = own.igen /\ EpochsFrom /\ SlotFrom
      /\ (own'.utt.turn \in {own.utt.turn, 0} \/ Fresh)
      /\ said'.clipped => \/ said.clipped
                          \/ ~own.slot.idle /\ ~own.slot.gone /\ own.slot.slot \notin pipe.ids
  BY DEF HoldsOn
<1>4. Epochs'
  <2>1. \A j \in DOMAIN senders' : senders'[j].epoch <= own'.igen
    BY <1>1, <1>3 DEF Epochs, EpochsFrom
  <2>2. ASSUME pipe'.cut
        PROVE  /\ \A j \in DOMAIN senders' : senders'[j].epoch # own'.igen
               /\ own'.slot.idle \/ own'.slot.gone
               /\ own'.utt.turn = 0
    <3>1. ~Fresh  BY <1>1, <1>2, <2>2, FreshCall
    <3>2. QED  BY <1>1, <1>2, <1>3, <2>2, <3>1 DEF Epochs, EpochsFrom, SlotFrom
  <2>3. QED  BY <2>1, <2>2 DEF Epochs
<1>5. SlotValid'
  <2>1. ASSUME Told', ~own'.slot.idle, ~own'.slot.gone
        PROVE  own'.slot.slot \in pipe'.ids
    <3>1. CASE Fresh /\ own'.slot.slot = Me.turn  BY <1>1, <1>2, <3>1, FreshCall
    <3>2. CASE ~own.slot.idle /\ own'.slot.slot = own.slot.slot /\ ~own.slot.gone
      BY <1>1, <1>2, <2>1, <3>2 DEF SlotValid
    <3>3. QED  BY <1>3, <2>1, <3>1, <3>2 DEF SlotFrom
  <2>2. QED  BY <2>1 DEF SlotValid
<1>6. OwnEnd'
  <2>1. ASSUME Told', said'.clipped PROVE FALSE
    <3>1. Told /\ ~said.clipped  BY <1>1, <1>2, <2>1 DEF OwnEnd
    <3>2. ~own.slot.idle /\ ~own.slot.gone /\ own.slot.slot \notin pipe.ids  BY <1>3, <2>1, <3>1
    <3>3. QED  BY <1>1, <3>1, <3>2 DEF SlotValid
  <2>2. QED  BY <2>1 DEF OwnEnd
<1>7. QED  BY <1>4, <1>5, <1>6 DEF EndInv

LEMMA EndCalls ==
    ASSUME TypeInv, EndInv, Calls
    PROVE  EndInv'
<1>1. Epochs /\ SlotValid /\ OwnEnd  BY DEF EndInv
<1>2. UNCHANGED <<tts, base, link, senders, own, wire, said>>
  BY StartTurnStep, RetireStep, InvalidateStep DEF Calls
<1>3. CASE StartTurn
  <2>1. pipe'.ids = pipe.ids \cup {pipe.turn + 1} /\ ~pipe'.cut /\ pipe'.silent = pipe.silent
    BY <1>3, StartTurnStep
  <2>2. QED  BY <1>1, <1>2, <2>1 DEF EndInv, Epochs, SlotValid, OwnEnd, Told
<1>4. CASE Retire
  <2>1. ~pipe'.cut /\ pipe'.silent  BY <1>4, RetireStep
  <2>2. QED  BY <1>1, <1>2, <2>1 DEF EndInv, Epochs, SlotValid, OwnEnd, Told
<1>5. CASE Invalidate
  <2>1. pipe.cut /\ ~pipe'.cut /\ pipe'.silent = pipe.silent  BY <1>5, InvalidateStep
  <2>2. QED  BY <1>1, <1>2, <2>1 DEF EndInv, Epochs, SlotValid, OwnEnd, Told
<1>6. QED  BY <1>3, <1>4, <1>5 DEF Calls

---------------------------------------------------------------------------
\* What the frames of a message do to what was heard.

LEMMA YieldNothing ==
    ASSUME Yield(<< >>)
    PROVE  UNCHANGED <<pipe, base, said>>
BY DEF Yield

LEMMA YieldFrame ==
    ASSUME TypeInv, NEW STATE m, m \in Messages, Yield(<<m>>)
    PROVE  /\ pipe'.ids = pipe.ids /\ pipe'.cut = pipe.cut /\ pipe'.silent = pipe.silent
           /\ \/ said' = said
              \/ /\ ~base.error /\ said' = Heard(said, Label(base), m)
                 /\ Wrongs(said, said', Label(base), m)
<1> DEFINE f == <<m>>
<1>1. f # << >> /\ Len(f) = 1 /\ f[1] = m  OBVIOUS
<1>2. Yield(f)  OBVIOUS
<1> HIDE DEF f
<1>3. CASE base.error
  <2>1. pipe' = [pipe EXCEPT !.over = TRUE, !.left = 0] /\ said' = said
    BY <1>1, <1>2, <1>3 DEF Yield
  <2>2. QED  BY <2>1 DEF TypeInv, Calling
<1>4. CASE ~base.error
  <2>1. pipe' = pipe /\ said' = Heard(said, Label(base), m)
    BY <1>1, <1>2, <1>4 DEF Yield
  <2>2. base \in Bases /\ said \in Verdicts /\ pipe \in Calling  BY DEF TypeInv
  <2>3. Label(base) \in 0..MaxTurn  BY <2>2, LabelledType
  <2>4. Wrongs(said, Heard(said, Label(base), m), Label(base), m)  BY <2>2, <2>3, HeardType
  <2>5. QED  BY <1>4, <2>1, <2>4
<1>5. QED  BY <1>3, <1>4

\* What a settled slot may do to what was heard: its end may complete a turn.
EndsHeard(s, t) ==
    /\ t.foreign => s.foreign
    /\ t.clipped => \/ s.clipped
                    \/ ~own.slot.idle /\ ~own.slot.gone /\ own.slot.slot \notin pipe.ids
    /\ t.again => s.again
    /\ t.mixed => s.mixed
    /\ \A u \in Turns : t.parts[u] \subseteq s.parts[u]

LEMMA SettlesSaid ==
    ASSUME TypeInv, NEW STATE p, p \in KalpaOwns, p.slot = own.slot, NEW emit, Yield(Settles(p, emit))
    PROVE  EndsHeard(said, said')
<1> DEFINE e == End(p.slot.slot, 0)
<1>1. Settles(p, emit) = << >> \/ (Settles(p, emit) = <<e>> /\ ~p.slot.idle /\ ~p.slot.gone)
  <2>1. Settles(p, emit) \in {<< >>, <<e>>}  BY SettlesType
  <2>2. Settles(p, emit) # << >> => ~p.slot.idle /\ ~p.slot.gone  BY SettlesType
  <2>3. QED  BY <2>1, <2>2
<1>2. CASE Settles(p, emit) = << >>
  <2>1. said' = said  BY <1>2, YieldNothing
  <2>2. QED  BY <2>1 DEF EndsHeard
<1>3. CASE Settles(p, emit) = <<e>> /\ ~p.slot.idle /\ ~p.slot.gone
  <2>1. e \in Messages /\ e.kind = "end" /\ e.turn = p.slot.slot  BY KalpaParts, EndType
  <2>2. Yield(<<e>>)  BY <1>3
  <2> HIDE DEF e
  <2>3. said' = said \/ Wrongs(said, said', Label(base), e)  BY <2>1, <2>2, YieldFrame
  <2>4. QED  BY <1>3, <2>1, <2>3 DEF Wrongs, EndsHeard
<1>4. QED  BY <1>1, <1>2, <1>3

---------------------------------------------------------------------------
\* Every step but the call's holds on to the epochs and to the slot.

LEMMA TailEpochs ==
    ASSUME senders \in Seq(Senders), senders # << >>, senders' \in {senders, Tail(senders)}
    PROVE  EpochsFrom
BY TailSenders DEF EpochsFrom

\* The slot, the utterance and what was heard stay as they are.
LEMMA HoldsSame ==
    ASSUME own'.igen = own.igen, own'.slot = own.slot \/ own'.slot.idle,
           own'.utt.turn \in {own.utt.turn, 0} \/ Fresh, EpochsFrom, said'.clipped => said.clipped
    PROVE  HoldsOn
BY DEF HoldsOn, SlotFrom

LEMMA StartsHolds ==
    ASSUME TypeInv, tts = "kalpa", NEW i \in DOMAIN senders, KalpaStarts(i)
    PROVE  HoldsOn
<1>1. UNCHANGED <<own, said>> /\ senders \in Seq(Senders)  BY DEF KalpaStarts, TypeInv
<1>2. EpochsFrom
  <2>1. CASE senders' = Without(i)
    <3>1. \A j \in DOMAIN Without(i) : \E k \in DOMAIN senders : Without(i)[j] = senders[k]
      <4>1. Len(senders) \in Nat /\ DOMAIN senders = 1..Len(senders) /\ i \in 1..Len(senders)
        BY <1>1, LenProperties
      <4>2. \A j \in DOMAIN Without(i) : /\ j \in 1..(Len(senders) - 1)
                                         /\ Without(i)[j] = IF j < i THEN senders[j] ELSE senders[j + 1]
        BY <1>1, WithoutType
      <4>3. \A j \in 1..(Len(senders) - 1) : j \in DOMAIN senders /\ j + 1 \in DOMAIN senders  BY <4>1
      <4>4. QED  BY <4>2, <4>3
    <3>2. QED  BY <2>1, <3>1 DEF EpochsFrom
  <2>2. CASE senders' = [senders EXCEPT ![i].waits = TRUE]
    <3>1. \A j \in DOMAIN senders : senders'[j].epoch = senders[j].epoch
      BY <1>1, <2>2, SenderType DEF Senders
    <3>2. DOMAIN senders' = DOMAIN senders  BY <2>2
    <3>3. QED  BY <3>1, <3>2 DEF EpochsFrom
  <2>3. QED  BY <2>1, <2>2 DEF KalpaStarts
<1>3. QED  BY <1>1, <1>2, HoldsSame

LEMMA TakesSlotHolds ==
    ASSUME TypeInv, tts = "kalpa", Holding, ~Retired(Me), TakesSlot(own)
    PROVE  HoldsOn
<1>0. /\ own \in KalpaOwns /\ link.n \in Nat /\ Me.turn \in 0..MaxTurn /\ KalpaTurns(own) \subseteq Flying
      /\ senders \in Seq(Senders) /\ senders # << >> /\ Fresh
  <2>1. Me.turn \in Turns /\ MaxTurn \in Nat  BY MeType, SynthesizerAssumption
  <2>2. QED  BY <2>1, KalpaOwnType DEF TypeInv, Sockets, Turns, Fresh, Holding
<1>1. CASE /\ own' = [Retaken(own) EXCEPT !.slotted = FALSE]
           /\ UNCHANGED <<base, senders, said, wire>>
  <2> DEFINE no == FALSE
             o == Retaken(own)
  <2>1. o \in KalpaOwns /\ o.slot = own.slot /\ o.igen = own.igen  BY <1>0, RetakenType
  <2>2. own' = [o EXCEPT !.slotted = no] /\ no \in BOOLEAN  BY <1>1
  <2> HIDE DEF no, o
  <2>3. own'.slot = o.slot /\ own'.igen = o.igen  BY <2>1, <2>2, SlottedType DEF Alike
  <2>4. EpochsFrom  BY <1>0, <1>1, TailEpochs
  <2>5. QED  BY <1>0, <1>1, <2>1, <2>3, <2>4, HoldsSame
<1>2. CASE Writes(Taken(own), Mine(own).chunks # << >>)
  <2> DEFINE o == Taken(own)
             replay == Mine(own).chunks # << >>
  <2>1. o \in KalpaOwns /\ KalpaTurns(o) \subseteq Flying /\ o.slot = TakenSlot /\ o.igen = own.igen
    BY <1>0, TakenType
  <2>2. replay \in BOOLEAN /\ Writes(o, replay)  BY <1>2
  <2> HIDE DEF o, replay
  <2>3. /\ own'.slot = o.slot /\ own'.igen = o.igen /\ said'.clipped = said.clipped
        /\ senders' \in {senders, Tail(senders)}
    <3>1. own.at \in {"text", "end"}  BY <1>0, KalpaType
    <3>2. QED  BY <2>1, <2>2, <3>1, WritesType
  <2>4. EpochsFrom  BY <1>0, <2>3, TailEpochs
  <2>5. own'.slot.slot = Me.turn  BY <2>1, <2>3 DEF TakenSlot
  <2>6. QED  BY <1>0, <2>1, <2>3, <2>4, <2>5 DEF HoldsOn, SlotFrom
<1>3. QED  BY <1>1, <1>2, TakesSlotForm

LEMMA LeavesHolds ==
    ASSUME TypeInv, tts = "kalpa", Holding, LetsGo(own), UNCHANGED said
    PROVE  HoldsOn
<1>1. Alike(own', own) /\ senders' = Tail(senders)  BY KalpaOwnType, LetsGoType
<1>2. EpochsFrom  BY <1>1, MeType, TailEpochs
<1>3. QED  BY <1>1, <1>2, HoldsSame DEF Alike

LEMMA SlottedHolds ==
    ASSUME TypeInv, tts = "kalpa", NEW w \in BOOLEAN, own' = [own EXCEPT !.slotted = w],
           UNCHANGED <<senders, said>>
    PROVE  HoldsOn
<1>1. Alike(own', own)  BY KalpaOwnType, SlottedType
<1>2. EpochsFrom  BY DEF EpochsFrom
<1>3. QED  BY <1>1, <1>2, HoldsSame DEF Alike

LEMMA SkipsHolds ==
    ASSUME TypeInv, tts = "kalpa", Holding, Skips, UNCHANGED said
    PROVE  HoldsOn
<1>0. own \in KalpaOwns  BY KalpaOwnType
<1> DEFINE o == IF DeadOne THEN [own EXCEPT !.utt = NoUtterance] ELSE own
<1>1. [own EXCEPT !.utt = NoUtterance] \in KalpaOwns
      /\ [own EXCEPT !.utt = NoUtterance].utt = NoUtterance
      /\ [own EXCEPT !.utt = NoUtterance].slot = own.slot /\ [own EXCEPT !.utt = NoUtterance].igen = own.igen
  BY <1>0, NothingTypes DEF KalpaOwns
<1>2. o \in KalpaOwns /\ o.slot = own.slot /\ o.igen = own.igen /\ o.utt.turn \in {own.utt.turn, 0}
  <2>1. NoUtterance.turn = 0  BY DEF NoUtterance
  <2>2. QED  BY <1>0, <1>1, <2>1
<1>3. (Alike(own', own) \/ Alike(own', o)) /\ senders' \in {senders, Tail(senders)}
  <2>1. CASE own.at = "text"
    <3>1. TextDone(own)  BY <2>1 DEF Skips
    <3>2. QED  BY <1>0, <3>1, TextDoneType
  <2>2. CASE own.at # "text"
    <3>1. LetsGo(o)  BY <2>2 DEF Skips
    <3> HIDE DEF o
    <3>2. QED  BY <1>2, <3>1, LetsGoType
  <2>3. QED  BY <2>1, <2>2
<1> HIDE DEF o
<1>4. EpochsFrom  BY <1>3, MeType, TailEpochs
<1>5. QED  BY <1>2, <1>3, <1>4, HoldsSame DEF Alike

LEMMA SendsHolds ==
    ASSUME TypeInv, tts = "kalpa", KalpaSends
    PROVE  HoldsOn
<1>0. own \in KalpaOwns /\ Holding /\ senders \in Seq(Senders) /\ senders # << >>
  BY KalpaOwnType, KalpaSendsCases DEF TypeInv, Holding
<1>1. CASE LetsGo(own) /\ UNCHANGED said  BY <1>0, <1>1, LeavesHolds
<1>2. CASE Skips /\ UNCHANGED said  BY <1>0, <1>2, SkipsHolds
<1>3. CASE Writes(own, FALSE)
  <2> DEFINE no == FALSE
  <2>1. no \in BOOLEAN /\ Writes(own, no)  BY <1>3
  <2> HIDE DEF no
  <2>2. /\ own'.slot = own.slot /\ own'.igen = own.igen /\ said'.clipped = said.clipped
        /\ own.at = "end" => own'.utt = NoUtterance /\ senders' = Tail(senders)
        /\ own.at = "text" => /\ own'.utt = [own.utt EXCEPT !.chunks = AllPieces(own)]
                              /\ senders' \in {senders, Tail(senders)}
    BY <1>0, <2>1, KalpaOwnType, WritesType
  <2>3. own.at \in {"text", "end"} /\ own.utt \in Utterances  BY <1>0, KalpaType
  <2>4. EpochsFrom  BY <1>0, <2>2, <2>3, TailEpochs
  <2>5. own'.utt.turn \in {own.utt.turn, 0}
    <3>1. CASE own.at = "end"  BY <2>2, <3>1 DEF NoUtterance
    <3>2. CASE own.at = "text"  BY <2>2, <2>3, <3>2 DEF Utterances
    <3>3. QED  BY <2>3, <3>1, <3>2
  <2>6. QED  BY <2>2, <2>4, <2>5, HoldsSame
<1>4. CASE ~Retired(Me) /\ Opens
  <2>1. CASE TakesSlot(own)  BY <1>0, <1>4, <2>1, TakesSlotHolds
  <2>2. CASE ~own.slot.idle /\ Cancels /\ UNCHANGED <<senders, said>>
    <3>1. /\ own'.igen = own.igen /\ own'.utt = own.utt
          /\ own'.slot.slot = own.slot.slot /\ own'.slot.gone
      BY <1>0, <2>2, CancelsType
    <3>2. EpochsFrom  BY <2>2 DEF EpochsFrom
    <3>3. QED  BY <2>2, <3>1, <3>2 DEF HoldsOn, SlotFrom
  <2>3. CASE own' = [own EXCEPT !.slotted = TRUE] /\ UNCHANGED <<senders, said>>
    <3> DEFINE yes == TRUE
    <3>1. yes \in BOOLEAN /\ own' = [own EXCEPT !.slotted = yes]  BY <2>3
    <3> HIDE DEF yes
    <3>2. QED  BY <2>3, <3>1, SlottedHolds
  <2>4. QED  BY <1>4, <2>1, <2>2, <2>3 DEF Opens
<1>5. QED  BY <1>1, <1>2, <1>3, <1>4, KalpaSendsCases

LEMMA SlotFreeHolds ==
    ASSUME TypeInv, tts = "kalpa", SlotFree
    PROVE  HoldsOn
<1>1. Holding  BY DEF SlotFree
<1>2. CASE LetsGo(own) /\ UNCHANGED said  BY <1>1, <1>2, LeavesHolds
<1>3. CASE own' = [own EXCEPT !.slotted = FALSE] /\ UNCHANGED <<senders, said>>
  <2> DEFINE no == FALSE
  <2>1. no \in BOOLEAN /\ own' = [own EXCEPT !.slotted = no]  BY <1>3
  <2> HIDE DEF no
  <2>2. QED  BY <1>3, <2>1, SlottedHolds
<1>4. CASE ~Retired(Me) /\ TakesSlot(own)  BY <1>1, <1>4, TakesSlotHolds
<1>5. QED  BY <1>2, <1>3, <1>4 DEF SlotFree

LEMMA SlotTimesOutHolds ==
    ASSUME TypeInv, tts = "kalpa", SlotTimesOut
    PROVE  HoldsOn
<1>1. Holding /\ UNCHANGED said  BY DEF SlotTimesOut
<1>2. CASE LetsGo(own)  BY <1>1, <1>2, LeavesHolds
<1>3. CASE own' = [own EXCEPT !.slotted = FALSE] /\ UNCHANGED senders
  <2> DEFINE no == FALSE
  <2>1. no \in BOOLEAN /\ own' = [own EXCEPT !.slotted = no]  BY <1>3
  <2> HIDE DEF no
  <2>2. QED  BY <1>1, <1>3, <2>1, SlottedHolds
<1>4. QED  BY <1>2, <1>3 DEF SlotTimesOut

\* The service, the loss of the socket and the end of the call leave the senders alone.
LEMMA ServiceHolds ==
    ASSUME TypeInv, tts = "kalpa", Render \/ ServiceFails
    PROVE  HoldsOn
<1>0. own \in KalpaOwns  BY KalpaOwnType
<1>1. PICK v, n : own' = [own EXCEPT !.svc = v, !.made = n] /\ UNCHANGED <<senders, said>>
  BY DEF Render, ServiceFails, Serves
<1>2. own'.igen = own.igen /\ own'.slot = own.slot /\ own'.utt = own.utt  BY <1>0, <1>1 DEF KalpaOwns
<1>3. EpochsFrom  BY <1>1 DEF EpochsFrom
<1>4. QED  BY <1>1, <1>2, <1>3, HoldsSame

LEMMA IdleHolds ==
    ASSUME UNCHANGED <<own, senders, said>>
    PROVE  HoldsOn
BY HoldsSame DEF EpochsFrom

LEMMA ReceiveHolds ==
    ASSUME TypeInv, NEW more, KalpaReceive(more)
    PROVE  HoldsOn
<1>0. own \in KalpaOwns /\ Hd \in Messages /\ own.utt.dead \in BOOLEAN
      /\ own.utt \in Utterances
  <2>1. tts = "kalpa" /\ wire # << >> /\ Read(more)  BY KalpaHears
  <2>2. QED  BY <2>1, KalpaOwnType, KalpaType, KalpaParts, ReadWire
<1> DEFINE d == own.utt.dead \/ own.utt.turn # 0
<1>1. d \in BOOLEAN  OBVIOUS
<1>2. EpochsFrom  BY KalpaHears DEF EpochsFrom
<1>3. CASE own' = own /\ Yield(<< >>)  BY <1>2, <1>3, YieldNothing, HoldsSame
<1>4. CASE /\ Hd.kind = "created" /\ Yield(<< >>)
           /\ own' = [own EXCEPT !.resp = [rid |-> Hd.ctx, serves |-> ~own.slot.idle]]
  <2>1. Hd.ctx \in Nat  BY <1>0 DEF Messages
  <2>2. own'.igen = own.igen /\ own'.slot = own.slot /\ own'.utt = own.utt
    BY <1>0, <1>4, <2>1, BegunType
  <2>3. QED  BY <1>2, <1>4, <2>2, YieldNothing, HoldsSame
<1>5. CASE Hd.kind = "audio" /\ own' = own /\ Yield(<<Hd>>)
  <2>1. said' = said \/ Wrongs(said, said', Label(base), Hd)  BY <1>0, <1>5, YieldFrame
  <2>2. said'.clipped => said.clipped  BY <1>5, <2>1 DEF Wrongs
  <2>3. QED  BY <1>2, <1>5, <2>2, HoldsSame
<1>6. ASSUME NEW STATE e, e \in BOOLEAN, NEW emit, own' = Settled(Past(e)), Yield(Settles(Past(e), emit))
      PROVE  HoldsOn
  <2>1. /\ Past(e) \in KalpaOwns /\ Past(e).slot = own.slot /\ Past(e).igen = own.igen
        /\ Past(e).utt = [own.utt EXCEPT !.dead = e]
    BY <1>0, <1>6, PastType
  <2>2. own'.igen = own.igen /\ own'.slot.idle /\ own'.utt = [own.utt EXCEPT !.dead = e]
    BY <1>6, <2>1, SettledType
  <2>3. own'.utt.turn = own.utt.turn  BY <1>0, <1>6, <2>2, UtteranceDead
  <2>4. EndsHeard(said, said')  BY <1>6, <2>1, SettlesSaid
  <2>5. QED  BY <1>2, <2>2, <2>3, <2>4 DEF HoldsOn, SlotFrom, EndsHeard
<1>7. ASSUME NEW STATE e, e \in BOOLEAN, own' = Past(e), Yield(<< >>)
      PROVE  HoldsOn
  <2>1. /\ own'.slot = own.slot /\ own'.igen = own.igen /\ own'.utt = [own.utt EXCEPT !.dead = e]
    BY <1>0, <1>7, PastType
  <2>2. own'.utt.turn = own.utt.turn  BY <1>0, <1>7, <2>1, UtteranceDead
  <2>3. QED  BY <1>2, <1>7, <2>1, <2>2, YieldNothing, HoldsSame
<1>8. \/ own' = own /\ Yield(<< >>)
      \/ /\ Hd.kind = "created" /\ Yield(<< >>)
         /\ own' = [own EXCEPT !.resp = [rid |-> Hd.ctx, serves |-> ~own.slot.idle]]
      \/ Hd.kind = "audio" /\ own' = own /\ Yield(<<Hd>>)
      \/ own' = Settled(Past(own.utt.dead)) /\ Yield(Settles(Past(own.utt.dead), Hd.kind = "done"))
      \/ own' = Past(own.utt.dead) /\ Yield(<< >>)
      \/ own' = Past(d) /\ Yield(<< >>)
      \/ own' = Settled(Past(d)) /\ Yield(Settles(Past(d), TRUE))
  BY KalpaHears
<1> HIDE DEF d
<1>9. QED  BY <1>0, <1>1, <1>3, <1>4, <1>5, <1>6, <1>7, <1>8

LEMMA MeetsEndHolds ==
    ASSUME TypeInv, KalpaMeetsEnd
    PROVE  HoldsOn
<1> DEFINE d == own.utt.dead \/ (~own.slot.idle /\ HeardInPart)
           emit == ~own.slot.idle /\ (own.utt.turn = 0 \/ HeardInPart)
<1>1. tts = "kalpa" /\ UNCHANGED senders /\ own' = Settled(Lost(d)) /\ Yield(Settles(own, emit))
  BY KalpaLoses
<1>2. own \in KalpaOwns /\ own.utt.dead \in BOOLEAN /\ own.utt \in Utterances
  BY <1>1, KalpaOwnType, KalpaParts, KalpaType
<1>3. d \in BOOLEAN  BY <1>2
<1> HIDE DEF d
<1>4. /\ Lost(d) \in KalpaOwns /\ Lost(d).igen = own.igen /\ Lost(d).utt = [own.utt EXCEPT !.dead = d]
  BY <1>2, <1>3, LostType
<1>5. own'.igen = own.igen /\ own'.slot.idle /\ own'.utt = [own.utt EXCEPT !.dead = d]
  BY <1>1, <1>4, SettledType
<1>6. own'.utt.turn = own.utt.turn  BY <1>2, <1>3, <1>5, UtteranceDead
<1> HIDE DEF emit
<1>7. EndsHeard(said, said')  BY <1>1, <1>2, SettlesSaid
<1>8. EpochsFrom  BY <1>1 DEF EpochsFrom
<1>9. QED  BY <1>5, <1>6, <1>7, <1>8 DEF HoldsOn, SlotFrom, EndsHeard

LEMMA DialHolds ==
    ASSUME TypeInv, KalpaDial
    PROVE  HoldsOn
<1>0. tts = "kalpa" /\ UNCHANGED <<senders, said>> /\ own' \in {own, Redialled}
  BY DEF KalpaDial, Dial, Redialled
<1>1. own \in KalpaOwns  BY <1>0, KalpaOwnType
<1>2. own'.igen = own.igen /\ own'.utt = own.utt /\ (own'.slot = own.slot \/ own'.slot.idle)
  BY <1>0, <1>1, RedialledType, NothingTypes
<1>3. EpochsFrom  BY <1>0 DEF EpochsFrom
<1>4. QED  BY <1>0, <1>2, <1>3, HoldsSame

---------------------------------------------------------------------------
\* A push, an interruption and the theorem.

\* What a push makes of Kalpa's state.
PushOwn ==
    /\ own' \in KalpaOwns
    /\ own'.igen = own.igen /\ own'.slot = own.slot /\ own'.resp = own.resp /\ own'.at = own.at
    /\ own'.slotted = own.slotted /\ own'.svc = own.svc /\ own'.made = own.made
    /\ own'.crossed = own.crossed
    /\ own'.utt.turn = own.utt.turn /\ own'.utt.chunks = own.utt.chunks
    /\ own'.utt.conn = own.utt.conn
    /\ own'.utt.dead <=> (own.utt.dead \/ own.utt.turn \notin {0, pipe.turn})

LEMMA KalpaPushes ==
    ASSUME TypeInv, tts = "kalpa", Pushes
    PROVE  /\ PushOwn /\ Pushing /\ UNCHANGED <<tts, link, wire, said>>
           /\ \E text \in BOOLEAN : senders' = Append(senders, Pushed(text, pipe.left = 1, own.igen))
<1>0. own \in KalpaOwns /\ own.utt \in Utterances /\ link.n \in Nat /\ own.dirty \in Nat
      /\ own.utt.dead \in BOOLEAN
  BY KalpaOwnType, KalpaType, KalpaParts DEF TypeInv, Sockets
<1>1. (IF pipe.turn \in Pairs /\ pipe.left = 1 THEN EndTexts ELSE {TRUE}) \subseteq BOOLEAN
  BY SynthesizerAssumption
<1>2. Push(TRUE, KalpaPush, own.igen)  BY DEF Pushes
<1>3. /\ own' = KalpaPush(pipe.left = 1) /\ Pushing /\ UNCHANGED <<tts, link, wire, said>>
      /\ \E text \in BOOLEAN : senders' = Append(senders, Pushed(text, pipe.left = 1, own.igen))
  BY <1>1, <1>2 DEF Push
<1>4. PushOwn
  <2>1. CASE own.utt.turn \notin {0, pipe.turn} /\ ~own.utt.dead
    <3> DEFINE yes == TRUE
               u == [own.utt EXCEPT !.dead = yes]
               d == IF own.utt.chunks # << >> /\ own.utt.conn = link.n THEN link.n ELSE own.dirty
    <3>1. own' = [own EXCEPT !.utt = u, !.dirty = d]  BY <1>3, <2>1 DEF KalpaPush
    <3>2. d \in Nat /\ yes \in BOOLEAN /\ yes  BY <1>0
    <3> HIDE DEF yes, d
    <3>3. /\ u \in Utterances /\ u.chunks = own.utt.chunks /\ u.turn = own.utt.turn
          /\ u.conn = own.utt.conn /\ u.dead = yes
      BY <1>0, <3>2, UtteranceDead
    <3> HIDE DEF u
    <3>4. /\ own' \in KalpaOwns /\ own'.utt = u
          /\ own'.igen = own.igen /\ own'.slot = own.slot /\ own'.resp = own.resp /\ own'.at = own.at
          /\ own'.slotted = own.slotted /\ own'.svc = own.svc /\ own'.made = own.made
          /\ own'.crossed = own.crossed
      BY <1>0, <3>1, <3>2, <3>3 DEF KalpaOwns
    <3>5. QED  BY <2>1, <3>2, <3>3, <3>4 DEF PushOwn
  <2>2. CASE ~(own.utt.turn \notin {0, pipe.turn} /\ ~own.utt.dead)
    <3>1. own' = own  BY <1>3, <2>2 DEF KalpaPush
    <3>2. QED  BY <1>0, <2>2, <3>1 DEF PushOwn
  <2>3. QED  BY <2>1, <2>2
<1>5. QED  BY <1>3, <1>4

LEMMA AppendSender ==
    ASSUME senders \in Seq(Senders), NEW s \in Senders, senders' = Append(senders, s)
    PROVE  /\ Len(senders') = Len(senders) + 1 /\ DOMAIN senders' = 1..(Len(senders) + 1)
           /\ senders'[Len(senders) + 1] = s
           /\ \A j \in DOMAIN senders : j \in DOMAIN senders' /\ senders'[j] = senders[j]
           /\ \A j \in DOMAIN senders' : j \in DOMAIN senders \/ j = Len(senders) + 1
<1>1. /\ Append(senders, s) \in Seq(Senders) /\ Len(Append(senders, s)) = Len(senders) + 1
      /\ \A i \in 1..Len(senders) : Append(senders, s)[i] = senders[i]
      /\ Append(senders, s)[Len(senders) + 1] = s
  BY AppendProperties
<1>2. Len(senders) \in Nat /\ DOMAIN senders = 1..Len(senders) /\ DOMAIN senders' = 1..Len(senders')
  BY <1>1, LenProperties
<1>3. QED  BY <1>1, <1>2

LEMMA EndPush ==
    ASSUME TypeInv, CutQuiet, EndInv, tts = "kalpa", Pushes, Asks
    PROVE  EndInv'
<1>0. Epochs /\ SlotValid /\ OwnEnd  BY DEF EndInv
<1>1. /\ PushOwn /\ Pushing /\ said' = said
      /\ \E text \in BOOLEAN : senders' = Append(senders, Pushed(text, pipe.left = 1, own.igen))
  BY KalpaPushes
<1>2. ~pipe'.cut /\ pipe'.ids = pipe.ids /\ (Told' <=> Told)  BY DEF Asks, CutQuiet, Told
<1>3. own \in KalpaOwns /\ own.igen \in Nat  BY KalpaOwnType, KalpaType
<1>4. \A j \in DOMAIN senders' : senders'[j].epoch <= own.igen
  <2>1. PICK text \in BOOLEAN : senders' = Append(senders, Pushed(text, pipe.left = 1, own.igen))
    BY <1>1
  <2> DEFINE last == pipe.left = 1
             s == Pushed(text, last, own.igen)
  <2>2. last \in BOOLEAN /\ pipe \in Calling /\ pipe.turn \in pipe.ids /\ senders \in Seq(Senders)
    BY <1>1 DEF Pushing, TypeInv
  <2>3. s.epoch = own.igen  BY DEF Pushed
  <2>4. senders' = Append(senders, s)  BY <2>1
  <2> HIDE DEF last
  <2>5. s \in Senders  BY <1>3, <2>2, PushedType
  <2> HIDE DEF s
  <2>6. /\ senders'[Len(senders) + 1] = s /\ \A j \in DOMAIN senders : senders'[j] = senders[j]
        /\ \A j \in DOMAIN senders' : j \in DOMAIN senders \/ j = Len(senders) + 1
    BY <2>2, <2>4, <2>5, AppendSender
  <2>7. \A j \in DOMAIN senders : senders[j].epoch <= own.igen  BY <1>0 DEF Epochs
  <2>8. own.igen <= own.igen  BY <1>3
  <2>9. QED  BY <2>3, <2>6, <2>7, <2>8
<1>5. Epochs'  BY <1>1, <1>2, <1>4 DEF Epochs, PushOwn
<1>6. SlotValid' /\ OwnEnd'  BY <1>0, <1>1, <1>2 DEF SlotValid, OwnEnd, PushOwn
<1>7. QED  BY <1>5, <1>6 DEF EndInv

LEMMA EndInterrupt ==
    ASSUME TypeInv, EndInv, KalpaInterrupt
    PROVE  EndInv'
<1>0. Epochs /\ SlotValid /\ OwnEnd  BY DEF EndInv
<1>1. /\ tts = "kalpa" /\ own'.igen = own.igen + 1 /\ own'.utt = NoUtterance
      /\ own'.slot.idle = own.slot.idle
      /\ (~own.slot.idle => own'.slot.gone)
      /\ Barges
  BY KalpaInterruptStep
<1>2. senders' = senders /\ said' = said /\ pipe'.ids = pipe.ids /\ (Told' <=> Told)
  BY <1>1 DEF KalpaInterrupt, Barges, Told
<1>3. own.igen \in Nat /\ own.slot.idle \in BOOLEAN  BY <1>1, KalpaOwnType, KalpaType, KalpaParts
<1>4. \A i \in DOMAIN senders : senders[i].epoch \in Nat /\ senders[i].epoch <= own.igen
  BY <1>0, SenderType DEF Epochs, TypeInv, Senders
<1>5. Epochs'
  <2>1. \A i \in DOMAIN senders' : senders'[i].epoch <= own'.igen /\ senders'[i].epoch # own'.igen
    BY <1>1, <1>2, <1>3, <1>4
  <2>2. own'.utt.turn = 0  BY <1>1 DEF NoUtterance
  <2>3. own'.slot.idle \/ own'.slot.gone  BY <1>1, <1>3
  <2>4. QED  BY <2>1, <2>2, <2>3 DEF Epochs
<1>6. SlotValid'  BY <1>1, <1>3 DEF SlotValid
<1>7. OwnEnd'  BY <1>0, <1>2 DEF OwnEnd
<1>8. QED  BY <1>5, <1>6, <1>7 DEF EndInv

\* Kalpa's step, but the call's, a push and an interruption, holds on to the slot.
LEMMA KalpaHoldsOn ==
    ASSUME TypeInv, tts = "kalpa", [SpeakNext]_synVars
    PROVE  Calls \/ Pushes \/ KalpaInterrupt \/ (HoldsOn /\ SameCall)
<1>1. CASE \E i \in DOMAIN senders : KalpaStarts(i)
  BY <1>1, StartsHolds, KalpaStartsStep DEF Onward
<1>2. CASE KalpaSends  BY <1>2, SendsHolds, KalpaSendsStep DEF Onward
<1>3. CASE SlotFree  BY <1>3, SlotFreeHolds, SlotFreeStep DEF Onward
<1>4. CASE SlotTimesOut  BY <1>4, SlotTimesOutHolds, SlotTimesOutStep DEF Onward
<1>5. CASE Render \/ ServiceFails  BY <1>5, ServiceHolds, RenderStep, ServiceFailsStep DEF Onward
<1>6. CASE \E more : KalpaReceive(more)  BY <1>6, ReceiveHolds, KalpaReceiveStep DEF Onward
<1>7. CASE KalpaMeetsEnd  BY <1>7, MeetsEndHolds, KalpaMeetsEndStep DEF Onward
<1>8. CASE KalpaDial  BY <1>8, DialHolds, KalpaDialStep DEF Onward
<1>9. CASE GivesUp \/ Lose \/ UNCHANGED synVars
  <2>1. UNCHANGED <<own, senders, said>>  BY <1>9 DEF GivesUp, Lose, synVars
  <2>2. SameCall  BY <1>9, GivesUpStep, LoseStep, StutterStep DEF Onward
  <2>3. QED  BY <2>1, <2>2, IdleHolds
<1>10. QED  BY <1>1, <1>2, <1>3, <1>4, <1>5, <1>6, <1>7, <1>8, <1>9, KalpaCases

EndsInv == LabelInv /\ OwnEnd /\ (tts = "kalpa" => EndInv)

LEMMA EndNext ==
    ASSUME EndsInv, [SpeakNext]_synVars
    PROVE  EndsInv'
<1>1. LabelInv /\ TypeInv /\ CutQuiet /\ OwnEnd /\ (tts = "kalpa" => EndInv)
  BY DEF EndsInv, LabelInv
<1>2. LabelInv'  BY <1>1, LabelNext
<1>3. TypeInv' /\ (StartTurn \/ Retire \/ Invalidate \/ Asks \/ Barges \/ Onward)
  BY <1>1, SpeakStep
<1>4. tts' = tts
  BY <1>1, <1>3, StartTurnStep, RetireStep, InvalidateStep DEF Asks, Barges, Onward
<1>5. CASE tts = "kalpa"
  <2>1. EndInv  BY <1>1, <1>5
  <2>2. EndInv'
    <3>1. CASE Calls  BY <1>1, <2>1, <3>1, EndCalls
    <3>2. CASE Pushes
      <4>1. Asks  BY <1>1, <1>5, <3>2, KalpaPushStep
      <4>2. QED  BY <1>1, <1>5, <2>1, <3>2, <4>1, EndPush
    <3>3. CASE KalpaInterrupt  BY <1>1, <2>1, <3>3, EndInterrupt
    <3>4. CASE HoldsOn /\ SameCall  BY <1>1, <2>1, <3>4, EndHolds
    <3>5. QED  BY <1>1, <1>5, <3>1, <3>2, <3>3, <3>4, KalpaHoldsOn
  <2>3. OwnEnd'  BY <2>2 DEF EndInv
  <2>4. QED  BY <1>2, <1>4, <1>5, <2>2, <2>3 DEF EndsInv
<1>6. CASE tts # "kalpa"
  <2>1. OwnEnd'
    <3>1. CASE Calls
      <4>1. said' = said /\ (Told' => Told)
        BY <1>1, <3>1, StartTurnStep, RetireStep, InvalidateStep DEF Calls, Told
      <4>2. QED  BY <1>1, <4>1 DEF OwnEnd
    <3>2. CASE Asks \/ Barges
      <4>1. said' = said /\ (Told' <=> Told)  BY <3>2 DEF Asks, Barges, Told
      <4>2. QED  BY <1>1, <4>1 DEF OwnEnd
    <3>3. CASE Onward
      <4>1. (said'.clipped => said.clipped) /\ (Told' <=> Told)
        BY <1>6, <3>3 DEF Onward, NoNewWrong, Exact, SameCall, Told
      <4>2. QED  BY <1>1, <4>1 DEF OwnEnd
    <3>4. QED  BY <1>3, <3>1, <3>2, <3>3 DEF Calls
  <2>2. QED  BY <1>2, <1>4, <1>6, <2>1 DEF EndsInv
<1>7. QED  BY <1>5, <1>6

LEMMA EndsInit ==
    ASSUME SpeakInit
    PROVE  EndsInv
<1>1. LabelInv  BY LabelInit
<1>2. /\ ~pipe.cut /\ said = NothingSaid /\ senders = << >> /\ (tts = "kalpa" => own = KalpaOwn)
  BY SpeakInits
<1>3. OwnEnd  BY <1>2 DEF OwnEnd, NothingSaid
<1>4. ASSUME tts = "kalpa" PROVE EndInv
  <2>1. own.slot.idle  BY <1>2, <1>4 DEF KalpaOwn, FreeSlot
  <2>2. DOMAIN senders = {}  BY <1>2
  <2>3. QED  BY <1>2, <1>3, <2>1, <2>2 DEF EndInv, Epochs, SlotValid
<1>5. QED  BY <1>1, <1>3, <1>4 DEF EndsInv

\* The invariant behind NeverClipped.
THEOREM EndsInvariant == SpeakSpec => []EndsInv
<1>1. SpeakInit => EndsInv  BY EndsInit
<1>2. EndsInv /\ [SpeakNext]_synVars => EndsInv'  BY EndNext
<1>3. QED  BY <1>1, <1>2, PTL DEF SpeakSpec

\* As long as the synthesizer is told of every turn that is dropped, Kalpa's
\* _settle_slot never completes a valid turn by the end of one that was barged in on.
THEOREM NeverClipped == SpeakSpec => []OwnEnd
<1>1. EndsInv => OwnEnd  BY DEF EndsInv
<1>2. QED  BY <1>1, EndsInvariant, PTL

---------------------------------------------------------------------------
\* Whose audio is played, and whose text is rendered.

Settling == {"done", "cancelled", "error"}
NoSettle(w) == \A k \in DOMAIN w : w[k].kind \notin Settling
Unanswered(w) == \A k \in DOMAIN w : w[k].kind \notin {"done", "cancelled"}
\* What settles a slot comes last.
SettleAtEnd(w) == \A k \in DOMAIN w : w[k].kind \in Settling => k = Len(w)
AudioOf(w, t) == \A k \in DOMAIN w : w[k].kind = "audio" => w[k].turn = t
PiecesOf(ps, t) == \A k \in DOMAIN ps : ps[k][1] = t
\* The service speaks of responses that have a number.
Sound(w) ==
    \A k \in DOMAIN w : /\ w[k].kind \in Settling \cup {"created", "audio"}
                        /\ w[k].kind # "error" => w[k].ctx # 0

SocketUp ==
    /\ link.ws # "dying" /\ (link.ws \in {"none", "closed"} => wire = << >>)
    /\ own.utt.conn <= link.n /\ (link.ws # "none" => link.n # 0)
\* The holder of the lock is there as long as it is past its text or waits for the slot.
LockHeld == (own.slotted \/ own.at = "end") => senders # << >> /\ Me.waits
ChunksOwn == PiecesOf(own.utt.chunks, own.utt.turn) /\ (own.utt.dead => own.utt.turn # 0)
KeepInv == SocketUp /\ LockHeld /\ ChunksOwn /\ Sound(wire)

Up == link.ws = "open"
\* The holder waits for the slot, and is not retired.
Awaits == own.slotted /\ ~Retired(Me)
\* A free slot: nothing is rendered and nothing is left to render.
SlotEmpty == own.slot.idle => wire = << >> /\ (Up => own.svc = NoService)
\* A slot that is taken: what is rendered and what is left to render is its turn's.
SlotsOwn ==
    ~own.slot.idle => AudioOf(wire, own.slot.slot) /\ (Up => PiecesOf(own.svc.buf, own.slot.slot))
SettleLast == SettleAtEnd(wire) /\ (NoSettle(wire) \/ (Up => own.svc = NoService))
\* An utterance that is open on this socket has the slot, and its response is not over.
Open == own.utt.turn # 0 /\ ~own.utt.dead /\ own.utt.conn = link.n /\ link.ws # "none"
OpenUtterance == Open => ~own.slot.idle /\ own.slot.slot = own.utt.turn /\ Unanswered(wire)
\* An utterance, dead or not, is the slot's, and one that was flushed is forgotten.
SlotUtterance ==
    (own.utt.turn # 0 /\ ~own.slot.idle) =>
        /\ own.utt.conn = link.n /\ own.slot.slot = own.utt.turn
        /\ Up => ~own.svc.flushed /\ (Unanswered(wire) \/ Awaits)
Serving == own.resp.rid # 0 => own.resp.serves
CalmParts ==
    /\ SlotEmpty /\ SlotsOwn /\ SettleLast /\ OpenUtterance /\ SlotUtterance /\ Serving
    /\ ~said.foreign /\ ~said.mixed
ApartInv == KeepInv /\ (Calm => CalmParts)

---------------------------------------------------------------------------
\* What of the wire's parts holds of more and of less of it.

\* Of w no message was changed or moved to the back; its last one is not another's.
Shorter(v, w) ==
    \A k \in DOMAIN v : \E j \in DOMAIN w : v[k] = w[j] /\ (j = Len(w) => k = Len(v))

LEMMA ShorterParts ==
    ASSUME NEW v, NEW w, Shorter(v, w)
    PROVE  /\ NoSettle(w) => NoSettle(v)
           /\ Unanswered(w) => Unanswered(v)
           /\ SettleAtEnd(w) => SettleAtEnd(v)
           /\ Sound(w) => Sound(v)
           /\ \A t : AudioOf(w, t) => AudioOf(v, t)
BY DEF Shorter, NoSettle, Unanswered, SettleAtEnd, Sound, AudioOf

LEMMA NothingParts ==
    /\ NoSettle(<< >>) /\ Unanswered(<< >>) /\ SettleAtEnd(<< >>) /\ Sound(<< >>)
    /\ \A t : AudioOf(<< >>, t) /\ PiecesOf(<< >>, t)
BY DEF NoSettle, Unanswered, SettleAtEnd, Sound, AudioOf, PiecesOf

LEMMA ShorterWires ==
    ASSUME NEW w \in Seq(Messages)
    PROVE  /\ Shorter(w, w) /\ Shorter(<< >>, w)
           /\ w # << >> => Shorter(Tail(w), w)
           /\ \A v \in Prefixes(w) : Shorter(v, w) /\ (w = << >> => v = << >>)
<1>1. Len(w) \in Nat /\ DOMAIN w = 1..Len(w)  BY LenProperties
<1>2. Shorter(w, w) /\ Shorter(<< >>, w)  BY DEF Shorter
<1>3. ASSUME w # << >> PROVE Shorter(Tail(w), w)
  <2>1. /\ Tail(w) \in Seq(Messages) /\ Len(Tail(w)) = Len(w) - 1
        /\ \A j \in 1..Len(Tail(w)) : Tail(w)[j] = w[j + 1]
    BY <1>3, HeadTailProperties
  <2>2. DOMAIN Tail(w) = 1..(Len(w) - 1)  BY <2>1, LenProperties
  <2>3. ASSUME NEW k \in DOMAIN Tail(w)
        PROVE  k + 1 \in DOMAIN w /\ Tail(w)[k] = w[k + 1] /\ (k + 1 = Len(w) => k = Len(Tail(w)))
    BY <1>1, <2>1, <2>2
  <2>4. QED  BY <2>3 DEF Shorter
<1>4. ASSUME NEW v \in Prefixes(w) PROVE Shorter(v, w) /\ (w = << >> => v = << >>)
  <2>1. PICK k \in 0..Len(w) : v = SubSeq(w, 1, k)  BY DEF Prefixes
  <2>2. /\ v \in Seq(Messages) /\ Len(v) = k
        /\ \A j \in DOMAIN v : j \in 1..k /\ j \in DOMAIN w /\ v[j] = w[j]
    BY <2>1, PrefixTurns
  <2>3. \A j \in DOMAIN v : j = Len(w) => j = Len(v)
    <3> DEFINE n == Len(w)
    <3>0. n \in Nat /\ k \in Nat /\ k <= n  BY <1>1
    <3> HIDE DEF n
    <3>1. \A j \in 1..k : j = n => j = k  BY <3>0
    <3>2. QED  BY <2>2, <3>1 DEF n
  <2>4. Shorter(v, w)  BY <2>2, <2>3 DEF Shorter
  <2>5. w = << >> => v = << >>
    <3>1. w = << >> => k = 0  BY <1>1
    <3>2. QED  BY <2>2, <3>1, EmptySeq
  <2>6. QED  BY <2>4, <2>5
<1>5. QED  BY <1>2, <1>3, <1>4

\* Each message of v is one of w or of r, and the last one of v is r's, if r has any.
Joined(v, w, r) ==
    /\ \A k \in DOMAIN v : \/ \E j \in DOMAIN w : v[k] = w[j]
                           \/ \E j \in DOMAIN r : v[k] = r[j] /\ (j = Len(r) => k = Len(v))
    /\ r = << >> => v = w

LEMMA JoinedConcat ==
    ASSUME NEW S, NEW w \in Seq(S), NEW r \in Seq(S)
    PROVE  w \o r \in Seq(S) /\ Joined(w \o r, w, r)
<1>1. /\ w \o r \in Seq(S) /\ Len(w \o r) = Len(w) + Len(r)
      /\ \A i \in 1..(Len(w) + Len(r)) :
            (w \o r)[i] = IF i <= Len(w) THEN w[i] ELSE r[i - Len(w)]
  BY ConcatProperties
<1>2. /\ Len(w) \in Nat /\ DOMAIN w = 1..Len(w) /\ Len(r) \in Nat /\ DOMAIN r = 1..Len(r)
      /\ DOMAIN (w \o r) = 1..(Len(w) + Len(r))
  BY <1>1, LenProperties
<1>3. ASSUME NEW i \in DOMAIN (w \o r)
      PROVE  \/ \E j \in DOMAIN w : (w \o r)[i] = w[j]
             \/ \E j \in DOMAIN r : (w \o r)[i] = r[j] /\ (j = Len(r) => i = Len(w \o r))
  <2>1. CASE i <= Len(w)
    <3>1. i \in DOMAIN w /\ (w \o r)[i] = w[i]  BY <1>1, <1>2, <2>1
    <3>2. QED  BY <3>1
  <2>2. CASE ~(i <= Len(w))
    <3>1. i - Len(w) \in DOMAIN r /\ (w \o r)[i] = r[i - Len(w)]  BY <1>1, <1>2, <2>2
    <3>2. i - Len(w) = Len(r) => i = Len(w \o r)  BY <1>1, <1>2
    <3>3. QED  BY <3>1, <3>2
  <2>3. QED  BY <2>1, <2>2
<1>4. r = << >> => w \o r = w  BY ConcatEmptySeq
<1>5. QED  BY <1>1, <1>3, <1>4 DEF Joined

LEMMA JoinedParts ==
    ASSUME NEW v, NEW w, NEW r, Joined(v, w, r)
    PROVE  /\ NoSettle(w) /\ NoSettle(r) => NoSettle(v)
           /\ Unanswered(w) /\ Unanswered(r) => Unanswered(v)
           /\ NoSettle(w) /\ SettleAtEnd(r) => SettleAtEnd(v)
           /\ Sound(w) /\ Sound(r) => Sound(v)
           /\ \A t : AudioOf(w, t) /\ AudioOf(r, t) => AudioOf(v, t)
           /\ \A t : PiecesOf(w, t) /\ PiecesOf(r, t) => PiecesOf(v, t)
BY DEF Joined, NoSettle, Unanswered, SettleAtEnd, Sound, AudioOf, PiecesOf

LEMMA TailPieces ==
    ASSUME NEW q \in Seq(Pieces), q # << >>, NEW t, PiecesOf(q, t)
    PROVE  Head(q)[1] = t /\ PiecesOf(Tail(q), t)
<1>1. /\ Head(q) = q[1] /\ Tail(q) \in Seq(Pieces) /\ Len(Tail(q)) = Len(q) - 1
      /\ \A j \in 1..Len(Tail(q)) : Tail(q)[j] = q[j + 1]
  BY HeadTailProperties
<1>2. /\ Len(q) \in Nat /\ DOMAIN q = 1..Len(q) /\ DOMAIN Tail(q) = 1..(Len(q) - 1) /\ Len(q) # 0
  BY <1>1, LenProperties, EmptySeq
<1>3. 1 \in DOMAIN q /\ \A j \in DOMAIN Tail(q) : j + 1 \in DOMAIN q /\ Tail(q)[j] = q[j + 1]
  BY <1>1, <1>2
<1>4. QED  BY <1>1, <1>3 DEF PiecesOf

\* One message of the service, or none that renders.
LEMMA OnePart ==
    ASSUME NEW m
    PROVE  /\ SettleAtEnd(<<m>>)
           /\ m.kind \notin Settling => NoSettle(<<m>>)
           /\ m.kind \notin {"done", "cancelled"} => Unanswered(<<m>>)
           /\ m.kind \in Settling \cup {"created", "audio"} /\ (m.kind # "error" => m.ctx # 0)
                 => Sound(<<m>>)
           /\ \A t : (m.kind = "audio" => m.turn = t) => AudioOf(<<m>>, t)
<1>1. DOMAIN <<m>> = {1} /\ <<m>>[1] = m /\ Len(<<m>>) = 1  OBVIOUS
<1>2. QED  BY <1>1 DEF SettleAtEnd, NoSettle, Unanswered, Sound, AudioOf

\* What a cancelResponse makes the service say.
LEMMA CancelOutputParts ==
    ASSUME NEW o \in KalpaOwns, NEW flush \in BOOLEAN
    PROVE  /\ CancelOutput(o, flush) \in Seq(Messages)
           /\ SettleAtEnd(CancelOutput(o, flush)) /\ Sound(CancelOutput(o, flush))
           /\ \A t : AudioOf(CancelOutput(o, flush), t)
           /\ o.svc.resp = 0 /\ ~o.svc.flushed /\ ~flush => CancelOutput(o, flush) = << >>
<1>1. /\ Found(o, flush).resp = o.svc.resp /\ o.svc.resp \in Nat /\ o.made \in Nat
      /\ o.made + 1 \in Nat /\ o.made + 1 # 0
      /\ (Found(o, flush).flushed <=> (o.svc.flushed \/ flush))
  BY FoundType, KalpaType, KalpaParts
<1> DEFINE d == Done(o.svc.resp, FALSE)
           a == Created(o.made + 1)
           b == Done(o.made + 1, FALSE)
           r == CancelOutput(o, flush)
<1>2. r = CancelMsgs(Found(o, flush), o.made)  BY DEF CancelOutput, Found
<1>3. \/ o.svc.resp # 0 /\ r = <<d>>
      \/ o.svc.resp = 0 /\ (o.svc.flushed \/ flush) /\ r = <<a, b>>
      \/ r = << >>
  <2>1. CASE Found(o, flush).resp # 0  BY <1>1, <1>2, <2>1 DEF CancelMsgs
  <2>2. CASE Found(o, flush).resp = 0 /\ Found(o, flush).flushed  BY <1>1, <1>2, <2>2 DEF CancelMsgs
  <2>3. CASE Found(o, flush).resp = 0 /\ ~Found(o, flush).flushed  BY <1>1, <1>2, <2>3 DEF CancelMsgs
  <2>4. QED  BY <2>1, <2>2, <2>3
<1>4. /\ d.kind = "cancelled" /\ d.ctx = o.svc.resp /\ b.kind = "cancelled" /\ b.ctx # 0
      /\ a.kind = "created" /\ a.ctx # 0
  BY <1>1 DEF Done, Created
<1>5. \A t : Rendering(r, t)  BY CancelOutputType
<1>6. r \in Seq(Messages)  BY <1>5 DEF Rendering
<1> HIDE DEF d, a, b
<1>7. SettleAtEnd(r) /\ Sound(r) /\ \A t : AudioOf(r, t)
  <2>1. CASE r = << >>
    <3> HIDE DEF r
    <3>1. QED  BY <2>1, NothingParts
  <2>2. CASE o.svc.resp # 0 /\ r = <<d>>
    <3> HIDE DEF r
    <3>1. d.kind \in Settling \cup {"created", "audio"} /\ d.kind # "audio"  BY <1>4 DEF Settling
    <3>2. SettleAtEnd(<<d>>) /\ Sound(<<d>>) /\ \A t : AudioOf(<<d>>, t)  BY <1>4, <2>2, <3>1, OnePart
    <3>3. QED  BY <2>2, <3>2
  <2>3. CASE r = <<a, b>>
    <3>1. \A k \in DOMAIN <<a, b>> : (k = 1 /\ <<a, b>>[k] = a) \/ (k = 2 /\ <<a, b>>[k] = b)
      OBVIOUS
    <3>2. Len(<<a, b>>) = 2  OBVIOUS
    <3> HIDE DEF r
    <3>3. SettleAtEnd(<<a, b>>)  BY <1>4, <3>1, <3>2 DEF SettleAtEnd, Settling
    <3>4. Sound(<<a, b>>)  BY <1>4, <3>1 DEF Sound, Settling
    <3>5. \A t : AudioOf(<<a, b>>, t)  BY <1>4, <3>1 DEF AudioOf
    <3>6. QED  BY <2>3, <3>3, <3>4, <3>5
  <2>4. QED  BY <1>3, <2>1, <2>2, <2>3
<1>8. o.svc.resp = 0 /\ ~o.svc.flushed /\ ~flush => r = << >>  BY <1>3
<1>9. QED  BY <1>6, <1>7, <1>8

---------------------------------------------------------------------------
\* What keeps CalmParts.

\* Nothing is taken, rendered or cancelled; of the wire some may be read or lost.
LEMMA CalmStill ==
    ASSUME CalmParts, Shorter(wire', wire), wire = << >> => wire' = << >>,
           Up' => Up, link'.n = link.n, link.ws = "none" => link'.ws = "none",
           own'.slot.idle = own.slot.idle, own'.slot.slot = own.slot.slot, own'.svc = own.svc, Serving',
           \/ own'.utt = NoUtterance
           \/ /\ own'.utt.turn = own.utt.turn /\ own'.utt.conn = own.utt.conn
              /\ own.utt.dead => own'.utt.dead,
           Up' /\ Awaits /\ own.utt.turn # 0 /\ ~own.slot.idle => Awaits',
           said'.foreign => said.foreign, said'.mixed => said.mixed
    PROVE  CalmParts'
<1>1. /\ SlotEmpty /\ SlotsOwn /\ SettleLast /\ OpenUtterance /\ SlotUtterance
      /\ ~said.foreign /\ ~said.mixed
  BY DEF CalmParts
<1>2. /\ NoSettle(wire) => NoSettle(wire')
      /\ Unanswered(wire) => Unanswered(wire')
      /\ SettleAtEnd(wire) => SettleAtEnd(wire')
      /\ \A t : AudioOf(wire, t) => AudioOf(wire', t)
  BY ShorterParts
<1>3. SlotEmpty'  BY <1>1 DEF SlotEmpty
<1>4. SlotsOwn'  BY <1>1, <1>2 DEF SlotsOwn
<1>5. SettleLast'  BY <1>1, <1>2 DEF SettleLast
<1>6. own'.utt = NoUtterance => own'.utt.turn = 0  BY DEF NoUtterance
<1>7. OpenUtterance'  BY <1>1, <1>2, <1>6 DEF OpenUtterance, Open
<1>8. SlotUtterance'  BY <1>1, <1>2, <1>6 DEF SlotUtterance
<1>9. QED  BY <1>1, <1>3, <1>4, <1>5, <1>7, <1>8 DEF CalmParts

\* The slot is freed, and nothing is left of what it was for.
LEMMA CalmFreed ==
    ASSUME own'.slot.idle, wire' = << >>, Up' => own'.svc = NoService, ~Open', Serving',
           ~said'.foreign, ~said'.mixed
    PROVE  CalmParts'
<1>1. NoSettle(wire') /\ SettleAtEnd(wire')  BY NothingParts
<1>2. SlotEmpty' /\ SlotsOwn'  BY DEF SlotEmpty, SlotsOwn
<1>3. SettleLast'  BY <1>1 DEF SettleLast
<1>4. OpenUtterance' /\ SlotUtterance'  BY DEF OpenUtterance, SlotUtterance
<1>5. QED  BY <1>2, <1>3, <1>4 DEF CalmParts

\* The service says r.
LEMMA CalmGrows ==
    ASSUME CalmParts, Up, wire \in Seq(Messages), NEW STATE r, r \in Seq(Messages), wire' = wire \o r,
           SettleAtEnd(r), AudioOf(r, own.slot.slot), r = << >> \/ NoSettle(wire),
           own.slot.idle => r = << >>,
           own.svc = NoService \/ ~NoSettle(r) => own'.svc = NoService,
           link'.ws = link.ws, link'.n = link.n,
           own'.slot.idle = own.slot.idle, own'.slot.slot = own.slot.slot, own'.resp = own.resp,
           ~own.slot.idle => PiecesOf(own'.svc.buf, own.slot.slot),
           \/ own'.utt = NoUtterance
           \/ /\ own'.utt.turn = own.utt.turn /\ own'.utt.conn = own.utt.conn
              /\ own'.utt.dead = own.utt.dead,
           Open' => Unanswered(r),
           own'.utt.turn # 0 /\ ~own.slot.idle => ~own'.svc.flushed /\ (Awaits' \/ (~Awaits /\ Unanswered(r))),
           said' = said
    PROVE  CalmParts'
<1>1. /\ SlotEmpty /\ SlotsOwn /\ SettleLast /\ OpenUtterance /\ SlotUtterance /\ Serving
      /\ ~said.foreign /\ ~said.mixed
  BY DEF CalmParts
<1>2. Joined(wire', wire, r)  BY JoinedConcat
<1>3. /\ NoSettle(wire) /\ NoSettle(r) => NoSettle(wire')
      /\ Unanswered(wire) /\ Unanswered(r) => Unanswered(wire')
      /\ NoSettle(wire) /\ SettleAtEnd(r) => SettleAtEnd(wire')
      /\ \A t : AudioOf(wire, t) /\ AudioOf(r, t) => AudioOf(wire', t)
      /\ r = << >> => wire' = wire
  BY <1>2, JoinedParts DEF Joined
<1>4. SlotEmpty'  BY <1>1, <1>3 DEF SlotEmpty, Up
<1>5. SlotsOwn'  BY <1>1, <1>3 DEF SlotsOwn, Up
<1>6. SettleLast'
  <2>1. CASE r = << >>  BY <1>1, <1>3, <2>1 DEF SettleLast, Up
  <2>2. CASE NoSettle(wire)  BY <1>3, <2>2 DEF SettleLast, Up
  <2>3. QED  BY <2>1, <2>2
<1>7. own'.utt = NoUtterance => own'.utt.turn = 0  BY DEF NoUtterance
<1>8. OpenUtterance'  BY <1>1, <1>3, <1>7 DEF OpenUtterance, Open
<1>9. SlotUtterance'  BY <1>1, <1>3, <1>7 DEF SlotUtterance, Up
<1>10. Serving'  BY <1>1 DEF Serving
<1>11. QED  BY <1>1, <1>4, <1>5, <1>6, <1>8, <1>9, <1>10 DEF CalmParts

---------------------------------------------------------------------------
\* Kalpa's steps that take, render and cancel nothing.

LEMMA CalmWas ==
    ASSUME tts' = tts, Told' => Told, tts = "kalpa" => (own.crossed => own'.crossed), Calm'
    PROVE  Calm
BY DEF Calm

LEMMA StillAwaits ==
    ASSUME own.slotted => own'.slotted, own'.igen = own.igen, pipe.ids \subseteq pipe'.ids,
           own.slotted => Me' = Me
    PROVE  Awaits => Awaits'
BY DEF Awaits, Retired

\* What a step keeps of the holder of the lock, of its utterance and of the socket.
LEMMA KeepStill ==
    ASSUME KeepInv, Shorter(wire', wire), wire = << >> => wire' = << >>,
           link'.n = link.n, link'.ws = link.ws \/ (link'.ws = "closing" /\ link.ws # "none")
                                \/ (link'.ws = "closed" /\ wire' = << >> /\ link.ws # "none"),
           \/ own'.utt = NoUtterance
           \/ /\ own'.utt.turn = own.utt.turn /\ own'.utt.conn = own.utt.conn
              /\ own'.utt.chunks = own.utt.chunks
              /\ own'.utt.dead => own.utt.dead \/ own.utt.turn # 0,
           LockHeld', link.n \in Nat
    PROVE  KeepInv'
<1>1. SocketUp /\ ChunksOwn /\ Sound(wire)  BY DEF KeepInv
<1>2. Sound(wire')  BY <1>1, ShorterParts
<1>3. NoUtterance.turn = 0 /\ NoUtterance.conn = 0 /\ NoUtterance.chunks = << >> /\ ~NoUtterance.dead
  BY DEF NoUtterance
<1>4. \A t : PiecesOf(<< >>, t)  BY NothingParts
<1>5. ChunksOwn'  BY <1>1, <1>3, <1>4 DEF ChunksOwn
<1>6. SocketUp'  BY <1>1, <1>3 DEF SocketUp
<1>7. QED  BY <1>2, <1>5, <1>6 DEF KeepInv

LEMMA ApartCalls ==
    ASSUME TypeInv, EndInv, ApartInv, tts = "kalpa", Calls
    PROVE  ApartInv'
<1>1. UNCHANGED <<tts, base, link, senders, own, wire, said>> /\ (Told' => Told)
  BY StartTurnStep, RetireStep, InvalidateStep DEF Calls, Told
<1>2. KeepInv /\ (Calm => CalmParts) /\ wire \in Seq(Messages) /\ link.n \in Nat
  BY DEF ApartInv, TypeInv, Sockets
<1>3. Shorter(wire', wire)  BY <1>1, <1>2, ShorterWires
<1>4. LockHeld'  BY <1>1, <1>2 DEF KeepInv, LockHeld, Me
<1>5. KeepInv'  BY <1>1, <1>2, <1>3, <1>4, KeepStill
<1>6. ASSUME Calm' PROVE CalmParts'
  <2>1. Calm /\ CalmParts  BY <1>1, <1>2, <1>6, CalmWas
  <2>2. Serving'  BY <1>1, <2>1 DEF CalmParts, Serving
  <2>3. Awaits /\ own.utt.turn # 0 => Awaits'
    <3>1. CASE StartTurn
      <4>1. pipe.ids \subseteq pipe'.ids /\ Me' = Me  BY <1>1, <3>1, StartTurnStep DEF Me
      <4>2. QED  BY <1>1, <4>1, StillAwaits
    <3>2. CASE Retire  BY <1>6, <3>2, RetireStep DEF Calm, Told
    <3>3. CASE Invalidate
      <4>1. pipe.cut /\ Epochs  BY <3>3, InvalidateStep DEF EndInv
      <4>2. QED  BY <4>1 DEF Epochs
    <3>4. QED  BY <3>1, <3>2, <3>3 DEF Calls
  <2>4. QED  BY <1>1, <1>3, <2>1, <2>2, <2>3, CalmStill DEF Up
<1>7. QED  BY <1>5, <1>6 DEF ApartInv

LEMMA ApartPush ==
    ASSUME TypeInv, ApartInv, tts = "kalpa", Pushes, Asks
    PROVE  ApartInv'
<1>1. /\ PushOwn /\ UNCHANGED <<tts, link, wire, said>> /\ Pushing
      /\ \E text \in BOOLEAN : senders' = Append(senders, Pushed(text, pipe.left = 1, own.igen))
  BY KalpaPushes
<1>2. /\ KeepInv /\ (Calm => CalmParts) /\ wire \in Seq(Messages) /\ link.n \in Nat
      /\ own \in KalpaOwns /\ senders \in Seq(Senders) /\ LockHeld
  BY KalpaOwnType DEF ApartInv, KeepInv, TypeInv, Sockets
<1>3. Shorter(wire', wire)  BY <1>1, <1>2, ShorterWires
<1>4. senders # << >> => senders' # << >> /\ Me' = Me
  <2>1. PICK text \in BOOLEAN : senders' = Append(senders, Pushed(text, pipe.left = 1, own.igen))
    BY <1>1
  <2> DEFINE last == pipe.left = 1
             s == Pushed(text, last, own.igen)
  <2>2. senders' = Append(senders, s)  BY <2>1
  <2>3. last \in BOOLEAN /\ pipe \in Calling /\ pipe.turn \in pipe.ids /\ own.igen \in Nat
    BY <1>1, <1>2, KalpaType DEF Pushing, TypeInv
  <2> HIDE DEF last
  <2>4. s \in Senders  BY <2>3, PushedType
  <2> HIDE DEF s
  <2>5. /\ \A j \in DOMAIN senders : j \in DOMAIN senders' /\ senders'[j] = senders[j]
        /\ Len(senders') = Len(senders) + 1 /\ DOMAIN senders' = 1..(Len(senders) + 1)
    BY <1>2, <2>2, <2>4, AppendSender
  <2>6. ASSUME senders # << >> PROVE 1 \in DOMAIN senders  BY <1>2, <2>6, LenProperties, EmptySeq
  <2>7. QED  BY <2>5, <2>6 DEF Me
<1>5. LockHeld'  BY <1>1, <1>2, <1>4 DEF LockHeld, PushOwn
<1>6. own.utt.dead => own'.utt.dead  BY <1>1, <1>2, KalpaParts DEF PushOwn
<1>7. own'.utt.dead => own.utt.dead \/ own.utt.turn # 0  BY <1>1, <1>2, KalpaParts DEF PushOwn
<1>8. KeepInv'  BY <1>1, <1>2, <1>3, <1>5, <1>7, KeepStill DEF PushOwn
<1>9. ASSUME Calm' PROVE CalmParts'
  <2>1. Told' => Told  BY DEF Asks, Told
  <2>2. Calm /\ CalmParts  BY <1>1, <1>2, <1>9, <2>1, CalmWas DEF PushOwn
  <2>3. Serving'  BY <1>1, <2>2 DEF CalmParts, Serving, PushOwn
  <2>4. pipe.ids \subseteq pipe'.ids  BY DEF Asks
  <2>5. own.slotted => Me' = Me  BY <1>2, <1>4 DEF LockHeld
  <2>6. Awaits => Awaits'  BY <1>1, <2>4, <2>5, StillAwaits DEF PushOwn
  <2>7. QED  BY <1>1, <1>3, <1>6, <2>2, <2>3, <2>6, CalmStill DEF Up, PushOwn
<1>10. QED  BY <1>8, <1>9 DEF ApartInv

LEMMA ApartStarts ==
    ASSUME TypeInv, ApartInv, tts = "kalpa", NEW i \in DOMAIN senders, KalpaStarts(i)
    PROVE  ApartInv'
<1>1. UNCHANGED <<tts, pipe, base, link, own, wire, said>> /\ ~senders[i].waits  BY DEF KalpaStarts
<1>2. /\ KeepInv /\ (Calm => CalmParts) /\ wire \in Seq(Messages) /\ link.n \in Nat
      /\ senders \in Seq(Senders) /\ LockHeld
  BY DEF ApartInv, KeepInv, TypeInv, Sockets
<1>3. Shorter(wire', wire)  BY <1>1, <1>2, ShorterWires
<1>4. ASSUME senders # << >>, Me.waits PROVE senders' # << >> /\ Me' = Me
  <2>1. i # 1  BY <1>1, <1>4 DEF Me
  <2>2. Len(senders) \in Nat /\ DOMAIN senders = 1..Len(senders) /\ i \in 1..Len(senders)
    BY <1>2, LenProperties
  <2>3. Len(senders) > 1  BY <2>1, <2>2
  <2>4. CASE senders' = Without(i)
    <3>1. /\ Len(Without(i)) = Len(senders) - 1 /\ Without(i) \in Seq(Senders)
          /\ \A j \in DOMAIN Without(i) : Without(i)[j] = IF j < i THEN senders[j] ELSE senders[j + 1]
      BY <1>2, WithoutType
    <3>2. DOMAIN Without(i) = 1..Len(Without(i))  BY <3>1, LenProperties
    <3>3. 1 \in DOMAIN Without(i) /\ 1 < i  BY <2>1, <2>2, <2>3, <3>1, <3>2
    <3>4. Without(i)[1] = senders[1]  BY <3>1, <3>3
    <3>5. Without(i) # << >>  BY <3>3
    <3>6. QED  BY <2>4, <3>4, <3>5 DEF Me
  <2>5. CASE senders' = [senders EXCEPT ![i].waits = TRUE]
    <3>1. 1 \in DOMAIN senders /\ senders'[1] = senders[1] /\ DOMAIN senders' = DOMAIN senders
      BY <2>1, <2>2, <2>3, <2>5
    <3>2. QED  BY <3>1 DEF Me
  <2>6. QED  BY <2>4, <2>5 DEF KalpaStarts
<1>5. LockHeld'  BY <1>1, <1>2, <1>4 DEF LockHeld
<1>6. KeepInv'  BY <1>1, <1>2, <1>3, <1>5, KeepStill
<1>7. ASSUME Calm' PROVE CalmParts'
  <2>1. Calm /\ CalmParts  BY <1>1, <1>2, <1>7, CalmWas DEF Told
  <2>2. Serving'  BY <1>1, <2>1 DEF CalmParts, Serving
  <2>3. own.slotted => Me' = Me  BY <1>2, <1>4 DEF LockHeld
  <2>4. Awaits => Awaits'  BY <1>1, <2>3, StillAwaits
  <2>5. QED  BY <1>1, <1>3, <2>1, <2>2, <2>4, CalmStill DEF Up
<1>8. QED  BY <1>6, <1>7 DEF ApartInv

\* The holder of the lock goes on with nothing sent.
LEMMA ApartHolder ==
    ASSUME TypeInv, ApartInv, tts = "kalpa", UNCHANGED <<tts, pipe, said>>,
           own' \in KalpaOwns, own'.igen = own.igen, own'.slot.idle = own.slot.idle,
           own'.slot.slot = own.slot.slot, own'.resp = own.resp,
           own'.svc = own.svc, own'.crossed = own.crossed,
           own'.utt = own.utt \/ own'.utt = NoUtterance, LockHeld',
           Shorter(wire', wire), wire = << >> => wire' = << >>,
           link'.n = link.n, link'.ws = link.ws \/ (link'.ws = "closing" /\ link.ws # "none"),
           Up' /\ Awaits /\ own.utt.turn # 0 /\ ~own.slot.idle => Awaits'
    PROVE  ApartInv'
<1>1. KeepInv /\ (Calm => CalmParts) /\ link.n \in Nat
  BY DEF ApartInv, TypeInv, Sockets
<1>2. KeepInv'  BY <1>1, KeepStill
<1>3. ASSUME Calm' PROVE CalmParts'
  <2>1. Calm /\ CalmParts  BY <1>1, <1>3, CalmWas DEF Told
  <2>2. Serving'  BY <2>1 DEF CalmParts, Serving
  <2>3. Up' => Up  BY DEF Up
  <2>4. QED  BY <2>1, <2>2, <2>3, CalmStill
<1>4. QED  BY <1>2, <1>3 DEF ApartInv

LEMMA ApartLeaves ==
    ASSUME TypeInv, ApartInv, tts = "kalpa", Holding, LetsGo(own),
           UNCHANGED <<tts, pipe, link, said, wire>>, Awaits => own.slot.idle
    PROVE  ApartInv'
<1>1. own' \in KalpaOwns /\ Alike(own', own) /\ own'.at = "text" /\ ~own'.slotted
  BY KalpaOwnType, LetsGoType
<1>2. LockHeld'  BY <1>1 DEF LockHeld
<1>3. Shorter(wire', wire)  BY ShorterWires DEF TypeInv
<1>4. QED  BY <1>1, <1>2, <1>3, ApartHolder DEF Alike

LEMMA ApartSkips ==
    ASSUME TypeInv, ApartInv, tts = "kalpa", Holding, ~own.slotted, Skips,
           UNCHANGED <<tts, pipe, link, said, wire>>
    PROVE  ApartInv'
<1>0. own \in KalpaOwns  BY KalpaOwnType
<1> DEFINE f == [own EXCEPT !.utt = NoUtterance]
           o == IF DeadOne THEN f ELSE own
<1>1. /\ f \in KalpaOwns /\ f.utt = NoUtterance /\ f.slot = own.slot /\ f.igen = own.igen
      /\ f.resp = own.resp /\ f.svc = own.svc /\ f.crossed = own.crossed
  BY <1>0, NothingTypes DEF KalpaOwns
<1> HIDE DEF f
<1>2. /\ o \in KalpaOwns /\ o.utt \in {own.utt, NoUtterance} /\ o.slot = own.slot /\ o.igen = own.igen
      /\ o.resp = own.resp /\ o.svc = own.svc /\ o.crossed = own.crossed
  BY <1>0, <1>1
<1>3. /\ own' \in KalpaOwns /\ (Alike(own', own) \/ Alike(own', o)) /\ ~own'.slotted
      /\ own'.at = "end" => senders' = senders
  <2>1. CASE own.at = "text"
    <3>1. TextDone(own)  BY <2>1 DEF Skips
    <3>2. QED  BY <1>0, <3>1, TextDoneType
  <2>2. CASE own.at # "text"
    <3>1. LetsGo(o)  BY <2>2 DEF Skips, f
    <3> HIDE DEF o
    <3>2. QED  BY <1>2, <3>1, LetsGoType
  <2>3. QED  BY <2>1, <2>2
<1> HIDE DEF o
<1>4. LockHeld'  BY <1>3 DEF LockHeld, Holding, Me
<1>5. Shorter(wire', wire)  BY ShorterWires DEF TypeInv
<1>6. ~Awaits  BY DEF Awaits
<1>7. QED  BY <1>2, <1>3, <1>4, <1>5, <1>6, ApartHolder DEF Alike

\* The wait for the slot begins, or ends.
LEMMA ApartSlotted ==
    ASSUME TypeInv, ApartInv, tts = "kalpa", Holding, NEW w \in BOOLEAN, own' = [own EXCEPT !.slotted = w],
           UNCHANGED <<tts, pipe, said, senders>>, Shorter(wire', wire), wire = << >> => wire' = << >>,
           link'.n = link.n, link'.ws = link.ws \/ (link'.ws = "closing" /\ link.ws # "none"),
           w \/ own.slot.idle \/ ~Up'
    PROVE  ApartInv'
<1>1. own' \in KalpaOwns /\ Alike(own', own) /\ own'.at = own.at /\ own'.slotted = w
  <2>1. own \in KalpaOwns  BY KalpaOwnType
  <2>2. QED  BY <2>1, SlottedType
<1>2. LockHeld'  BY DEF LockHeld, Holding, Me
<1>3. Me' = Me  BY DEF Me
<1>4. w /\ Awaits => Awaits'  BY <1>1, <1>3 DEF Awaits, Retired, Alike
<1>5. QED  BY <1>1, <1>2, <1>4, ApartHolder DEF Alike

LEMMA ApartTimesOut ==
    ASSUME TypeInv, ApartInv, tts = "kalpa", SlotTimesOut
    PROVE  ApartInv'
<1>1. Holding /\ own.slotted /\ ~own.slot.idle /\ UNCHANGED <<tts, pipe, base, said>>
      /\ wire \in Seq(Messages) /\ link \in Sockets
  BY DEF SlotTimesOut, TypeInv
<1>2. CASE Retired(Me)
  <2>1. LetsGo(own) /\ UNCHANGED <<link, wire>>  BY <1>2 DEF SlotTimesOut
  <2>2. QED  BY <1>1, <1>2, <2>1, ApartLeaves DEF Awaits
<1>3. CASE ~Retired(Me)
  <2> DEFINE no == FALSE
  <2>1. /\ own' = [own EXCEPT !.slotted = no] /\ UNCHANGED senders
        /\ \/ link.ws = "open" /\ link' = [link EXCEPT !.ws = "closing"] /\ wire' \in Prefixes(wire)
           \/ link.ws # "open" /\ UNCHANGED <<link, wire>>
    BY <1>3 DEF SlotTimesOut
  <2>2. no \in BOOLEAN  OBVIOUS
  <2> HIDE DEF no
  <2>3. Shorter(wire', wire) /\ (wire = << >> => wire' = << >>)  BY <1>1, <2>1, ShorterWires
  <2>4. link'.n = link.n /\ link'.ws # "open"
        /\ (link'.ws = link.ws \/ (link'.ws = "closing" /\ link.ws # "none"))
    BY <1>1, <2>1 DEF Sockets
  <2>5. QED  BY <1>1, <2>1, <2>2, <2>3, <2>4, ApartSlotted DEF Up
<1>4. QED  BY <1>2, <1>3

\* The socket is lost, the call is over or nothing happens.
LEMMA ApartLose ==
    ASSUME TypeInv, ApartInv, tts = "kalpa", GivesUp \/ Lose \/ UNCHANGED synVars
    PROVE  ApartInv'
<1>1. /\ UNCHANGED <<tts, base, senders, own, said>> /\ wire \in Seq(Messages) /\ link \in Sockets
      /\ pipe'.ids = pipe.ids /\ pipe'.silent = pipe.silent
  BY DEF GivesUp, Lose, synVars, TypeInv, Calling
<1>2. KeepInv /\ (Calm => CalmParts) /\ link.n \in Nat /\ LockHeld
  BY <1>1 DEF ApartInv, KeepInv, Sockets
<1>3. /\ Shorter(wire', wire) /\ (wire = << >> => wire' = << >>)
      /\ link'.n = link.n
      /\ \/ link'.ws = link.ws
         \/ link'.ws = "closing" /\ link.ws # "none"
         \/ link'.ws = "closed" /\ wire' = << >> /\ link.ws # "none"
  <2>1. CASE GivesUp \/ UNCHANGED synVars
    BY <1>1, <2>1, ShorterWires DEF GivesUp, synVars
  <2>2. CASE Lose
    <3>1. CASE /\ link.ws = "open" /\ link' = [link EXCEPT !.ws = "closing", !.lost = @ + 1]
               /\ wire' \in Prefixes(wire)
      BY <1>1, <2>2, <3>1, ShorterWires DEF Lose, Sockets
    <3>2. CASE /\ link.ws = "closing" /\ wire' = << >>
               /\ link' = [link EXCEPT !.ws = "closed", !.lost = IF @ = 0 THEN 1 ELSE @]
      BY <1>1, <2>2, <3>2, ShorterWires DEF Lose, Sockets
    <3>3. QED  BY <2>2, <3>1, <3>2 DEF Lose
  <2>3. QED  BY <2>1, <2>2
<1>4. LockHeld' /\ Me' = Me  BY <1>1, <1>2 DEF LockHeld, Me
<1>5. KeepInv'  BY <1>1, <1>2, <1>3, <1>4, KeepStill
<1>6. ASSUME Calm' PROVE CalmParts'
  <2>1. Calm /\ CalmParts  BY <1>1, <1>2, <1>6, CalmWas DEF Told
  <2>2. Serving'  BY <1>1, <2>1 DEF CalmParts, Serving
  <2>3. Awaits => Awaits'  BY <1>1, <1>4, StillAwaits
  <2>4. Up' => Up  BY <1>3 DEF Up
  <2>5. QED  BY <1>1, <1>3, <2>1, <2>2, <2>3, <2>4, CalmStill
<1>7. QED  BY <1>5, <1>6 DEF ApartInv

---------------------------------------------------------------------------
\* The holder of the lock writes, takes the slot, or cancels a superseded turn's.

LEMMA NewPieceOf ==
    ASSUME TypeInv, tts = "kalpa", Holding
    PROVE  NewPiece \in Seq(Pieces) /\ PiecesOf(NewPiece, Me.turn)
<1> DEFINE no == FALSE
<1>1. own \in KalpaOwns /\ KalpaTurns(own) \subseteq Flying /\ no \in BOOLEAN  BY KalpaOwnType
<1> HIDE DEF no
<1>2. NewPiece \in Seq(Pieces) /\ TurnsOf(NewPiece) \subseteq {Me.turn}  BY <1>1, SentType
<1>3. QED  BY <1>2 DEF PiecesOf, TurnsOf

\* What is sent of an utterance of the holder's turn is that turn's.
LEMMA SentOwn ==
    ASSUME TypeInv, tts = "kalpa", Holding, NEW o \in KalpaOwns, NEW replay \in BOOLEAN,
           KalpaTurns(o) \subseteq Flying, PiecesOf(o.utt.chunks, Me.turn)
    PROVE  /\ PiecesOf(AllPieces(o), Me.turn) /\ PiecesOf(Sent(o, replay), Me.turn)
           /\ PiecesOf(o.svc.buf, Me.turn) => PiecesOf(Fed(o, replay).buf, Me.turn)
<1>1. NewPiece \in Seq(Pieces) /\ PiecesOf(NewPiece, Me.turn)  BY NewPieceOf
<1>2. o.utt.chunks \in Seq(Pieces) /\ o.svc.buf \in Seq(Pieces)  BY KalpaParts
<1>3. PiecesOf(AllPieces(o), Me.turn)
  <2>1. Joined(o.utt.chunks \o NewPiece, o.utt.chunks, NewPiece)  BY <1>1, <1>2, JoinedConcat
  <2>2. QED  BY <1>1, <2>1, JoinedParts DEF AllPieces
<1>4. PiecesOf(Sent(o, replay), Me.turn)  BY <1>1, <1>3 DEF Sent
<1>5. ASSUME PiecesOf(o.svc.buf, Me.turn) PROVE PiecesOf(Fed(o, replay).buf, Me.turn)
  <2>1. Sent(o, replay) \in Seq(Pieces) /\ Fed(o, replay).buf = o.svc.buf \o Sent(o, replay)
    BY SentType
  <2>2. Joined(o.svc.buf \o Sent(o, replay), o.svc.buf, Sent(o, replay))  BY <1>2, <2>1, JoinedConcat
  <2>3. QED  BY <1>4, <1>5, <2>1, <2>2, JoinedParts
<1>6. QED  BY <1>3, <1>4, <1>5

LEMMA ApartWrites ==
    ASSUME TypeInv, ApartInv, tts = "kalpa", Holding, OpenNow, ~own.utt.dead, Writes(own, FALSE),
           UNCHANGED <<tts, pipe, link, wire>>
    PROVE  ApartInv'
<1> DEFINE no == FALSE
           t == Me.turn
<1>1. no \in BOOLEAN /\ Writes(own, no)  OBVIOUS
<1> HIDE DEF no
<1>2. /\ own \in KalpaOwns /\ KalpaTurns(own) \subseteq Flying /\ own.at \in {"text", "end"}
      /\ own.utt \in Utterances /\ t # 0 /\ link.ws # "none" /\ link.n \in Nat
      /\ own.utt.turn = t /\ own.utt.conn = link.n
      /\ KeepInv /\ (Calm => CalmParts) /\ senders # << >> /\ Me.waits
  BY KalpaOwnType, KalpaType, MeType DEF OpenNow, Connected, TypeInv, Sockets, ApartInv, Holding, Me
<1>3. /\ own' \in KalpaOwns /\ own'.slot = own.slot /\ own'.resp = own.resp /\ ~own'.slotted
      /\ own'.crossed = (own.crossed \/ (link.ws = "open" /\ Crosses))
      /\ own'.svc = IF link.ws = "open" THEN Fed(own, no) ELSE own.svc
      /\ own.at = "end" => own'.utt = NoUtterance /\ own'.at = "text"
      /\ own.at = "text" => /\ own'.utt = [own.utt EXCEPT !.chunks = AllPieces(own)]
                            /\ own'.at = "end" => senders' = senders
      /\ said'.foreign = said.foreign
      /\ said'.mixed => said.mixed \/ Joins(own)
  BY <1>1, <1>2, WritesType
<1>4. PiecesOf(own.utt.chunks, t) /\ SocketUp /\ Sound(wire)  BY <1>2 DEF KeepInv, ChunksOwn
<1>5. /\ PiecesOf(AllPieces(own), t)
      /\ Fed(own, no).flushed <=> (own.svc.flushed \/ own.at = "end")
      /\ PiecesOf(own.svc.buf, t) => PiecesOf(Fed(own, no).buf, t)
  BY <1>1, <1>2, <1>4, SentOwn, SentType
<1>6. own.at = "text" => /\ own'.utt.turn = t /\ own'.utt.conn = link.n /\ ~own'.utt.dead
                         /\ own'.utt.chunks = AllPieces(own)
  BY <1>2, <1>3 DEF Utterances
<1>7. own.at = "end" => /\ own'.utt.turn = 0 /\ own'.utt.conn = 0 /\ ~own'.utt.dead
                        /\ own'.utt.chunks = << >>
  BY <1>3 DEF NoUtterance
<1>8. KeepInv'
  <2>1. LockHeld'  BY <1>2, <1>3 DEF LockHeld, Me
  <2>2. ChunksOwn'
    <3>1. CASE own.at = "text"  BY <1>5, <1>6, <3>1 DEF ChunksOwn
    <3>2. CASE own.at = "end"
      <4>1. PiecesOf(own'.utt.chunks, own'.utt.turn)  BY <1>7, <3>2, NothingParts
      <4>2. QED  BY <1>7, <3>2, <4>1 DEF ChunksOwn
    <3>3. QED  BY <1>2, <3>1, <3>2
  <2>3. SocketUp'  BY <1>2, <1>4, <1>6, <1>7 DEF SocketUp
  <2>4. QED  BY <1>4, <2>1, <2>2, <2>3 DEF KeepInv
<1>9. ASSUME Calm' PROVE CalmParts'
  <2>1. Calm /\ CalmParts  BY <1>2, <1>3, <1>9, CalmWas DEF Told
  <2>2. Up => ~Crosses  BY <1>3, <1>9 DEF Calm, Up
  <2>3. /\ SlotsOwn /\ SettleLast /\ OpenUtterance /\ SlotUtterance /\ Serving
        /\ ~said.foreign /\ ~said.mixed
    BY <2>1 DEF CalmParts
  <2>4. ~own.slot.idle /\ own.slot.slot = t /\ Unanswered(wire)  BY <1>2, <2>3 DEF OpenUtterance, Open
  <2>5. SlotEmpty'  BY <1>3, <2>4 DEF SlotEmpty
  <2>6. SlotsOwn'  BY <1>3, <1>5, <2>3, <2>4 DEF SlotsOwn, Up
  <2>7. Up => NoSettle(wire)  BY <2>2, <2>4 DEF NoSettle, Unanswered, Crosses, Settling
  <2>8. SettleLast'  BY <2>3, <2>7 DEF SettleLast, Up
  <2>9. OpenUtterance'  BY <1>2, <1>3, <1>6, <1>7, <2>4 DEF OpenUtterance, Open
  <2>10. Up => ~own.svc.flushed  BY <1>2, <2>3, <2>4 DEF SlotUtterance
  <2>11. SlotUtterance'
    <3>1. CASE own.at = "end"  BY <1>7, <3>1 DEF SlotUtterance
    <3>2. CASE own.at = "text"
      <4>1. Up => ~own'.svc.flushed  BY <1>3, <1>5, <2>10, <3>2 DEF Up
      <4>2. QED  BY <1>3, <1>6, <2>4, <3>2, <4>1 DEF SlotUtterance, Up
    <3>3. QED  BY <1>2, <3>1, <3>2
  <2>12. ~Joins(own)  BY <2>3, <2>4 DEF Joins, SlotsOwn, PiecesOf, Up
  <2>13. Serving'  BY <1>3, <2>3 DEF Serving
  <2>14. QED  BY <1>3, <2>3, <2>5, <2>6, <2>8, <2>9, <2>11, <2>12, <2>13 DEF CalmParts
<1>10. QED  BY <1>8, <1>9 DEF ApartInv

\* The utterance of the holder's turn, begun or resumed, has its own pieces only.
LEMMA MineParts ==
    ASSUME own \in KalpaOwns, Me.turn \in 0..MaxTurn, Me.turn # 0, ChunksOwn
    PROVE  /\ Mine(own).conn \in {own.utt.conn, 0}
           /\ own.utt.turn # Me.turn => Mine(own).conn = 0
           /\ PiecesOf(Mine(own).chunks, Me.turn) /\ Mine(own).turn = Me.turn
<1>1. Mine(own).turn = Me.turn  BY MineType
<1>2. CASE own.utt.turn = Me.turn  BY <1>1, <1>2 DEF Mine, ChunksOwn
<1>3. CASE own.utt.turn # Me.turn
  <2>1. Mine(own) = [NoUtterance EXCEPT !.turn = Me.turn]  BY <1>3 DEF Mine
  <2>2. NoUtterance \in Utterances /\ NoUtterance.conn = 0  BY NothingTypes DEF NoUtterance
  <2>3. Mine(own).conn = 0  BY <2>1, <2>2 DEF Utterances
  <2>4. Mine(own).chunks = << >>  BY <1>3, MineType
  <2>5. PiecesOf(Mine(own).chunks, Me.turn)  BY <2>4, NothingParts
  <2>6. QED  BY <1>1, <1>3, <2>3, <2>5
<1>4. QED  BY <1>2, <1>3

\* The wipe has no socket left to be sent on: the utterance is the turn's, the slot free.
LEMMA ApartRetakes ==
    ASSUME TypeInv, ApartInv, tts = "kalpa", Holding, own.slot.idle, Connected,
           own' = [Retaken(own) EXCEPT !.slotted = FALSE], UNCHANGED <<tts, pipe, link, senders, said, wire>>
    PROVE  ApartInv'
<1> DEFINE o == Retaken(own)
           no == FALSE
<1>1. /\ own \in KalpaOwns /\ Me.turn \in 0..MaxTurn /\ Me.turn # 0 /\ link.n \in Nat /\ link.ws # "none"
      /\ KeepInv /\ SocketUp /\ ChunksOwn /\ LockHeld /\ Sound(wire) /\ (Calm => CalmParts)
      /\ own.utt \in Utterances
  <2>1. Me.turn \in Turns /\ MaxTurn \in Nat  BY MeType, SynthesizerAssumption
  <2>2. own \in KalpaOwns /\ own.utt \in Utterances  BY KalpaOwnType, KalpaType
  <2>3. QED  BY <2>1, <2>2 DEF TypeInv, Sockets, Turns, Connected, ApartInv, KeepInv
<1>2. /\ o \in KalpaOwns /\ o.utt = Mine(own) /\ o.slot = own.slot /\ o.resp = own.resp
      /\ o.svc = own.svc /\ o.crossed = own.crossed /\ o.at = own.at
  BY <1>1, RetakenType
<1>3. own' = [o EXCEPT !.slotted = no] /\ no \in BOOLEAN /\ ~no  OBVIOUS
<1> HIDE DEF o, no
<1> DEFINE q == [o EXCEPT !.slotted = no]
<1>3a. Alike(q, o) /\ q.at = o.at /\ q.slotted = no /\ own' = q  BY <1>2, <1>3, SlottedType
<1> HIDE DEF q
<1>4. Alike(own', o) /\ own'.at = own.at /\ ~own'.slotted
  <2>1. own'.slotted = no  BY <1>3a
  <2>2. ~own'.slotted  BY <1>3, <2>1
  <2>3. Alike(own', o) /\ own'.at = own.at  BY <1>2, <1>3a
  <2>4. QED  BY <2>2, <2>3
<1>5. /\ own'.utt = Mine(own) /\ own'.slot = own.slot /\ own'.resp = own.resp
      /\ own'.svc = own.svc /\ own'.crossed = own.crossed
  BY <1>2, <1>4 DEF Alike
<1>6. /\ Mine(own).conn \in {own.utt.conn, 0} /\ Mine(own).turn = Me.turn
      /\ own.utt.turn # Me.turn => Mine(own).conn = 0
      /\ PiecesOf(Mine(own).chunks, Me.turn)
      /\ own.utt.turn = Me.turn => Mine(own) = own.utt
  BY <1>1, MineParts, MineType
<1>7. KeepInv'
  <2>1. LockHeld'  BY <1>1, <1>4 DEF LockHeld, Me
  <2>2. ChunksOwn'  BY <1>1, <1>5, <1>6 DEF ChunksOwn
  <2>3. SocketUp'  BY <1>1, <1>5, <1>6 DEF SocketUp
  <2>4. QED  BY <1>1, <2>1, <2>2, <2>3 DEF KeepInv
<1>8. ASSUME Calm' PROVE CalmParts'
  <2>1. Calm /\ CalmParts  BY <1>1, <1>5, <1>8, CalmWas DEF Told
  <2>2. /\ SlotEmpty /\ SlotsOwn /\ SettleLast /\ OpenUtterance /\ SlotUtterance /\ Serving
        /\ ~said.foreign /\ ~said.mixed
    BY <2>1 DEF CalmParts
  <2>3. SlotEmpty' /\ SlotsOwn' /\ SettleLast' /\ Serving'
    BY <1>5, <2>2 DEF SlotEmpty, SlotsOwn, SettleLast, Serving, Up
  <2>4. ~Open'
    <3>1. CASE own.utt.turn = Me.turn  BY <1>5, <1>6, <2>2, <3>1 DEF OpenUtterance, Open
    <3>2. CASE own.utt.turn # Me.turn  BY <1>1, <1>5, <1>6, <3>2 DEF Open, SocketUp
    <3>3. QED  BY <3>1, <3>2
  <2>5. OpenUtterance' /\ SlotUtterance'  BY <1>5, <2>4 DEF OpenUtterance, SlotUtterance
  <2>6. QED  BY <2>2, <2>3, <2>5 DEF CalmParts
<1>9. QED  BY <1>7, <1>8 DEF ApartInv

\* The slot is taken, and the turn's text sent.
LEMMA ApartSendsFirst ==
    ASSUME TypeInv, ApartInv, tts = "kalpa", Holding, own.slot.idle, Connected,
           UNCHANGED <<tts, pipe, link>>,
           ~(Wipes(own) /\ link.ws = "closing"), Writes(Taken(own), Mine(own).chunks # << >>),
           wire' = wire \o (IF Wipes(own) THEN CancelOutput(Retaken(own), FALSE) ELSE << >>)
    PROVE  ApartInv'
<1> DEFINE o == Taken(own)
           replay == Mine(own).chunks # << >>
           no == FALSE
           r == IF Wipes(own) THEN CancelOutput(Retaken(own), no) ELSE << >>
           t == Me.turn
<1>1. /\ own \in KalpaOwns /\ t \in 0..MaxTurn /\ t # 0 /\ link.n \in Nat
      /\ link.ws \in {"open", "closing"} /\ own.at \in {"text", "end"}
      /\ KeepInv /\ SocketUp /\ ChunksOwn /\ LockHeld /\ Sound(wire) /\ (Calm => CalmParts)
      /\ wire \in Seq(Messages) /\ senders # << >> /\ Me.waits /\ KalpaTurns(own) \subseteq Flying
  <2>1. Me.turn \in Turns /\ MaxTurn \in Nat  BY MeType, SynthesizerAssumption
  <2>2. own \in KalpaOwns /\ own.at \in {"text", "end"} /\ KalpaTurns(own) \subseteq Flying
    BY KalpaOwnType, KalpaType
  <2>3. QED  BY <2>1, <2>2 DEF TypeInv, Sockets, Turns, Connected, ApartInv, KeepInv, Holding, Me
<1>2. /\ o \in KalpaOwns /\ o.utt = [Mine(own) EXCEPT !.conn = link.n] /\ o.slot = TakenSlot
      /\ o.resp = own.resp /\ o.crossed = own.crossed /\ KalpaTurns(o) \subseteq Flying
      /\ o.svc = (IF Wipes(own) THEN NoService ELSE own.svc)
  BY <1>1, TakenType
<1>3. Writes(o, replay) /\ replay \in BOOLEAN /\ wire' = wire \o r /\ no \in BOOLEAN /\ ~no  OBVIOUS
<1>4. /\ Mine(own) \in Utterances /\ Mine(own).turn = t /\ PiecesOf(Mine(own).chunks, t)
  BY <1>1, MineParts, MineType
<1> HIDE DEF o, replay
<1>5. /\ o.utt.turn = t /\ o.utt.conn = link.n /\ o.utt.chunks = Mine(own).chunks
      /\ o.utt \in Utterances
  BY <1>1, <1>2, <1>4 DEF Utterances
<1>6. /\ own' \in KalpaOwns /\ own'.slot = TakenSlot /\ own'.resp = own.resp /\ ~own'.slotted
      /\ own'.crossed = (own.crossed \/ (link.ws = "open" /\ Crosses))
      /\ own'.svc = IF link.ws = "open" THEN Fed(o, replay) ELSE o.svc
      /\ own.at = "end" => own'.utt = NoUtterance /\ own'.at = "text"
      /\ own.at = "text" => /\ own'.utt = [o.utt EXCEPT !.chunks = AllPieces(o)]
                            /\ own'.at = "end" => senders' = senders
      /\ said'.foreign = said.foreign
      /\ said'.mixed => said.mixed \/ Joins(o)
  BY <1>1, <1>2, <1>3, WritesType
<1>7. /\ PiecesOf(AllPieces(o), t)
      /\ Fed(o, replay).flushed <=> (o.svc.flushed \/ own.at = "end")
      /\ PiecesOf(o.svc.buf, t) => PiecesOf(Fed(o, replay).buf, t)
  BY <1>2, <1>3, <1>4, <1>5, SentOwn, SentType
<1>8. own.at = "text" => /\ own'.utt.turn = t /\ own'.utt.conn = link.n
                         /\ own'.utt.chunks = AllPieces(o)
  BY <1>5, <1>6 DEF Utterances
<1>9. own.at = "end" => /\ own'.utt.turn = 0 /\ own'.utt.conn = 0 /\ ~own'.utt.dead
                        /\ own'.utt.chunks = << >>
  BY <1>6 DEF NoUtterance
<1>10. /\ r \in Seq(Messages) /\ Sound(r)
       /\ own.svc.resp = 0 /\ ~own.svc.flushed => r = << >>
  <2> HIDE DEF no
  <2>1. Retaken(own) \in KalpaOwns /\ Retaken(own).svc = own.svc  BY <1>1, RetakenType
  <2>2. /\ CancelOutput(Retaken(own), no) \in Seq(Messages) /\ Sound(CancelOutput(Retaken(own), no))
        /\ own.svc.resp = 0 /\ ~own.svc.flushed => CancelOutput(Retaken(own), no) = << >>
    BY <1>3, <2>1, CancelOutputParts
  <2>3. << >> \in Seq(Messages) /\ Sound(<< >>)  BY NothingParts
  <2>4. QED  BY <2>2, <2>3
<1> HIDE DEF r
<1>11. KeepInv'
  <2>1. LockHeld'  BY <1>1, <1>6 DEF LockHeld, Me
  <2>2. ChunksOwn'
    <3>1. CASE own.at = "text"  BY <1>1, <1>7, <1>8, <3>1 DEF ChunksOwn
    <3>2. CASE own.at = "end"
      <4>1. PiecesOf(own'.utt.chunks, own'.utt.turn)  BY <1>9, <3>2, NothingParts
      <4>2. QED  BY <1>9, <3>2, <4>1 DEF ChunksOwn
    <3>3. QED  BY <1>1, <3>1, <3>2
  <2>3. SocketUp'
    <3>1. own'.utt.conn <= link.n
      <4>1. link.n <= link.n /\ 0 <= link.n  BY <1>1
      <4>2. own'.utt.conn \in {0, link.n}  BY <1>1, <1>8, <1>9
      <4>3. QED  BY <4>1, <4>2
    <3>2. link.n # 0 /\ link.ws \notin {"none", "closed", "dying"}  BY <1>1 DEF SocketUp
    <3>3. QED  BY <3>1, <3>2 DEF SocketUp
  <2>4. Sound(wire')
    <3>1. Joined(wire', wire, r)  BY <1>1, <1>3, <1>10, JoinedConcat
    <3>2. QED  BY <1>1, <1>10, <3>1, JoinedParts
  <2>5. QED  BY <2>1, <2>2, <2>3, <2>4 DEF KeepInv
<1>12. ASSUME Calm' PROVE CalmParts'
  <2>1. Calm /\ CalmParts  BY <1>1, <1>6, <1>12, CalmWas DEF Told
  <2>2. SlotEmpty /\ Serving /\ ~said.foreign /\ ~said.mixed  BY <2>1 DEF CalmParts
  <2>3. wire = << >> /\ (Up => own.svc = NoService)  BY <2>2 DEF SlotEmpty
  <2>4. /\ NoService.buf = << >> /\ NoService.resp = 0 /\ ~NoService.flushed  BY NothingTypes
  <2>5. r = << >>
    <3>1. CASE Up  BY <1>10, <2>3, <2>4, <3>1
    <3>2. CASE ~Up  BY <1>1, <3>2 DEF r, Up
    <3>3. QED  BY <3>1, <3>2
  <2>6. wire' = << >>
    <3>1. << >> \o << >> = << >>  OBVIOUS
    <3>2. wire' = << >> \o << >>  BY <1>3, <2>3, <2>5
    <3>3. QED  BY <3>1, <3>2
  <2>7. Up => o.svc = NoService  BY <1>2, <2>3
  <2>8. own'.slot.idle = FALSE /\ own'.slot.slot = t  BY <1>6 DEF TakenSlot
  <2>9. /\ NoSettle(wire') /\ SettleAtEnd(wire') /\ Unanswered(wire') /\ AudioOf(wire', t)
        /\ PiecesOf(NoService.buf, t)
    BY <2>4, <2>6, NothingParts
  <2>10. Up => PiecesOf(own'.svc.buf, t)  BY <1>6, <1>7, <2>7, <2>9 DEF Up
  <2>11. SlotEmpty' /\ SlotsOwn' /\ SettleLast'
    BY <1>1, <2>8, <2>9, <2>10 DEF SlotEmpty, SlotsOwn, SettleLast, Up
  <2>12. OpenUtterance'  BY <1>1, <1>8, <1>9, <2>8, <2>9 DEF OpenUtterance, Open
  <2>13. SlotUtterance'
    <3>1. CASE own.at = "end"  BY <1>9, <3>1 DEF SlotUtterance
    <3>2. CASE own.at = "text"
      <4>1. Up => ~own'.svc.flushed  BY <1>6, <1>7, <2>4, <2>7, <3>2 DEF Up
      <4>2. QED  BY <1>8, <2>8, <2>9, <3>2, <4>1 DEF SlotUtterance, Up
    <3>3. QED  BY <1>1, <3>1, <3>2
  <2>14. ~Joins(o)
    <3>1. DOMAIN << >> = {}  OBVIOUS
    <3>2. QED  BY <2>4, <2>7, <3>1 DEF Joins, Up
  <2>15. Serving'  BY <1>6, <2>2 DEF Serving
  <2>16. QED  BY <1>6, <2>2, <2>11, <2>12, <2>13, <2>14, <2>15 DEF CalmParts
<1>13. QED  BY <1>11, <1>12 DEF ApartInv

LEMMA ApartTakes ==
    ASSUME TypeInv, ApartInv, tts = "kalpa", Holding, own.slot.idle, Connected, TakesSlot(own),
           UNCHANGED <<tts, pipe, link>>
    PROVE  ApartInv'
BY TakesSlotForm, ApartRetakes, ApartSendsFirst

\* The slot of a superseded turn is cancelled.
LEMMA ApartCancels ==
    ASSUME TypeInv, ApartInv, tts = "kalpa", Holding, ~own.slot.idle, own.utt.dead, ~own.slotted,
           ~Retired(Me), Cancels, UNCHANGED <<tts, pipe, link, senders, said>>
    PROVE  ApartInv'
<1> DEFINE flush == own.resp.rid = 0
           r == CancelOutput(GivenUp, flush)
<1>1. /\ own \in KalpaOwns /\ KeepInv /\ SocketUp /\ LockHeld /\ ChunksOwn /\ Sound(wire)
      /\ (Calm => CalmParts) /\ wire \in Seq(Messages) /\ own.utt.turn # 0
      /\ senders # << >> /\ Me.waits /\ flush \in BOOLEAN
  BY KalpaOwnType DEF ApartInv, KeepInv, ChunksOwn, TypeInv, Holding, Me
<1>2. /\ own' \in KalpaOwns /\ own'.igen = own.igen /\ own'.utt = own.utt
      /\ own'.slot.idle = own.slot.idle /\ own'.slot.slot = own.slot.slot
      /\ own'.resp = own.resp
      /\ link.ws = "open" => /\ own'.svc = NoService /\ own'.slotted
                             /\ own'.crossed = (own.crossed \/ (own.resp.rid = 0 /\ Crosses))
                             /\ wire' = wire \o r
      /\ link.ws # "open" => own' = GivenUp /\ wire' = wire
  BY <1>1, CancelsType
<1>3. /\ GivenUp \in KalpaOwns /\ GivenUp.svc = own.svc /\ GivenUp.crossed = own.crossed
  BY <1>1, GivenUpType
<1>4. LockHeld'  BY <1>1 DEF LockHeld, Me
<1>5. CASE ~Up
  <2>1. own' = GivenUp /\ wire' = wire  BY <1>2, <1>5 DEF Up
  <2>2. own'.svc = own.svc /\ own'.crossed = own.crossed  BY <1>3, <2>1
  <2>3. Shorter(wire', wire)  BY <1>1, <2>1, ShorterWires
  <2>4. ~Up'  BY <1>5 DEF Up
  <2>5. QED  BY <1>2, <1>4, <2>1, <2>2, <2>3, <2>4, ApartHolder
<1>6. CASE Up
  <2>0. flush <=> own.resp.rid = 0  OBVIOUS
  <2> HIDE DEF flush
  <2>1. /\ r \in Seq(Messages) /\ SettleAtEnd(r) /\ Sound(r) /\ \A t : AudioOf(r, t)
        /\ own.svc.resp = 0 /\ ~own.svc.flushed /\ ~flush => r = << >>
    BY <1>1, <1>3, CancelOutputParts
  <2> HIDE DEF r
  <2>2. /\ own'.svc = NoService /\ own'.slotted /\ wire' = wire \o r
        /\ own'.crossed = (own.crossed \/ (own.resp.rid = 0 /\ Crosses))
    BY <1>2, <1>6 DEF Up
  <2>3. Joined(wire', wire, r)  BY <1>1, <2>1, <2>2, JoinedConcat
  <2>4. KeepInv'
    <3>1. Sound(wire')  BY <1>1, <2>1, <2>3, JoinedParts
    <3>2. ChunksOwn'  BY <1>1, <1>2 DEF ChunksOwn
    <3>3. SocketUp'  BY <1>1, <1>2, <1>6 DEF SocketUp, Up
    <3>4. QED  BY <1>4, <3>1, <3>2, <3>3 DEF KeepInv
  <2>5. ASSUME Calm' PROVE CalmParts'
    <3>1. own.crossed => own'.crossed  BY <1>1, <2>2, KalpaType
    <3>2. Calm /\ CalmParts  BY <1>1, <2>5, <3>1, CalmWas DEF Told
    <3>3. ~own'.crossed  BY <2>5 DEF Calm
    <3>4. SettleLast /\ SlotUtterance  BY <3>2 DEF CalmParts
    <3>5. ASSUME flush PROVE NoSettle(wire)
      <4>1. ~Crosses  BY <2>0, <2>2, <3>3, <3>5
      <4>2. Unanswered(wire)  BY <1>1, <1>6, <3>4 DEF SlotUtterance, Awaits
      <4>3. QED  BY <4>1, <4>2 DEF Crosses, Unanswered, NoSettle, Settling
    <3>6. ASSUME ~flush, r # << >> PROVE NoSettle(wire)
      <4>1. own.svc # NoService  BY <2>1, <3>6, NothingTypes
      <4>2. QED  BY <1>6, <3>4, <4>1 DEF SettleLast
    <3>7. r = << >> \/ NoSettle(wire)  BY <1>1, <3>5, <3>6
    <3>8. ~Open'  BY <1>2 DEF Open
    <3>9. Awaits'  BY <1>2, <2>2 DEF Awaits, Retired, Me
    <3>10. PiecesOf(own'.svc.buf, own.slot.slot) /\ ~own'.svc.flushed
      BY <2>2, NothingTypes, NothingParts
    <3>11. AudioOf(r, own.slot.slot)  BY <2>1
    <3>12. QED  BY <1>1, <1>2, <1>6, <2>1, <2>2, <3>2, <3>7, <3>8, <3>9, <3>10, <3>11, CalmGrows
  <2>6. QED  BY <2>4, <2>5 DEF ApartInv
<1>7. QED  BY <1>5, <1>6

LEMMA ApartSends ==
    ASSUME TypeInv, ApartInv, tts = "kalpa", KalpaSends
    PROVE  ApartInv'
<1>0. Holding /\ ~own.slotted /\ UNCHANGED <<tts, pipe, link>> /\ own \in KalpaOwns /\ ~Awaits
      /\ own.at \in {"text", "end"}
  BY KalpaSendsCases, KalpaOwnType, KalpaType DEF Awaits
<1>1. CASE LetsGo(own) /\ UNCHANGED <<base, said, wire>>  BY <1>0, <1>1, ApartLeaves
<1>2. CASE Skips /\ UNCHANGED <<base, said, wire>>  BY <1>0, <1>2, ApartSkips
<1>3. CASE /\ ~(own.at = "text" /\ DeadOne) /\ ~(own.at = "end" /\ DeadOne)
           /\ OpenNow /\ Writes(own, FALSE) /\ UNCHANGED wire
  <2>1. ~own.utt.dead  BY <1>0, <1>3 DEF DeadOne, OpenNow
  <2>2. QED  BY <1>0, <1>3, <2>1, ApartWrites
<1>4. CASE ~Retired(Me) /\ Connected /\ Opens
  <2>1. CASE own.slot.idle /\ TakesSlot(own)  BY <1>0, <1>4, <2>1, ApartTakes
  <2>2. CASE ~own.slot.idle /\ own.utt.dead /\ Cancels /\ UNCHANGED <<base, senders, said>>
    BY <1>0, <1>4, <2>2, ApartCancels
  <2>3. CASE own' = [own EXCEPT !.slotted = TRUE] /\ UNCHANGED <<base, senders, said, wire>>
    <3> DEFINE yes == TRUE
    <3>1. own' = [own EXCEPT !.slotted = yes] /\ yes \in BOOLEAN /\ yes  BY <2>3
    <3> HIDE DEF yes
    <3>2. Shorter(wire', wire)  BY <2>3, ShorterWires DEF TypeInv
    <3>3. link'.n = link.n /\ link'.ws = link.ws  BY <1>0
    <3>4. UNCHANGED <<tts, pipe, said, senders>> /\ (wire = << >> => wire' = << >>)  BY <1>0, <2>3
    <3>5. QED  BY <1>0, <3>1, <3>2, <3>3, <3>4, ApartSlotted
  <2>4. QED  BY <1>4, <2>1, <2>2, <2>3 DEF Opens
<1>5. QED  BY <1>1, <1>2, <1>3, <1>4, KalpaSendsCases

LEMMA ApartSlotFree ==
    ASSUME TypeInv, ApartInv, tts = "kalpa", SlotFree
    PROVE  ApartInv'
<1>0. Holding /\ own.slot.idle /\ UNCHANGED <<tts, pipe, link>>  BY DEF SlotFree
<1>1. CASE LetsGo(own) /\ UNCHANGED <<base, said, wire>>  BY <1>0, <1>1, ApartLeaves
<1>2. CASE own' = [own EXCEPT !.slotted = FALSE] /\ UNCHANGED <<base, senders, said, wire>>
  <2> DEFINE no == FALSE
  <2>1. own' = [own EXCEPT !.slotted = no] /\ no \in BOOLEAN  BY <1>2
  <2> HIDE DEF no
  <2>2. Shorter(wire', wire)  BY <1>2, ShorterWires DEF TypeInv
  <2>3. link'.n = link.n /\ link'.ws = link.ws  BY <1>0
  <2>4. UNCHANGED <<tts, pipe, said, senders>> /\ (wire = << >> => wire' = << >>)  BY <1>0, <1>2
  <2>5. QED  BY <1>0, <2>1, <2>2, <2>3, <2>4, ApartSlotted
<1>3. CASE Connected /\ TakesSlot(own)  BY <1>0, <1>3, ApartTakes
<1>4. QED  BY <1>1, <1>2, <1>3 DEF SlotFree

---------------------------------------------------------------------------
\* An interruption, and what the service says.

\* What an interruption leaves of Kalpa's state, and whether it flushes the service.
CutOwn == [own EXCEPT !.igen = @ + 1, !.utt = NoUtterance, !.dirty = 0, !.slot.gone = @ \/ ~own.slot.idle]
CutFlush == ~own.slot.idle /\ own.resp.rid = 0 /\ own.utt.turn # 0 /\ ~own.utt.dead

LEMMA InterruptOwn ==
    ASSUME TypeInv, KalpaInterrupt
    PROVE  /\ CutOwn \in KalpaOwns /\ CutOwn.svc = own.svc
           /\ UNCHANGED <<tts, link, senders, said>> /\ pipe' = CutPipe
           /\ link.ws = "open" => /\ own'.svc = NoService
                                  /\ own'.crossed = (own.crossed \/ (CutFlush /\ Crosses))
                                  /\ wire' = wire \o CancelOutput(CutOwn, CutFlush)
           /\ link.ws # "open" => own'.svc = own.svc /\ own'.crossed = own.crossed /\ wire' = wire
<1>0. own \in KalpaOwns /\ own.igen + 1 \in Nat /\ own.slot \in SlotStates
      /\ own.slot.idle \in BOOLEAN /\ own.slot.gone \in BOOLEAN
  BY KalpaOwnType, KalpaType, KalpaParts DEF KalpaInterrupt
<1> DEFINE g == own.slot.gone \/ ~own.slot.idle
           s == [own.slot EXCEPT !.gone = g]
           i == own.igen + 1
           z == 0
           flush == CutFlush
<1>1. /\ pipe' = CutPipe /\ UNCHANGED <<tts, link, senders, said>>
      /\ link.ws = "open" => own' = Cancelling(CutOwn, flush) /\ wire' = wire \o CancelOutput(CutOwn, flush)
      /\ link.ws # "open" => own' = CutOwn /\ UNCHANGED wire
  BY DEF KalpaInterrupt, CutOwn, CutFlush
<1>2. CutOwn = [own EXCEPT !.igen = i, !.utt = NoUtterance, !.dirty = z, !.slot = s]  BY DEF CutOwn
<1>3. g \in BOOLEAN /\ i \in Nat /\ z \in Nat /\ flush \in BOOLEAN  BY <1>0 DEF CutFlush
<1>4. NoUtterance \in Utterances  BY NothingTypes
<1> HIDE DEF g, i, z
<1>5. s \in SlotStates  BY <1>0, <1>3, SlotGone
<1> HIDE DEF s
<1>6. CutOwn \in KalpaOwns /\ CutOwn.svc = own.svc /\ CutOwn.crossed = own.crossed
  BY <1>0, <1>2, <1>3, <1>4, <1>5 DEF KalpaOwns
<1>7. flush = CutFlush  OBVIOUS
<1> HIDE DEF flush
<1>8. /\ Cancelling(CutOwn, flush).svc = NoService
      /\ Cancelling(CutOwn, flush).crossed = (CutOwn.crossed \/ (flush /\ Crosses))
  BY <1>3, <1>6, CancellingType
<1>9. QED  BY <1>1, <1>6, <1>7, <1>8

LEMMA ApartInterrupt ==
    ASSUME TypeInv, ApartInv, KalpaInterrupt
    PROVE  ApartInv'
<1> DEFINE flush == CutFlush
           r == CancelOutput(CutOwn, flush)
<1>1. /\ own \in KalpaOwns /\ KeepInv /\ SocketUp /\ LockHeld /\ Sound(wire)
      /\ (Calm => CalmParts) /\ wire \in Seq(Messages) /\ flush \in BOOLEAN /\ tts = "kalpa"
      /\ link.n \in Nat /\ pipe \in Calling
  BY KalpaInterruptStep, KalpaOwnType DEF ApartInv, KeepInv, TypeInv, CutFlush, Sockets
<1>2. /\ own'.utt = NoUtterance /\ own'.slot.idle = own.slot.idle /\ own'.slot.slot = own.slot.slot
      /\ own'.resp = own.resp /\ own'.at = own.at /\ own'.slotted = own.slotted
      /\ own'.crossed \/ ~own.crossed
  BY KalpaInterruptStep
<1>3. /\ CutOwn \in KalpaOwns /\ CutOwn.svc = own.svc
      /\ UNCHANGED <<tts, link, senders, said>> /\ pipe' = CutPipe
      /\ link.ws = "open" => /\ own'.svc = NoService
                             /\ own'.crossed = (own.crossed \/ (flush /\ Crosses))
                             /\ wire' = wire \o r
      /\ link.ws # "open" => own'.svc = own.svc /\ own'.crossed = own.crossed /\ wire' = wire
  BY InterruptOwn
<1>4. LockHeld'  BY <1>1, <1>2, <1>3 DEF LockHeld, Me
<1>5. pipe'.silent = pipe.silent  BY <1>1, <1>3 DEF CutPipe, Calling
<1>6. own'.utt.turn = 0 /\ own'.utt.conn = 0 /\ ~own'.utt.dead /\ own'.utt.chunks = << >>
  BY <1>2 DEF NoUtterance
<1>7. ASSUME Calm' PROVE Calm /\ CalmParts
  BY <1>1, <1>2, <1>3, <1>5, <1>7, CalmWas DEF Told
<1>8. CASE ~Up
  <2>1. own'.svc = own.svc /\ own'.crossed = own.crossed /\ wire' = wire  BY <1>3, <1>8 DEF Up
  <2>2. Shorter(wire', wire)  BY <1>1, <2>1, ShorterWires
  <2>3. link'.n = link.n /\ link'.ws = link.ws /\ ~Up'  BY <1>3, <1>8 DEF Up
  <2>4. KeepInv'  BY <1>1, <1>2, <1>4, <2>1, <2>2, <2>3, KeepStill
  <2>5. ASSUME Calm' PROVE CalmParts'
    <3>1. CalmParts  BY <1>7, <2>5
    <3>2. Serving'  BY <1>2, <3>1 DEF CalmParts, Serving
    <3>3. QED  BY <1>2, <1>3, <2>1, <2>2, <2>3, <3>1, <3>2, CalmStill
  <2>6. QED  BY <2>4, <2>5 DEF ApartInv
<1>9. CASE Up
  <2>0. flush <=> CutFlush  OBVIOUS
  <2> HIDE DEF flush
  <2>1. /\ r \in Seq(Messages) /\ SettleAtEnd(r) /\ Sound(r) /\ \A t : AudioOf(r, t)
        /\ own.svc.resp = 0 /\ ~own.svc.flushed /\ ~flush => r = << >>
    BY <1>1, <1>3, CancelOutputParts
  <2> HIDE DEF r
  <2>2. /\ own'.svc = NoService /\ wire' = wire \o r
        /\ own'.crossed = (own.crossed \/ (flush /\ Crosses))
    BY <1>3, <1>9 DEF Up
  <2>3. Joined(wire', wire, r)  BY <1>1, <2>1, <2>2, JoinedConcat
  <2>4. KeepInv'
    <3>1. Sound(wire')  BY <1>1, <2>1, <2>3, JoinedParts
    <3>2. ChunksOwn'
      <4>1. PiecesOf(own'.utt.chunks, own'.utt.turn)  BY <1>6, NothingParts
      <4>2. QED  BY <1>6, <4>1 DEF ChunksOwn
    <3>3. SocketUp'  BY <1>1, <1>3, <1>6, <1>9 DEF SocketUp, Up
    <3>4. QED  BY <1>4, <3>1, <3>2, <3>3 DEF KeepInv
  <2>5. ASSUME Calm' PROVE CalmParts'
    <3>1. CalmParts /\ ~own'.crossed  BY <1>1, <1>3, <1>7, <2>5 DEF Calm
    <3>2. SettleLast /\ SlotUtterance /\ OpenUtterance /\ SlotEmpty  BY <3>1 DEF CalmParts
    <3>3. ASSUME flush PROVE NoSettle(wire)
      <4>1. ~Crosses  BY <2>2, <3>1, <3>3
      <4>2. Unanswered(wire)
        BY <1>9, <2>0, <3>2, <3>3 DEF CutFlush, SlotUtterance, OpenUtterance, Open, Up
      <4>3. QED  BY <4>1, <4>2 DEF Crosses, Unanswered, NoSettle, Settling
    <3>4. ASSUME ~flush, r # << >> PROVE NoSettle(wire)
      <4>1. own.svc # NoService  BY <2>1, <3>4, NothingTypes
      <4>2. QED  BY <1>9, <3>2, <4>1 DEF SettleLast
    <3>5. r = << >> \/ NoSettle(wire)  BY <1>1, <3>3, <3>4
    <3>6. ASSUME own.slot.idle PROVE r = << >>
      <4>1. own.svc = NoService  BY <1>9, <3>2, <3>6 DEF SlotEmpty
      <4>2. ~flush  BY <2>0, <3>6 DEF CutFlush
      <4>3. QED  BY <2>1, <4>1, <4>2, NothingTypes
    <3>7. ~Open'  BY <1>6 DEF Open
    <3>8. PiecesOf(own'.svc.buf, own.slot.slot)  BY <2>2, NothingTypes, NothingParts
    <3>9. AudioOf(r, own.slot.slot)  BY <2>1
    <3>10. link'.ws = link.ws /\ link'.n = link.n /\ said' = said  BY <1>3
    <3>11. QED
      BY <1>1, <1>2, <1>6, <1>9, <2>1, <2>2, <3>1, <3>5, <3>6, <3>7, <3>8, <3>9, <3>10, CalmGrows
  <2>6. QED  BY <2>4, <2>5 DEF ApartInv
<1>10. QED  BY <1>8, <1>9

\* The service renders: it says r, and v is left of what it has.
LEMMA ApartServes ==
    ASSUME TypeInv, ApartInv, tts = "kalpa", Up, NEW STATE v, NEW STATE r, NEW n, Serves(v, n, r),
           r \in Seq(Messages), Sound(r), SettleAtEnd(r), link'.ws = link.ws, link'.n = link.n,
           own.svc # NoService, ~NoSettle(r) => v = NoService,
           \A t : PiecesOf(own.svc.buf, t) => AudioOf(r, t) /\ PiecesOf(v.buf, t),
           ~own.svc.flushed => Unanswered(r) /\ ~v.flushed
    PROVE  ApartInv'
<1>1. /\ own' = [own EXCEPT !.svc = v, !.made = n] /\ wire' = wire \o r
      /\ UNCHANGED <<tts, pipe, senders, said>>
  BY DEF Serves
<1>2. /\ own \in KalpaOwns /\ KeepInv /\ SocketUp /\ LockHeld /\ ChunksOwn /\ Sound(wire)
      /\ (Calm => CalmParts) /\ wire \in Seq(Messages)
  BY KalpaOwnType DEF ApartInv, KeepInv, TypeInv
<1>3. /\ own'.svc = v /\ own'.igen = own.igen /\ own'.utt = own.utt /\ own'.slot = own.slot
      /\ own'.resp = own.resp /\ own'.at = own.at /\ own'.slotted = own.slotted
      /\ own'.crossed = own.crossed
  BY <1>1, <1>2 DEF KalpaOwns
<1>4. Joined(wire', wire, r)  BY <1>1, <1>2, JoinedConcat
<1>5. KeepInv'
  <2>1. Sound(wire')  BY <1>2, <1>4, JoinedParts
  <2>2. ChunksOwn'  BY <1>2, <1>3 DEF ChunksOwn
  <2>3. SocketUp'  BY <1>2, <1>3 DEF SocketUp, Up
  <2>4. LockHeld'  BY <1>1, <1>2, <1>3 DEF LockHeld, Me
  <2>5. QED  BY <2>1, <2>2, <2>3, <2>4 DEF KeepInv
<1>6. ASSUME Calm' PROVE CalmParts'
  <2>1. Calm /\ CalmParts  BY <1>1, <1>2, <1>3, <1>6, CalmWas DEF Told
  <2>2. SlotEmpty /\ SlotsOwn /\ SettleLast /\ SlotUtterance  BY <2>1 DEF CalmParts
  <2>3. ~own.slot.idle /\ NoSettle(wire)  BY <2>2 DEF SlotEmpty, SettleLast
  <2>4. AudioOf(r, own.slot.slot) /\ PiecesOf(v.buf, own.slot.slot)
    BY <2>2, <2>3 DEF SlotsOwn
  <2>5. own.utt.turn # 0 => Unanswered(r) /\ ~v.flushed  BY <2>2, <2>3 DEF SlotUtterance
  <2>6. Open' => Unanswered(r)  BY <1>3, <2>5 DEF Open
  <2>7. Me' = Me  BY <1>1 DEF Me
  <2>8. Awaits => Awaits'  BY <1>1, <1>3, <2>7, StillAwaits
  <2>9. own'.utt.turn # 0 => ~own'.svc.flushed /\ (Awaits' \/ (~Awaits /\ Unanswered(r)))
    BY <1>3, <2>5, <2>8
  <2>10. QED  BY <1>1, <1>2, <1>3, <2>1, <2>3, <2>4, <2>6, <2>9, CalmGrows
<1>7. QED  BY <1>5, <1>6 DEF ApartInv

LEMMA ApartRender ==
    ASSUME TypeInv, ApartInv, Render
    PROVE  ApartInv'
<1>1. tts = "kalpa" /\ link'.ws = link.ws /\ link'.n = link.n /\ Up  BY DEF Render, OnKalpa, Up
<1>2. /\ own \in KalpaOwns /\ own.svc \in Services /\ own.svc.buf \in Seq(Pieces) /\ own.made \in Nat
      /\ own.made + 1 \in Nat /\ own.made + 1 # 0 /\ own.svc.resp \in Nat
  BY <1>1, KalpaOwnType, KalpaType, KalpaParts
<1> DEFINE v == own.svc
           m == own.made + 1
           yes == TRUE
<1>3. CASE (v.buf # << >> \/ v.flushed) /\ Serves([v EXCEPT !.resp = m], m, <<Created(m)>>)
  <2> DEFINE u == [v EXCEPT !.resp = m]
             x == Created(m)
  <2>1. m \in Nat /\ m # 0 /\ yes \in BOOLEAN  BY <1>2
  <2> HIDE DEF m, yes
  <2>2. x \in Messages /\ x.kind = "created" /\ x.ctx # 0  BY <2>1, ServiceTypes
  <2>3. u.buf = v.buf /\ u.flushed = v.flushed  BY <1>2 DEF Services
  <2>4. Serves(u, m, <<x>>) /\ (v.buf # << >> \/ v.flushed)  BY <1>3
  <2> HIDE DEF u, x
  <2>5. <<x>> \in Seq(Messages)  BY <2>2
  <2>6. /\ SettleAtEnd(<<x>>) /\ NoSettle(<<x>>) /\ Unanswered(<<x>>) /\ Sound(<<x>>)
        /\ \A t : AudioOf(<<x>>, t)
    BY <2>2, OnePart DEF Settling
  <2>7. own.svc # NoService  BY <2>4, NothingTypes
  <2>8. QED  BY <1>1, <2>3, <2>4, <2>5, <2>6, <2>7, ApartServes
<1>4. CASE /\ v.resp # 0 /\ v.buf # << >>
           /\ Serves([v EXCEPT !.buf = Tail(v.buf)], own.made,
                     <<Audio(Head(v.buf)[1], Head(v.buf)[2], v.resp)>>)
  <2> DEFINE q == Tail(v.buf)
             u == [v EXCEPT !.buf = q]
             x == Audio(Head(v.buf)[1], Head(v.buf)[2], v.resp)
  <2>1. Head(v.buf) \in Pieces  BY <1>2, <1>4, TurnsOfTail
  <2>2. Head(v.buf)[1] \in Turns /\ Head(v.buf)[2] \in Parts  BY <2>1, PieceType
  <2>3. x \in Messages /\ x.kind = "audio" /\ x.ctx = v.resp /\ x.turn = Head(v.buf)[1]
    BY <1>2, <2>2, AudioType DEF Audio
  <2>4. \A t : PiecesOf(v.buf, t) => Head(v.buf)[1] = t /\ PiecesOf(q, t)  BY <1>2, <1>4, TailPieces
  <2>5. Serves(u, own.made, <<x>>)  BY <1>4
  <2> HIDE DEF q, x
  <2>6. u.buf = q /\ u.flushed = v.flushed  BY <1>2 DEF Services
  <2> HIDE DEF u
  <2>7. <<x>> \in Seq(Messages)  BY <2>3
  <2>8. /\ SettleAtEnd(<<x>>) /\ NoSettle(<<x>>) /\ Unanswered(<<x>>) /\ Sound(<<x>>)
        /\ \A t : x.turn = t => AudioOf(<<x>>, t)
    BY <1>4, <2>3, OnePart DEF Settling
  <2>9. own.svc # NoService  BY <1>4, NothingTypes
  <2>10. QED  BY <1>1, <2>3, <2>4, <2>5, <2>6, <2>7, <2>8, <2>9, ApartServes
<1>5. CASE v.flushed /\ Serves(NoService, own.made, <<Done(v.resp, TRUE)>>) /\ v.resp # 0
  <2> DEFINE x == Done(v.resp, yes)
  <2>1. yes \in BOOLEAN /\ yes /\ Serves(NoService, own.made, <<x>>)  BY <1>5
  <2> HIDE DEF yes
  <2>2. x \in Messages /\ x.kind = "done" /\ x.ctx = v.resp  BY <1>2, <2>1, ServiceTypes
  <2> HIDE DEF x
  <2>3. <<x>> \in Seq(Messages)  BY <2>2
  <2>4. SettleAtEnd(<<x>>) /\ Sound(<<x>>) /\ \A t : AudioOf(<<x>>, t)
    BY <1>5, <2>2, OnePart DEF Settling
  <2>5. own.svc # NoService /\ \A t : PiecesOf(NoService.buf, t)  BY <1>5, NothingTypes, NothingParts
  <2>6. QED  BY <1>1, <1>5, <2>1, <2>3, <2>4, <2>5, ApartServes
<1>6. QED  BY <1>3, <1>4, <1>5 DEF Render

LEMMA ApartFails ==
    ASSUME TypeInv, ApartInv, ServiceFails
    PROVE  ApartInv'
<1> DEFINE x == Failed(own.svc.resp)
           yes == TRUE
<1>1. /\ tts = "kalpa" /\ Up /\ Serves(NoService, own.made, <<x>>) /\ yes \in BOOLEAN
      /\ link' = [link EXCEPT !.lost = @ + 1] /\ (own.svc.buf # << >> \/ own.svc.resp # 0)
  BY DEF ServiceFails, OnKalpa, Up
<1> HIDE DEF yes
<1>2. own.svc.resp \in Nat  BY <1>1, KalpaOwnType, KalpaParts
<1>3. x \in Messages /\ x.kind = "error"  BY <1>1, <1>2, ServiceTypes
<1> HIDE DEF x
<1>4. <<x>> \in Seq(Messages)  BY <1>3
<1>5. SettleAtEnd(<<x>>) /\ Sound(<<x>>) /\ Unanswered(<<x>>) /\ \A t : AudioOf(<<x>>, t)
  BY <1>3, OnePart DEF Settling
<1>6. own.svc # NoService /\ (\A t : PiecesOf(NoService.buf, t)) /\ ~NoService.flushed
  BY <1>1, NothingTypes, NothingParts
<1>7. link'.ws = link.ws /\ link'.n = link.n  BY <1>1 DEF TypeInv, Sockets
<1>8. QED  BY <1>1, <1>4, <1>5, <1>6, <1>7, ApartServes

---------------------------------------------------------------------------
\* The receiver reads, meets the end of the socket, and there is a new one.

\* What is read is the oldest message; if it settles the slot, it is the only one.
LEMMA ReadParts ==
    ASSUME TypeInv, NEW more, wire # << >>, Read(more)
    PROVE  /\ Shorter(wire', wire) /\ 1 \in DOMAIN wire /\ Hd = wire[1]
           /\ (SettleAtEnd(wire) /\ Hd.kind \in Settling) => wire' = << >>
<1>1. 1 \in DOMAIN wire /\ Hd = wire[1] /\ wire \in Seq(Messages)  BY ReadWire DEF TypeInv
<1>2. wire' = (IF more THEN wire ELSE Tail(wire)) /\ (more => Hd.kind = "audio")  BY DEF Read, Hd
<1>3. Shorter(wire', wire)  BY <1>1, <1>2, ShorterWires
<1>4. ASSUME SettleAtEnd(wire), Hd.kind \in Settling PROVE wire' = << >>
  <2>1. ~more  BY <1>2, <1>4 DEF Settling
  <2>2. Len(wire) = 1  BY <1>1, <1>4 DEF SettleAtEnd
  <2>3. Tail(wire) \in Seq(Messages) /\ Len(Tail(wire)) = 0
    BY <1>1, <2>2, HeadTailProperties
  <2>4. QED  BY <1>2, <2>1, <2>3, EmptySeq
<1>5. QED  BY <1>1, <1>3, <1>4

LEMMA ApartReceive ==
    ASSUME TypeInv, EndInv, ApartInv, NEW more, KalpaReceive(more)
    PROVE  ApartInv'
<1>0. /\ tts = "kalpa" /\ wire # << >> /\ Read(more) /\ link.ws \in {"open", "closing", "dying"}
      /\ UNCHANGED <<tts, link, senders>>
  BY KalpaHears
<1>1. /\ own \in KalpaOwns /\ own.utt.dead \in BOOLEAN /\ own.utt \in Utterances /\ Hd \in Messages
      /\ Hd.ctx \in Nat /\ KeepInv /\ SocketUp /\ LockHeld /\ Sound(wire) /\ (Calm => CalmParts)
      /\ link.n \in Nat
  BY <1>0, KalpaOwnType, KalpaType, KalpaParts, ReadWire DEF ApartInv, KeepInv, TypeInv, Sockets
<1>2. /\ Shorter(wire', wire) /\ 1 \in DOMAIN wire /\ Hd = wire[1]
      /\ (SettleAtEnd(wire) /\ Hd.kind \in Settling) => wire' = << >>
  BY <1>0, ReadParts
<1>3. pipe'.ids = pipe.ids /\ pipe'.silent = pipe.silent  BY KalpaReceiveStep DEF Onward, SameCall
<1>4. /\ Hd.kind \in Settling \cup {"created", "audio"}
      /\ Hd.kind # "error" => Hd.ctx # 0
  BY <1>1, <1>2 DEF Sound
<1>5. Me' = Me  BY <1>0 DEF Me
<1> DEFINE e == own.utt.dead \/ own.utt.turn # 0
\* What every step of the receiver keeps.
<1>6. ASSUME own'.at = own.at, own'.slotted = own.slotted,
             own'.utt.turn = own.utt.turn, own'.utt.conn = own.utt.conn,
             own'.utt.chunks = own.utt.chunks, own'.utt.dead => own.utt.dead \/ own.utt.turn # 0
      PROVE  KeepInv'
  <2>1. LockHeld'  BY <1>0, <1>1, <1>5, <1>6 DEF LockHeld
  <2>2. link'.n = link.n /\ link'.ws = link.ws  BY <1>0
  <2>3. QED  BY <1>0, <1>1, <1>2, <1>6, <2>1, <2>2, KeepStill
<1>7. ASSUME own'.crossed = own.crossed, Calm' PROVE Calm /\ CalmParts
  BY <1>0, <1>1, <1>3, <1>7, CalmWas DEF Told
\* Nothing is settled: audio was read, a response begins, or the message is no one's.
<1>8. ASSUME own'.at = own.at, own'.slotted = own.slotted, own'.utt = own.utt, own'.igen = own.igen,
             own'.slot = own.slot, own'.svc = own.svc, own'.crossed = own.crossed,
             CalmParts => Serving',
             CalmParts /\ Calm => (said'.foreign => said.foreign), said'.mixed => said.mixed
      PROVE  ApartInv'
  <2>1. KeepInv'  BY <1>6, <1>8
  <2>2. ASSUME Calm' PROVE CalmParts'
    <3>1. Calm /\ CalmParts  BY <1>7, <1>8, <2>2
    <3>2. Awaits => Awaits'  BY <1>3, <1>5, <1>8, StillAwaits
    <3>3. link'.n = link.n /\ link'.ws = link.ws  BY <1>0
    <3>4. own'.slot.idle = own.slot.idle /\ own'.slot.slot = own.slot.slot  BY <1>8
    <3>5. QED  BY <1>0, <1>2, <1>8, <3>1, <3>2, <3>3, <3>4, CalmStill DEF Up
  <2>3. QED  BY <2>1, <2>2 DEF ApartInv
\* The slot is settled.
<1>9. ASSUME NEW STATE d, d \in BOOLEAN, NEW emit, Hd.kind \in Settling,
             own' = Settled(Past(d)), Yield(Settles(Past(d), emit)),
             d => own.utt.dead \/ own.utt.turn # 0,
             Hd.kind = "error" => (own.utt.turn # 0 => d), own.utt.dead => d
      PROVE  ApartInv'
  <2>1. /\ Past(d) \in KalpaOwns /\ Past(d).slot = own.slot /\ Past(d).igen = own.igen
        /\ Past(d).utt = [own.utt EXCEPT !.dead = d] /\ Past(d).resp = NoResponse
        /\ Past(d).at = own.at /\ Past(d).slotted = own.slotted /\ Past(d).svc = own.svc
        /\ Past(d).crossed = own.crossed
    BY <1>1, <1>9, PastType
  <2>2. /\ own'.utt = [own.utt EXCEPT !.dead = d] /\ own'.resp = NoResponse
        /\ own'.at = own.at /\ own'.slotted = own.slotted /\ own'.svc = own.svc
        /\ own'.crossed = own.crossed /\ own'.slot.idle
    BY <1>9, <2>1, SettledType
  <2>3. /\ own'.utt.turn = own.utt.turn /\ own'.utt.conn = own.utt.conn
        /\ own'.utt.chunks = own.utt.chunks /\ own'.utt.dead = d
    BY <1>1, <1>9, <2>2, UtteranceDead
  <2>4. KeepInv'  BY <1>6, <1>9, <2>2, <2>3
  <2>5. EndsHeard(said, said')  BY <1>9, <2>1, SettlesSaid
  <2>6. ASSUME Calm' PROVE CalmParts'
    <3>1. Calm /\ CalmParts  BY <1>7, <2>2, <2>6
    <3>2. SettleLast /\ OpenUtterance /\ ~said.foreign /\ ~said.mixed  BY <3>1 DEF CalmParts
    <3>3. wire' = << >>  BY <1>2, <1>9, <3>2 DEF SettleLast
    <3>4. ~NoSettle(wire)  BY <1>2, <1>9 DEF NoSettle
    <3>5. Up' => own'.svc = NoService  BY <1>0, <2>2, <3>2, <3>4 DEF SettleLast, Up
    <3>6. ~Open'
      <4>1. CASE Hd.kind = "error"  BY <1>9, <2>3, <4>1 DEF Open
      <4>2. CASE Hd.kind # "error"
        <5>1. ~Unanswered(wire)  BY <1>2, <1>9, <4>2 DEF Unanswered, Settling
        <5>2. ~Open  BY <3>2, <5>1 DEF OpenUtterance
        <5>3. QED  BY <1>0, <1>9, <2>3, <5>2 DEF Open
      <4>3. QED  BY <4>1, <4>2
    <3>7. Serving'  BY <2>2, NothingTypes DEF Serving
    <3>8. ~said'.foreign /\ ~said'.mixed  BY <2>5, <3>2 DEF EndsHeard
    <3>9. QED  BY <2>2, <3>3, <3>5, <3>6, <3>7, <3>8, CalmFreed
  <2>7. QED  BY <2>4, <2>6 DEF ApartInv
\* A response that does not serve the slot is over: there is none in a calm call.
<1>10. ASSUME NEW STATE d, d \in BOOLEAN, own' = Past(d), d => own.utt.dead \/ own.utt.turn # 0,
              Hd.ctx = own.resp.rid, Hd.ctx # 0, ~own.resp.serves
       PROVE  ApartInv'
  <2>1. /\ own'.utt = [own.utt EXCEPT !.dead = d] /\ own'.at = own.at /\ own'.slotted = own.slotted
        /\ own'.crossed = own.crossed
    BY <1>1, <1>10, PastType
  <2>2. /\ own'.utt.turn = own.utt.turn /\ own'.utt.conn = own.utt.conn
        /\ own'.utt.chunks = own.utt.chunks /\ own'.utt.dead = d
    BY <1>1, <1>10, <2>1, UtteranceDead
  <2>3. KeepInv'  BY <1>6, <1>10, <2>1, <2>2
  <2>4. ~Calm'
    <3>1. ASSUME Calm' PROVE FALSE
      <4>1. Serving  BY <1>7, <2>1, <3>1 DEF CalmParts
      <4>2. QED  BY <1>10, <4>1 DEF Serving
    <3>2. QED  BY <3>1
  <2>5. QED  BY <2>3, <2>4 DEF ApartInv
<1>11. CASE own' = own /\ Yield(<< >>)
  <2>1. said' = said  BY <1>11, YieldNothing
  <2>2. CalmParts => Serving'  BY <1>11 DEF CalmParts, Serving
  <2>3. QED  BY <1>8, <1>11, <2>1, <2>2
<1>12. CASE /\ Hd.kind = "created" /\ Yield(<< >>)
            /\ own' = [own EXCEPT !.resp = [rid |-> Hd.ctx, serves |-> ~own.slot.idle]]
  <2>1. said' = said  BY <1>12, YieldNothing
  <2>2. /\ own'.resp.serves = ~own.slot.idle /\ own'.at = own.at /\ own'.slotted = own.slotted
        /\ own'.utt = own.utt /\ own'.igen = own.igen /\ own'.slot = own.slot /\ own'.svc = own.svc
        /\ own'.crossed = own.crossed
    BY <1>1, <1>12, BegunType
  <2>3. CalmParts => Serving'  BY <1>0, <2>2 DEF CalmParts, SlotEmpty, Serving
  <2>4. QED  BY <1>8, <2>1, <2>2, <2>3
<1>13. CASE Hd.kind = "audio" /\ Audible(Hd) /\ own' = own /\ Yield(<<Hd>>)
  <2>1. said' = said \/ Wrongs(said, said', Label(base), Hd)  BY <1>1, <1>13, YieldFrame
  <2>2. said'.mixed => said.mixed  BY <2>1 DEF Wrongs
  <2>3. CalmParts => Serving'  BY <1>13 DEF CalmParts, Serving
  <2>4. ASSUME CalmParts, Calm PROVE said'.foreign => said.foreign
    <3>1. ~own.slot.idle /\ AudioOf(wire, own.slot.slot)  BY <1>0, <2>4 DEF CalmParts, SlotEmpty, SlotsOwn
    <3>2. Hd.turn = own.slot.slot /\ ~own.slot.gone  BY <1>2, <1>13, <3>1 DEF AudioOf, Audible
    <3>3. Hd.turn \in pipe.ids  BY <2>4, <3>1, <3>2 DEF EndInv, SlotValid, Calm
    <3>4. QED  BY <2>1, <3>3 DEF Wrongs
  <2>5. QED  BY <1>8, <1>13, <2>2, <2>3, <2>4
<1>14. CASE /\ Hd.kind \notin {"created", "audio", "error"} /\ own' = Settled(Past(own.utt.dead))
            /\ Yield(Settles(Past(own.utt.dead), Hd.kind = "done"))
  <2>1. Hd.kind \in Settling /\ Hd.kind # "error"  BY <1>4, <1>14
  <2>2. QED  BY <1>1, <1>9, <1>14, <2>1
<1>15. CASE /\ Hd.kind \notin {"created", "audio", "error"} /\ Hd.ctx = own.resp.rid
            /\ ~own.resp.serves /\ own' = Past(own.utt.dead)
  <2>1. Hd.ctx # 0  BY <1>4, <1>15
  <2>2. QED  BY <1>1, <1>10, <1>15, <2>1
<1>16. e \in BOOLEAN /\ (e <=> own.utt.dead \/ own.utt.turn # 0)  OBVIOUS
<1>17. CASE Hd.ctx = own.resp.rid /\ Hd.ctx # 0 /\ ~own.resp.serves /\ own' = Past(e)
  <2> HIDE DEF e
  <2>1. QED  BY <1>10, <1>16, <1>17
<1>18. CASE Hd.kind = "error" /\ own' = Settled(Past(e)) /\ Yield(Settles(Past(e), TRUE))
  <2> HIDE DEF e
  <2>1. Hd.kind \in Settling  BY <1>18 DEF Settling
  <2>2. QED  BY <1>9, <1>16, <1>18, <2>1
<1>19. QED  BY <1>11, <1>12, <1>13, <1>14, <1>15, <1>17, <1>18, KalpaHears

LEMMA ApartMeetsEnd ==
    ASSUME TypeInv, ApartInv, KalpaMeetsEnd
    PROVE  ApartInv'
<1> DEFINE d == own.utt.dead \/ (~own.slot.idle /\ HeardInPart)
           emit == ~own.slot.idle /\ (own.utt.turn = 0 \/ HeardInPart)
<1>1. /\ tts = "kalpa" /\ MeetsEnd /\ link' = [link EXCEPT !.ws = "none"]
      /\ UNCHANGED <<tts, senders, wire>> /\ own' = Settled(Lost(d)) /\ Yield(Settles(own, emit))
  BY KalpaLoses
<1>2. /\ own \in KalpaOwns /\ own.utt.dead \in BOOLEAN /\ own.utt \in Utterances
      /\ KeepInv /\ SocketUp /\ LockHeld /\ ChunksOwn /\ Sound(wire) /\ (Calm => CalmParts)
  BY <1>1, KalpaOwnType, KalpaParts, KalpaType DEF ApartInv, KeepInv
<1>3. d \in BOOLEAN /\ (d => own.utt.dead \/ own.utt.turn # 0)  BY <1>2 DEF HeardInPart
<1>4. pipe'.ids = pipe.ids /\ pipe'.silent = pipe.silent  BY KalpaMeetsEndStep DEF Onward, SameCall
<1> HIDE DEF d
<1>5. /\ Lost(d) \in KalpaOwns /\ Lost(d).utt = [own.utt EXCEPT !.dead = d]
      /\ Lost(d).resp = NoResponse /\ Lost(d).at = own.at /\ Lost(d).slotted = own.slotted
      /\ Lost(d).crossed = own.crossed
  BY <1>2, <1>3, LostType
<1>6. /\ own'.utt = [own.utt EXCEPT !.dead = d] /\ own'.resp = NoResponse /\ own'.slot.idle
      /\ own'.at = own.at /\ own'.slotted = own.slotted /\ own'.crossed = own.crossed
  BY <1>1, <1>5, SettledType
<1>7. /\ own'.utt.turn = own.utt.turn /\ own'.utt.conn = own.utt.conn
      /\ own'.utt.chunks = own.utt.chunks /\ own'.utt.dead = d
  BY <1>2, <1>3, <1>6, UtteranceDead
<1>8. link'.ws = "none" /\ link'.n = link.n  BY <1>1 DEF TypeInv, Sockets
<1>9. wire = << >> /\ wire' = << >>  BY <1>1, <1>2 DEF MeetsEnd, SocketUp
<1> HIDE DEF emit
<1>10. EndsHeard(said, said')  BY <1>1, <1>2, SettlesSaid
<1>11. KeepInv'
  <2>1. LockHeld'  BY <1>1, <1>2, <1>6 DEF LockHeld, Me
  <2>2. ChunksOwn'  BY <1>2, <1>3, <1>7 DEF ChunksOwn
  <2>3. SocketUp'  BY <1>2, <1>7, <1>8, <1>9 DEF SocketUp
  <2>4. Sound(wire')  BY <1>9, NothingParts
  <2>5. QED  BY <2>1, <2>2, <2>3, <2>4 DEF KeepInv
<1>12. ASSUME Calm' PROVE CalmParts'
  <2>1. Calm /\ CalmParts  BY <1>1, <1>2, <1>4, <1>6, <1>12, CalmWas DEF Told
  <2>2. ~said'.foreign /\ ~said'.mixed  BY <1>10, <2>1 DEF EndsHeard, CalmParts
  <2>3. ~Open' /\ ~Up'  BY <1>8 DEF Open, Up
  <2>4. Serving'  BY <1>6, NothingTypes DEF Serving
  <2>5. QED  BY <1>6, <1>9, <2>2, <2>3, <2>4, CalmFreed
<1>13. QED  BY <1>11, <1>12 DEF ApartInv

LEMMA ApartDial ==
    ASSUME TypeInv, ApartInv, KalpaDial
    PROVE  ApartInv'
<1> DEFINE u == link.unmet \/ (link.ws = "closed" /\ tts \in LossSettlers)
<1>1. /\ tts = "kalpa" /\ UNCHANGED <<tts, pipe, senders, said>>
      /\ \/ /\ link' = [link EXCEPT !.ws = "open", !.n = link.n + 1, !.tries = 0,
                                    !.forgot = link.forgot, !.unmet = u]
            /\ own' = Redialled /\ wire' = << >>
         \/ link' = [link EXCEPT !.tries = link.tries + 1] /\ UNCHANGED <<own, wire>>
  BY DEF KalpaDial, Dial, Redialled, TypeInv, Sockets
<1> HIDE DEF u
<1>2. /\ own \in KalpaOwns /\ KeepInv /\ SocketUp /\ LockHeld /\ ChunksOwn /\ Sound(wire)
      /\ (Calm => CalmParts) /\ wire \in Seq(Messages) /\ link \in Sockets /\ link.n \in Nat
      /\ own.utt.conn \in Nat
  BY <1>1, KalpaOwnType, KalpaParts DEF ApartInv, KeepInv, TypeInv, Sockets
<1>3. /\ Redialled.slot = FreeSlot /\ Redialled.resp = NoResponse /\ Redialled.svc = NoService
      /\ Redialled.utt = own.utt /\ Redialled.at = own.at /\ Redialled.slotted = own.slotted
      /\ Redialled.crossed = own.crossed
  BY <1>2, RedialledType
<1>4. /\ own'.utt = own.utt /\ own'.at = own.at /\ own'.slotted = own.slotted
      /\ own'.crossed = own.crossed
  BY <1>1, <1>3
<1>5. LockHeld'  BY <1>1, <1>2, <1>4 DEF LockHeld, Me
<1>6. ASSUME Calm' PROVE Calm /\ CalmParts  BY <1>1, <1>2, <1>4, <1>6, CalmWas DEF Told
<1>7. CASE own' = Redialled /\ wire' = << >>
           /\ link' = [link EXCEPT !.ws = "open", !.n = link.n + 1, !.tries = 0,
                                   !.forgot = link.forgot, !.unmet = u]
  <2> DEFINE k == link.n + 1
  <2>1. k \in Nat /\ k # 0 /\ link.n < k  BY <1>2
  <2>2. link'.ws = "open" /\ link'.n = k  BY <1>2, <1>7 DEF Sockets
  <2> HIDE DEF k
  <2>3. own.utt.conn <= k /\ own.utt.conn # k  BY <1>2, <2>1 DEF SocketUp
  <2>4. KeepInv'
    <3>1. SocketUp'  BY <1>4, <1>7, <2>1, <2>2, <2>3 DEF SocketUp
    <3>2. ChunksOwn'  BY <1>2, <1>4 DEF ChunksOwn
    <3>3. Sound(wire')  BY <1>7, NothingParts
    <3>4. QED  BY <1>5, <3>1, <3>2, <3>3 DEF KeepInv
  <2>5. ASSUME Calm' PROVE CalmParts'
    <3>1. ~said'.foreign /\ ~said'.mixed  BY <1>1, <1>6, <2>5 DEF CalmParts
    <3>2. ~Open'  BY <1>4, <2>2, <2>3 DEF Open
    <3>3. Serving'  BY <1>3, <1>7, NothingTypes DEF Serving
    <3>4. own'.slot.idle /\ own'.svc = NoService  BY <1>3, <1>7, NothingTypes
    <3>5. QED  BY <1>7, <3>1, <3>2, <3>3, <3>4, CalmFreed
  <2>6. QED  BY <2>4, <2>5 DEF ApartInv
<1>8. CASE link' = [link EXCEPT !.tries = link.tries + 1] /\ UNCHANGED <<own, wire>>
  <2>1. link'.ws = link.ws /\ link'.n = link.n  BY <1>2, <1>8 DEF Sockets
  <2>2. Shorter(wire', wire)  BY <1>2, <1>8, ShorterWires
  <2>3. KeepInv'  BY <1>2, <1>5, <1>8, <2>1, <2>2, KeepStill
  <2>4. ASSUME Calm' PROVE CalmParts'
    <3>1. CalmParts  BY <1>6, <2>4
    <3>2. Serving'  BY <1>8, <3>1 DEF CalmParts, Serving
    <3>3. Me' = Me  BY <1>1 DEF Me
    <3>4. Awaits => Awaits'  BY <1>1, <1>8, <3>3, StillAwaits
    <3>5. QED  BY <1>1, <1>8, <2>1, <2>2, <3>1, <3>2, <3>4, CalmStill DEF Up
  <2>5. QED  BY <2>3, <2>4 DEF ApartInv
<1>9. QED  BY <1>1, <1>7, <1>8

---------------------------------------------------------------------------
\* The theorems.

LEMMA ApartInit ==
    ASSUME SpeakInit, tts = "kalpa"
    PROVE  ApartInv
<1>1. own = KalpaOwn /\ said = NothingSaid /\ wire = << >> /\ link = NoSocket  BY SpeakInits DEF SpeakInit, SynInit
<1>2. /\ own.utt = NoUtterance /\ own.slot.idle /\ own.svc = NoService /\ own.resp = NoResponse
      /\ ~own.slotted /\ own.at = "text"
  BY <1>1 DEF KalpaOwn, FreeSlot
<1>3. NoUtterance.turn = 0 /\ NoUtterance.conn = 0 /\ NoUtterance.chunks = << >> /\ ~NoUtterance.dead
  BY DEF NoUtterance
<1>4. link.ws = "none" /\ link.n = 0  BY <1>1 DEF NoSocket
<1>5. KeepInv
  <2>1. SocketUp  BY <1>1, <1>2, <1>3, <1>4 DEF SocketUp
  <2>2. LockHeld  BY <1>2 DEF LockHeld
  <2>3. ChunksOwn /\ Sound(wire)  BY <1>1, <1>2, <1>3, NothingParts DEF ChunksOwn
  <2>4. QED  BY <2>1, <2>2, <2>3 DEF KeepInv
<1>6. CalmParts
  <2>1. SlotEmpty /\ SlotsOwn  BY <1>1, <1>2 DEF SlotEmpty, SlotsOwn
  <2>2. SettleLast  BY <1>1, NothingParts DEF SettleLast
  <2>3. OpenUtterance /\ SlotUtterance  BY <1>2, <1>3 DEF OpenUtterance, SlotUtterance, Open
  <2>4. Serving  BY <1>2, NothingTypes DEF Serving
  <2>5. ~said.foreign /\ ~said.mixed  BY <1>1 DEF NothingSaid
  <2>6. QED  BY <2>1, <2>2, <2>3, <2>4, <2>5 DEF CalmParts
<1>7. QED  BY <1>5, <1>6 DEF ApartInv

LEMMA ApartKeeps ==
    ASSUME TypeInv, CutQuiet, EndInv, ApartInv, tts = "kalpa", [SpeakNext]_synVars
    PROVE  ApartInv'
<1>1. CASE Calls  BY <1>1, ApartCalls
<1>2. CASE Pushes
  <2>1. Asks  BY <1>2, KalpaPushStep
  <2>2. QED  BY <1>2, <2>1, ApartPush
<1>3. CASE KalpaInterrupt  BY <1>3, ApartInterrupt
<1>4. CASE \E i \in DOMAIN senders : KalpaStarts(i)  BY <1>4, ApartStarts
<1>5. CASE KalpaSends  BY <1>5, ApartSends
<1>6. CASE SlotFree  BY <1>6, ApartSlotFree
<1>7. CASE SlotTimesOut  BY <1>7, ApartTimesOut
<1>8. CASE Render  BY <1>8, ApartRender
<1>9. CASE ServiceFails  BY <1>9, ApartFails
<1>10. CASE \E more : KalpaReceive(more)  BY <1>10, ApartReceive
<1>11. CASE KalpaMeetsEnd  BY <1>11, ApartMeetsEnd
<1>12. CASE GivesUp \/ Lose \/ UNCHANGED synVars  BY <1>12, ApartLose
<1>13. CASE KalpaDial  BY <1>13, ApartDial
<1>14. QED
  BY <1>1, <1>2, <1>3, <1>4, <1>5, <1>6, <1>7, <1>8, <1>9, <1>10, <1>11, <1>12, <1>13, KalpaCases

SpeechInv == EndsInv /\ OwnAudio /\ UtterancesApart /\ (tts = "kalpa" => ApartInv)

LEMMA SpeechNext ==
    ASSUME SpeechInv, [SpeakNext]_synVars
    PROVE  SpeechInv'
<1>1. /\ EndsInv /\ OwnAudio /\ UtterancesApart /\ (tts = "kalpa" => ApartInv)
      /\ TypeInv /\ CutQuiet /\ (tts = "kalpa" => EndInv)
  BY DEF SpeechInv, EndsInv, LabelInv
<1>2. EndsInv'  BY <1>1, EndNext
<1>3. StartTurn \/ Retire \/ Invalidate \/ Asks \/ Barges \/ Onward  BY <1>1, SpeakStep
<1>4. tts' = tts
  BY <1>1, <1>3, StartTurnStep, RetireStep, InvalidateStep DEF Asks, Barges, Onward
<1>5. CASE tts = "kalpa"
  <2>1. ApartInv'  BY <1>1, <1>5, ApartKeeps
  <2>2. OwnAudio' /\ UtterancesApart'  BY <2>1 DEF ApartInv, CalmParts, OwnAudio, UtterancesApart
  <2>3. QED  BY <1>2, <2>1, <2>2 DEF SpeechInv
<1>6. CASE tts # "kalpa"
  <2>1. /\ Told' => Told
        /\ said'.foreign => said.foreign
        /\ said'.mixed => said.mixed
    <3>1. CASE StartTurn \/ Retire \/ Invalidate
      <4>1. said' = said /\ (Told' => Told)
        BY <1>1, <3>1, StartTurnStep, RetireStep, InvalidateStep DEF Told
      <4>2. QED  BY <4>1
    <3>2. CASE Asks \/ Barges
      <4>1. said' = said /\ (Told' => Told)  BY <3>2 DEF Asks, Barges, Told
      <4>2. QED  BY <4>1
    <3>3. CASE Onward  BY <1>6, <3>3 DEF Onward, NoNewWrong, Exact, SameCall, Told
    <3>4. QED  BY <1>3, <3>1, <3>2, <3>3
  <2>2. Calm' => Calm  BY <1>6, <2>1 DEF Calm
  <2>3. OwnAudio' /\ UtterancesApart'  BY <1>1, <2>1, <2>2 DEF OwnAudio, UtterancesApart
  <2>4. QED  BY <1>2, <1>4, <1>6, <2>3 DEF SpeechInv
<1>7. QED  BY <1>5, <1>6

LEMMA SpeechInit ==
    ASSUME SpeakInit
    PROVE  SpeechInv
<1>1. EndsInv /\ said = NothingSaid  BY EndsInit, SpeakInits
<1>2. OwnAudio /\ UtterancesApart  BY <1>1 DEF OwnAudio, UtterancesApart, NothingSaid
<1>3. QED  BY <1>1, <1>2, ApartInit DEF SpeechInv

\* The invariant behind OwnAudioOnly and NeverJoined.
THEOREM SpeechInvariant == SpeakSpec => []SpeechInv
<1>1. SpeakInit => SpeechInv  BY SpeechInit
<1>2. SpeechInv /\ [SpeakNext]_synVars => SpeechInv'  BY SpeechNext
<1>3. QED  BY <1>1, <1>2, PTL DEF SpeakSpec

\* As long as the synthesizer is told of every turn that is dropped and sends nothing
\* past an error it has not read, what Kalpa's receiver plays under a valid turn's label
\* is never the audio of a turn that was barged in on: the slot lets one turn render.
THEOREM OwnAudioOnly == SpeakSpec => []OwnAudio
<1>1. SpeechInv => OwnAudio  BY DEF SpeechInv
<1>2. QED  BY <1>1, SpeechInvariant, PTL

\* In such a call the text Kalpa's _open_utterance sends never joins, in the service's
\* one buffer, what another turn left there.
THEOREM NeverJoined == SpeakSpec => []UtterancesApart
<1>1. SpeechInv => UtterancesApart  BY DEF SpeechInv
<1>2. QED  BY <1>1, SpeechInvariant, PTL

---------------------------------------------------------------------------
\* What was heard is not sent again.

\* A sender's piece of text; a piece that the utterance keeps, that the service has, that
\* it rendered or that was played is written.
Piece(s) == <<s.turn, s.part>>
Among(q, x) == \E k \in DOMAIN q : q[k] = x
Rendered(w, x) == \E k \in DOMAIN w : w[k].kind = "audio" /\ x = <<w[k].turn, w[k].part>>
Played(x) == x[2] \in said.parts[x[1]]
Written(x) ==
    Among(own.utt.chunks, x) \/ Among(own.svc.buf, x) \/ Rendered(wire, x) \/ Played(x)

\* A sender owes its text; the holder of the lock, as long as it is at it.
Owes(i) == senders[i].text /\ (i = 1 => own.at = "text")
Unwritten(x) == \E i \in DOMAIN senders : Owes(i) /\ x = Piece(senders[i])
OwedOnce ==
    \A i, j \in DOMAIN senders : i # j /\ Owes(i) /\ Owes(j) => Piece(senders[i]) # Piece(senders[j])

\* The piece the call pushes next is a new one.
NextPart == IF pipe.turn \in Pairs /\ pipe.left = 1 THEN 2 ELSE 1
PiecesNew ==
    /\ pipe.left = 2 => pipe.turn \in Pairs
    /\ \A x \in Pieces : Written(x) \/ Unwritten(x) =>
          /\ x[1] <= pipe.turn
          /\ pipe.left > 0 /\ x[1] = pipe.turn => x[2] < NextPart
\* No piece is written twice by the senders.
PiecesOnce == OwedOnce /\ \A x \in Pieces : Unwritten(x) => ~Written(x)

\* An utterance of which a piece was heard is served on this socket.
HeardOpen ==
    /\ own.utt.turn # 0 /\ ~own.utt.dead
    /\ \E k \in DOMAIN own.utt.chunks : Played(own.utt.chunks[k])
HeardServes == HeardOpen => own.resp.rid # 0 /\ own.utt.conn = link.n /\ link.ws # "none"
\* Who waits for the slot waits for another turn's.
SlotAwaited == own.slotted => own.utt.turn # Me.turn
SlottedText == own.slotted /\ own.at = "text" => Me.text
CalmOnce == HeardServes /\ SlotAwaited /\ ~said.again
OnceInv == PiecesNew /\ PiecesOnce /\ SlottedText /\ (Met => CalmOnce)

\* What a dial overtook stays overtaken.
LEMMA MetWas ==
    ASSUME tts' = tts, Told' => Told, tts = "kalpa" => (own.crossed => own'.crossed),
           link.unmet => link'.unmet, Met'
    PROVE  Met
BY CalmWas DEF Met

---------------------------------------------------------------------------
\* What keeps OnceInv.

PlayedLess == \A x \in Pieces : Played(x)' => Played(x)
RenderedLess == \A x \in Pieces : Rendered(wire', x) => Rendered(wire, x)
WrittenLess == \A x \in Pieces : Written(x)' => Written(x)
OwedLess == OwedOnce' /\ \A x \in Pieces : Unwritten(x)' => Unwritten(x)

LEMMA PiecesStill ==
    ASSUME PiecesNew, PiecesOnce, WrittenLess, OwedLess, pipe'.turn = pipe.turn,
           pipe'.left \in {0, pipe.left}
    PROVE  PiecesNew' /\ PiecesOnce'
<1>1. PiecesOnce'  BY DEF PiecesOnce, WrittenLess, OwedLess
<1>2. ASSUME NEW x \in Pieces, Written(x)' \/ Unwritten(x)' PROVE Written(x) \/ Unwritten(x)
  BY <1>2 DEF WrittenLess, OwedLess
<1>3. pipe'.left > 0 => NextPart' = NextPart /\ pipe'.left = pipe.left  BY DEF NextPart
<1>4. PiecesNew'
  <2>1. pipe'.left = 2 => pipe'.turn \in Pairs  BY DEF PiecesNew
  <2>2. ASSUME NEW x \in Pieces, Written(x)' \/ Unwritten(x)'
        PROVE  /\ x[1] <= pipe'.turn
               /\ pipe'.left > 0 /\ x[1] = pipe'.turn => x[2] < NextPart'
    BY <1>2, <1>3, <2>2 DEF PiecesNew
  <2>3. QED  BY <2>1, <2>2 DEF PiecesNew
<1>5. QED  BY <1>1, <1>4

LEMMA OnceStill ==
    ASSUME OnceInv, WrittenLess, OwedLess, pipe'.turn = pipe.turn, pipe'.left \in {0, pipe.left},
           SlottedText', Met' => Met /\ HeardServes' /\ SlotAwaited' /\ (said'.again => said.again)
    PROVE  OnceInv'
<1>1. PiecesNew' /\ PiecesOnce'  BY PiecesStill DEF OnceInv
<1>2. Met' => CalmOnce'  BY DEF OnceInv, CalmOnce
<1>3. QED  BY <1>1, <1>2 DEF OnceInv

LEMMA SlotStill ==
    ASSUME own'.slotted => /\ own.slotted /\ Me' = Me /\ Me.turn # 0 /\ own'.at = own.at
                           /\ own'.utt.turn \in {0, own.utt.turn}
    PROVE  /\ SlottedText => SlottedText'
           /\ SlotAwaited => SlotAwaited'
<1>1. SlottedText => SlottedText'  BY DEF SlottedText
<1>2. SlotAwaited => SlotAwaited'  BY DEF SlotAwaited
<1>3. QED  BY <1>1, <1>2

\* The pieces of more and of less of a wire, and of what is said behind it.
LEMMA PartsFrom ==
    ASSUME NEW v, NEW w, NEW x
    PROVE  /\ Shorter(v, w) => (Rendered(v, x) => Rendered(w, x))
           /\ \A r : Joined(v, w, r) => /\ Among(v, x) => Among(w, x) \/ Among(r, x)
                                        /\ Rendered(v, x) => Rendered(w, x) \/ Rendered(r, x)
<1>1. Shorter(v, w) => (Rendered(v, x) => Rendered(w, x))  BY DEF Shorter, Rendered
<1>2. ASSUME NEW r, Joined(v, w, r)
      PROVE  /\ Among(v, x) => Among(w, x) \/ Among(r, x)
             /\ Rendered(v, x) => Rendered(w, x) \/ Rendered(r, x)
  <2>1. Among(v, x) => Among(w, x) \/ Among(r, x)  BY <1>2 DEF Joined, Among
  <2>2. Rendered(v, x) => Rendered(w, x) \/ Rendered(r, x)  BY <1>2 DEF Joined, Rendered
  <2>3. QED  BY <2>1, <2>2
<1>3. QED  BY <1>1, <1>2

LEMMA NothingAmong == ASSUME NEW x PROVE ~Among(<< >>, x) /\ ~Rendered(<< >>, x)
<1>1. DOMAIN << >> = {}  OBVIOUS
<1>2. QED  BY <1>1 DEF Among, Rendered

\* What a cancelResponse is answered with renders no piece.
LEMMA SilentParts ==
    ASSUME NEW r, \A t : AudioOf(r, t)
    PROVE  \A x : ~Rendered(r, x)
<1>1. AudioOf(r, 0) /\ AudioOf(r, 1)  OBVIOUS
<1>2. \A k \in DOMAIN r : r[k].kind # "audio"  BY <1>1 DEF AudioOf
<1>3. QED  BY <1>2 DEF Rendered

LEMMA WrittenStill ==
    ASSUME own'.utt.chunks \in {<< >>, own.utt.chunks}, own'.svc.buf \in {<< >>, own.svc.buf},
           RenderedLess, PlayedLess
    PROVE  WrittenLess
<1>1. \A x : Among(own'.utt.chunks, x) => Among(own.utt.chunks, x)  BY NothingAmong
<1>2. \A x : Among(own'.svc.buf, x) => Among(own.svc.buf, x)  BY NothingAmong
<1>3. QED  BY <1>1, <1>2 DEF WrittenLess, Written, RenderedLess, PlayedLess

LEMMA HeardStill ==
    ASSUME HeardServes, own.utt.chunks \in Seq(Pieces), PlayedLess,
           \/ own'.utt.chunks = << >>
           \/ /\ own'.utt.turn = own.utt.turn /\ own'.utt.conn = own.utt.conn
              /\ own'.utt.chunks = own.utt.chunks /\ (own.utt.dead => own'.utt.dead),
           own'.resp.rid # 0 \/ own'.resp = own.resp,
           link'.n = link.n, link'.ws = link.ws \/ link'.ws # "none"
    PROVE  HeardServes'
<1>1. CASE own'.utt.chunks = << >>
  <2>1. DOMAIN own'.utt.chunks = {}  BY <1>1
  <2>2. QED  BY <2>1 DEF HeardServes, HeardOpen
<1>2. CASE /\ own'.utt.turn = own.utt.turn /\ own'.utt.conn = own.utt.conn
           /\ own'.utt.chunks = own.utt.chunks /\ (own.utt.dead => own'.utt.dead)
  <2>1. \A k \in DOMAIN own.utt.chunks : own.utt.chunks[k] \in Pieces  OBVIOUS
  <2>2. \A x \in Pieces : x[2] \in said'.parts[x[1]] => x[2] \in said.parts[x[1]]
    BY DEF PlayedLess, Played
  <2>3. HeardOpen' => HeardOpen  BY <1>2, <2>1, <2>2 DEF HeardOpen, Played
  <2>4. QED  BY <1>2, <2>3 DEF HeardServes
<1>3. QED  BY <1>1, <1>2
---------------------------------------------------------------------------
\* The senders: none owes another piece than before.

\* What the holder leaves to the others.
Others(x) == \E j \in DOMAIN senders : j # 1 /\ senders[j].text /\ x = Piece(senders[j])

LEMMA OwedTail ==
    ASSUME senders \in Seq(Senders), senders # << >>, OwedOnce, senders' = Tail(senders)
    PROVE  OwedLess /\ \A x : Unwritten(x)' => Others(x)
<1>1. \A i \in DOMAIN senders' : i + 1 \in DOMAIN senders /\ i \in Nat /\ i # 0 /\ senders'[i] = senders[i + 1]
  <2>1. \A i \in DOMAIN senders' : i + 1 \in DOMAIN senders /\ senders'[i] = senders[i + 1]  BY TailSenders
  <2>2. DOMAIN senders' = 1..Len(senders')  BY TailSenders, LenProperties
  <2>3. Len(senders') \in Nat  BY TailSenders, LenProperties
  <2>4. QED  BY <2>1, <2>2, <2>3
<1>2. ASSUME NEW i \in DOMAIN senders', Owes(i)'
      PROVE  i + 1 \in DOMAIN senders /\ i + 1 # 1 /\ senders[i + 1].text /\ Owes(i + 1)
             /\ Piece(senders'[i]) = Piece(senders[i + 1])
  BY <1>1, <1>2 DEF Owes
<1>3. ASSUME NEW i \in DOMAIN senders', NEW j \in DOMAIN senders', i # j, Owes(i)', Owes(j)'
      PROVE  Piece(senders'[i]) # Piece(senders'[j])
  <2>1. i + 1 # j + 1  BY <1>1, <1>3
  <2>2. QED  BY <1>2, <1>3, <2>1 DEF OwedOnce
<1>4. OwedOnce'
  <2>1. \A i, j \in DOMAIN senders' : i # j /\ Owes(i)' /\ Owes(j)' => Piece(senders'[i]) # Piece(senders'[j])
    BY <1>3
  <2>2. QED  BY <2>1 DEF OwedOnce, Piece
<1>5. \A x : Unwritten(x)' => Others(x) /\ Unwritten(x)
  BY <1>2 DEF Unwritten, Others, Piece
<1>6. QED  BY <1>4, <1>5 DEF OwedLess

\* All senders stay; the holder may be done with its text.
LEMMA OwedSame ==
    ASSUME OwedOnce, senders' = senders, own'.at \in {"end", own.at}
    PROVE  OwedLess /\ (own'.at = "end" => \A x : Unwritten(x)' => Others(x))
<1>1. \A i \in DOMAIN senders' : Owes(i)' => Owes(i) /\ senders'[i] = senders[i]
  BY DEF Owes
<1>2. OwedOnce'  BY <1>1 DEF OwedOnce, Piece
<1>3. \A x : Unwritten(x)' => Unwritten(x)  BY <1>1 DEF Unwritten, Piece
<1>4. ASSUME own'.at = "end" PROVE \A x : Unwritten(x)' => Others(x)
  BY <1>4 DEF Unwritten, Owes, Others, Piece
<1>5. QED  BY <1>2, <1>3, <1>4 DEF OwedLess

\* Once its piece is written the holder owes it no more.
LEMMA OthersLess ==
    ASSUME OwedOnce, 1 \in DOMAIN senders, Owes(1)
    PROVE  \A x : Others(x) => x # Piece(Me)
BY DEF OwedOnce, Owes, Others, Me

LEMMA OwedStarts ==
    ASSUME senders \in Seq(Senders), own.at \in {"text", "end"}, OwedOnce, LockHeld,
           NEW i \in DOMAIN senders, KalpaStarts(i)
    PROVE  OwedLess
<1>1. ~senders[i].waits /\ own' = own  BY DEF KalpaStarts
<1>2. CASE senders' = [senders EXCEPT ![i].waits = TRUE]
  <2>1. DOMAIN senders' = DOMAIN senders  BY <1>2
  <2>2. \A j \in DOMAIN senders : /\ senders'[j].text = senders[j].text /\ Piece(senders'[j]) = Piece(senders[j])
    <3>1. ASSUME NEW j \in DOMAIN senders
          PROVE  senders'[j].text = senders[j].text /\ Piece(senders'[j]) = Piece(senders[j])
      <4>1. senders[j] \in Senders  OBVIOUS
      <4>2. senders'[j] \in {senders[j], [senders[j] EXCEPT !.waits = TRUE]}  BY <1>2
      <4>3. QED  BY <4>1, <4>2 DEF Senders, Piece
    <3>2. QED  BY <3>1
  <2>3. \A j \in DOMAIN senders : Owes(j)' => Owes(j)  BY <1>1, <2>2 DEF Owes
  <2>4. OwedOnce'  BY <2>1, <2>2, <2>3 DEF OwedOnce, Piece
  <2>5. \A x : Unwritten(x)' => Unwritten(x)  BY <2>1, <2>2, <2>3 DEF Unwritten, Piece
  <2>6. QED  BY <2>4, <2>5 DEF OwedLess
<1>3. CASE senders' = Without(i)
  <2> DEFINE from(j) == IF j < i THEN j ELSE j + 1
  <2>1. Len(senders) \in Nat /\ DOMAIN senders = 1..Len(senders) /\ i \in 1..Len(senders)
    BY LenProperties
  <2>2. \A j \in DOMAIN senders' : /\ j \in 1..(Len(senders) - 1)
                                   /\ senders'[j] = IF j < i THEN senders[j] ELSE senders[j + 1]
    BY <1>3, WithoutType
  <2>3. \A j \in DOMAIN senders' : from(j) \in DOMAIN senders /\ senders'[j] = senders[from(j)]
    BY <2>1, <2>2
  <2>4. i = 1 => own.at = "text"  BY <1>1, <2>1 DEF LockHeld, Me
  <2>5. ASSUME NEW j \in DOMAIN senders', Owes(j)' PROVE Owes(from(j))
    <3>1. senders[from(j)].text  BY <2>3, <2>5 DEF Owes
    <3>2. from(j) = 1 => own.at = "text"  BY <1>1, <2>1, <2>2, <2>5 DEF Owes
    <3>3. QED  BY <3>1, <3>2 DEF Owes
  <2>6. \A j, k \in DOMAIN senders' : j # k => from(j) # from(k)  BY <2>1, <2>2
  <2> HIDE DEF from
  <2>7. OwedOnce'  BY <2>3, <2>5, <2>6 DEF OwedOnce, Piece
  <2>8. \A x : Unwritten(x)' => Unwritten(x)  BY <2>3, <2>5 DEF Unwritten, Piece
  <2>9. QED  BY <2>7, <2>8 DEF OwedLess
<1>4. QED  BY <1>2, <1>3 DEF KalpaStarts
---------------------------------------------------------------------------
\* The call, a push and the start of a sender.

LEMMA OnceParts ==
    ASSUME TypeInv, tts = "kalpa", ApartInv, OnceInv
    PROVE  /\ own \in KalpaOwns /\ own.utt.chunks \in Seq(Pieces) /\ senders \in Seq(Senders)
           /\ own.at \in {"text", "end"} /\ LockHeld /\ OwedOnce
           /\ wire \in Seq(Messages) /\ link \in Sockets /\ link.n \in Nat
           /\ SlottedText /\ (Met => CalmParts /\ CalmOnce)
           /\ own.slotted => Me.turn # 0
<1>1. /\ own \in KalpaOwns /\ own.utt.chunks \in Seq(Pieces) /\ own.at \in {"text", "end"}
      /\ senders \in Seq(Senders) /\ LockHeld
      /\ wire \in Seq(Messages) /\ link \in Sockets /\ link.n \in Nat
  BY KalpaOwnType, KalpaType, KalpaParts DEF TypeInv, ApartInv, KeepInv, Sockets
<1>2. own.slotted => Me.turn # 0
  <2>1. ASSUME own.slotted PROVE Me.turn # 0
    <3>1. senders # << >>  BY <1>1, <2>1 DEF LockHeld
    <3>2. 1 \in DOMAIN senders  BY <1>1, <3>1, LenProperties, EmptySeq
    <3>3. Me.turn \in Turns  BY <1>1, <3>2, SenderType DEF Me
    <3>4. QED  BY <3>3, SynthesizerAssumption DEF Turns
  <2>2. QED  BY <2>1
<1>3. QED  BY <1>1, <1>2 DEF OnceInv, PiecesOnce, ApartInv, Met

\* The holder of the lock stays while another sender starts.
LEMMA StartsOthers ==
    ASSUME senders \in Seq(Senders), NEW i \in DOMAIN senders, KalpaStarts(i), senders # << >>, Me.waits
    PROVE  senders' # << >> /\ Me' = Me
<1>1. i # 1  BY DEF Me, KalpaStarts
<1>2. Len(senders) \in Nat /\ DOMAIN senders = 1..Len(senders) /\ i \in 1..Len(senders)
  BY LenProperties
<1>3. Len(senders) > 1  BY <1>1, <1>2
<1>4. CASE senders' = Without(i)
  <2>1. /\ Len(Without(i)) = Len(senders) - 1 /\ Without(i) \in Seq(Senders)
        /\ \A j \in DOMAIN Without(i) : Without(i)[j] = IF j < i THEN senders[j] ELSE senders[j + 1]
    BY WithoutType
  <2>2. DOMAIN Without(i) = 1..Len(Without(i))  BY <2>1, LenProperties
  <2>3. 1 \in DOMAIN Without(i) /\ 1 < i  BY <1>1, <1>2, <1>3, <2>1, <2>2
  <2>4. Without(i)[1] = senders[1]  BY <2>1, <2>3
  <2>5. Without(i) # << >>  BY <2>3
  <2>6. QED  BY <1>4, <2>4, <2>5 DEF Me
<1>5. CASE senders' = [senders EXCEPT ![i].waits = TRUE]
  <2>1. 1 \in DOMAIN senders /\ senders'[1] = senders[1] /\ DOMAIN senders' = DOMAIN senders
    BY <1>1, <1>2, <1>3, <1>5
  <2>2. QED  BY <2>1 DEF Me
<1>6. QED  BY <1>4, <1>5 DEF KalpaStarts

LEMMA OnceCalls ==
    ASSUME TypeInv, ApartInv, OnceInv, tts = "kalpa", Calls
    PROVE  OnceInv'
<1>1. /\ UNCHANGED <<tts, base, link, senders, own, wire, said>> /\ (Told' => Told)
      /\ Met' => Met
  BY StartTurnStep, RetireStep, InvalidateStep DEF Calls, Told, Calm, Met
<1>2. WrittenLess /\ (OwedOnce => OwedLess) /\ (SlottedText => SlottedText')
      /\ (HeardServes => HeardServes') /\ (SlotAwaited => SlotAwaited')
  BY <1>1 DEF WrittenLess, Written, Played, Rendered, Among, OwedLess, OwedOnce, Unwritten, Owes,
              Piece, SlottedText, SlotAwaited, Me, HeardServes, HeardOpen
<1>3. CASE StartTurn
  <2>1. /\ pipe'.turn = pipe.turn + 1 /\ pipe.turn \in Nat
        /\ pipe'.left = 2 => pipe'.turn \in Pairs
    BY <1>3 DEF StartTurn, TypeInv, Calling
  <2>2. PiecesOnce'  BY <1>2 DEF OnceInv, PiecesOnce, WrittenLess, OwedLess
  <2>3. PiecesNew'
    <3>1. ASSUME NEW x \in Pieces, Written(x)' \/ Unwritten(x)'
          PROVE  x[1] <= pipe'.turn /\ x[1] # pipe'.turn
      <4>1. x[1] <= pipe.turn
        BY <1>2, <3>1 DEF OnceInv, PiecesOnce, PiecesNew, WrittenLess, OwedLess
      <4>2. x[1] \in Nat  BY PieceType DEF Turns
      <4>3. QED  BY <2>1, <4>1, <4>2
    <3>2. QED  BY <2>1, <3>1 DEF PiecesNew
  <2>4. QED  BY <1>1, <1>2, <2>2, <2>3 DEF OnceInv, CalmOnce
<1>4. CASE Retire \/ Invalidate
  <2>1. pipe'.turn = pipe.turn /\ pipe'.left \in {0, pipe.left}
    BY <1>4, RetireStep, InvalidateStep
  <2>2. SlottedText' /\ OwedLess  BY <1>2 DEF OnceInv, PiecesOnce
  <2>3. Met' => Met /\ HeardServes' /\ SlotAwaited' /\ (said'.again => said.again)
    BY <1>1, <1>2 DEF OnceInv, CalmOnce
  <2>4. QED  BY <1>2, <2>1, <2>2, <2>3, OnceStill
<1>5. QED  BY <1>3, <1>4 DEF Calls

LEMMA OncePush ==
    ASSUME TypeInv, ApartInv, OnceInv, tts = "kalpa", Pushes, Asks
    PROVE  OnceInv'
<1>1. /\ PushOwn /\ UNCHANGED <<tts, link, wire, said>> /\ Pushing
      /\ \E text \in BOOLEAN : senders' = Append(senders, Pushed(text, pipe.left = 1, own.igen))
  BY KalpaPushes
<1>2. /\ own \in KalpaOwns /\ own.utt.chunks \in Seq(Pieces) /\ senders \in Seq(Senders)
      /\ LockHeld /\ OwedOnce /\ SlottedText /\ (Met => CalmOnce) /\ (own.slotted => Me.turn # 0)
  BY OnceParts
<1>3. /\ pipe \in Calling /\ pipe.left \in {1, 2} /\ pipe'.turn = pipe.turn
      /\ pipe'.left = pipe.left - 1
  BY <1>1 DEF Pushes, Push, Pushing, TypeInv, Calling
<1> DEFINE n == Len(senders) + 1
           new == senders'[n]
           x0 == <<pipe.turn, NextPart>>
<1>4. /\ n \in Nat /\ \A j \in DOMAIN senders : j \in DOMAIN senders' /\ j # n /\ senders'[j] = senders[j]
      /\ \A j \in DOMAIN senders' : j \in DOMAIN senders \/ j = n
      /\ Piece(new) = x0 /\ (senders # << >> => 1 \in DOMAIN senders)
  <2>1. PICK text \in BOOLEAN : senders' = Append(senders, Pushed(text, pipe.left = 1, own.igen))
    BY <1>1
  <2> DEFINE last == pipe.left = 1
             s == Pushed(text, last, own.igen)
  <2>2. senders' = Append(senders, s)  BY <2>1
  <2>3. s.turn = pipe.turn /\ s.part = NextPart  BY <1>3 DEF Pushed, NextPart
  <2>4. last \in BOOLEAN /\ pipe.turn \in pipe.ids /\ own.igen \in Nat
    BY <1>1, <1>2, KalpaType DEF Pushing
  <2> HIDE DEF last
  <2>5. s \in Senders  BY <1>3, <2>4, PushedType
  <2> HIDE DEF s
  <2>6. /\ \A j \in DOMAIN senders : j \in DOMAIN senders' /\ senders'[j] = senders[j]
        /\ \A j \in DOMAIN senders' : j \in DOMAIN senders \/ j = n
        /\ new = s
    BY <1>2, <2>2, <2>5, AppendSender
  <2>7. DOMAIN senders = 1..Len(senders) /\ Len(senders) \in Nat  BY <1>2, LenProperties
  <2>8. n \in Nat /\ \A j \in DOMAIN senders : j # n  BY <2>7
  <2>9. senders # << >> => 1 \in DOMAIN senders  BY <1>2, <2>7, EmptySeq
  <2>10. QED  BY <2>3, <2>6, <2>8, <2>9 DEF Piece
<1> HIDE DEF n
<1>5. x0 \in Pieces
  <2>1. pipe.turn \in Turns  BY <1>1, <1>3 DEF Pushing, Calling
  <2>2. NextPart \in Parts  BY DEF NextPart, Parts
  <2>3. QED  BY <2>1, <2>2 DEF Pieces
<1> DEFINE y == x0
<1>6. ~Written(x0) /\ ~Unwritten(x0)
  <2>1. x0[1] = pipe.turn /\ x0[2] = NextPart /\ ~(NextPart < NextPart) /\ pipe.left > 0
    BY <1>3 DEF NextPart
  <2>2. PiecesNew  BY DEF OnceInv
  <2> HIDE DEF x0
  <2>3. QED  BY <1>5, <2>1, <2>2 DEF PiecesNew
<1>7. /\ own'.utt.turn = own.utt.turn /\ own'.utt.chunks = own.utt.chunks
      /\ own'.utt.conn = own.utt.conn /\ own'.svc = own.svc /\ own'.at = own.at
      /\ own'.slotted = own.slotted /\ own'.resp = own.resp /\ own'.crossed = own.crossed
      /\ own.utt.dead => own'.utt.dead
  BY <1>1, <1>2, KalpaParts DEF PushOwn
<1>8. WrittenLess  BY <1>1, <1>7 DEF WrittenLess, Written, Played, Rendered, Among
<1>9. \A j \in DOMAIN senders' : Owes(j)' => (j \in DOMAIN senders /\ Owes(j)) \/ j = n
  BY <1>4, <1>7 DEF Owes
<1>10. ASSUME NEW x \in Pieces, Unwritten(x)' PROVE Unwritten(x) \/ x = x0
  <2>1. PICK j \in DOMAIN senders' : Owes(j)' /\ x = Piece(senders'[j])
    BY <1>10 DEF Unwritten, Piece
  <2>2. CASE j = n  BY <1>4, <2>1, <2>2
  <2>3. CASE j \in DOMAIN senders /\ Owes(j)  BY <1>4, <2>1, <2>3 DEF Unwritten
  <2>4. QED  BY <1>9, <2>1, <2>2, <2>3
<1>11. PiecesOnce'
  <2>1. ASSUME NEW i \in DOMAIN senders', NEW j \in DOMAIN senders', i # j, Owes(i)', Owes(j)'
        PROVE  Piece(senders'[i]) # Piece(senders'[j])
    <3>1. CASE i = n
      <4>1. j \in DOMAIN senders /\ Owes(j) /\ senders'[j] = senders[j]  BY <1>4, <1>9, <2>1, <3>1
      <4>2. Unwritten(Piece(senders[j]))  BY <4>1 DEF Unwritten
      <4>3. QED  BY <1>4, <1>6, <3>1, <4>1, <4>2
    <3>2. CASE j = n
      <4>1. i \in DOMAIN senders /\ Owes(i) /\ senders'[i] = senders[i]  BY <1>4, <1>9, <2>1, <3>2
      <4>2. Unwritten(Piece(senders[i]))  BY <4>1 DEF Unwritten
      <4>3. QED  BY <1>4, <1>6, <3>2, <4>1, <4>2
    <3>3. CASE i # n /\ j # n  BY <1>2, <1>4, <1>9, <2>1, <3>3 DEF OwedOnce
    <3>4. QED  BY <3>1, <3>2, <3>3
  <2>2. OwedOnce'  BY <2>1 DEF OwedOnce, Piece
  <2>3. ASSUME NEW x \in Pieces, Unwritten(x)' PROVE ~Written(x)'
    BY <1>6, <1>8, <1>10, <2>3 DEF WrittenLess, OnceInv, PiecesOnce
  <2>4. QED  BY <2>2, <2>3 DEF PiecesOnce
<1>12. PiecesNew'
  <2>1. pipe'.left = 2 => pipe'.turn \in Pairs  BY <1>3
  <2>2. NextPart' = IF pipe'.left = 1 /\ pipe.turn \in Pairs THEN 2 ELSE 1  BY <1>3 DEF NextPart
  <2>3. pipe'.left > 0 => pipe.left = 2 /\ pipe'.left = 1 /\ pipe.turn \in Pairs /\ NextPart = 1
                           /\ NextPart' = 2
    BY <1>3, <2>2 DEF NextPart, OnceInv, PiecesNew
  <2>4. ASSUME NEW x \in Pieces, Written(x)' \/ Unwritten(x)'
        PROVE  x[1] <= pipe'.turn /\ (pipe'.left > 0 /\ x[1] = pipe'.turn => x[2] < NextPart')
    <3>1. CASE Written(x) \/ Unwritten(x)
      <4>1. x[1] <= pipe.turn /\ (pipe.left > 0 /\ x[1] = pipe.turn => x[2] < NextPart)
        BY <3>1 DEF OnceInv, PiecesNew
      <4>2. x[2] \in Nat  BY PieceType DEF Parts
      <4>3. QED  BY <1>3, <2>3, <4>1, <4>2
    <3>2. CASE x = x0
      <4>1. x[1] = pipe.turn /\ x[2] = NextPart /\ pipe.turn <= pipe.turn
        BY <1>3, <3>2 DEF Calling
      <4>2. QED  BY <1>3, <2>3, <4>1
    <3>3. QED  BY <1>8, <1>10, <2>4, <3>1, <3>2 DEF WrittenLess
  <2>5. QED  BY <2>1, <2>4 DEF PiecesNew
<1>13. own.slotted => Me' = Me  BY <1>2, <1>4 DEF LockHeld, Me
<1>14. (SlottedText => SlottedText') /\ (SlotAwaited => SlotAwaited')
  BY <1>2, <1>7, <1>13, SlotStill
<1>15. ASSUME Met' PROVE CalmOnce'
  <2>1. Told' => Told  BY DEF Asks, Told
  <2>2. CalmOnce  BY <1>1, <1>2, <1>7, <1>15, <2>1, MetWas
  <2>3. PlayedLess  BY <1>1 DEF PlayedLess, Played
  <2>4. HeardServes'  BY <1>1, <1>2, <1>7, <2>2, <2>3, HeardStill DEF CalmOnce
  <2>5. QED  BY <1>1, <1>14, <2>2, <2>4 DEF CalmOnce
<1>16. QED  BY <1>2, <1>11, <1>12, <1>14, <1>15 DEF OnceInv

LEMMA OnceStarts ==
    ASSUME TypeInv, ApartInv, OnceInv, tts = "kalpa", NEW i \in DOMAIN senders, KalpaStarts(i)
    PROVE  OnceInv'
<1>1. UNCHANGED <<tts, pipe, base, link, own, wire, said>> /\ ~senders[i].waits  BY DEF KalpaStarts
<1>2. /\ senders \in Seq(Senders) /\ own.at \in {"text", "end"} /\ LockHeld /\ OwedOnce
      /\ SlottedText /\ (Met => CalmOnce) /\ (own.slotted => Me.turn # 0)
  BY OnceParts
<1>3. OwedLess  BY <1>2, OwedStarts
<1>4. WrittenLess  BY <1>1 DEF WrittenLess, Written, Played
<1>5. own.slotted => Me' = Me  BY <1>1, <1>2, StartsOthers DEF LockHeld
<1>6. (SlottedText => SlottedText') /\ (SlotAwaited => SlotAwaited')
  BY <1>1, <1>2, <1>5, SlotStill
<1>7. ASSUME Met' PROVE Met /\ HeardServes' /\ SlotAwaited' /\ (said'.again => said.again)
  <2>1. Met /\ CalmOnce  BY <1>1, <1>2, <1>7 DEF Calm, Met, Told
  <2>2. HeardServes'  BY <1>1, <2>1 DEF CalmOnce, HeardServes, HeardOpen, Played
  <2>3. QED  BY <1>1, <1>6, <2>1, <2>2 DEF CalmOnce
<1>8. QED  BY <1>1, <1>2, <1>3, <1>4, <1>6, <1>7, OnceStill

---------------------------------------------------------------------------
\* The holder of the lock goes on with nothing sent.

LEMMA OnceHolder ==
    ASSUME TypeInv, tts = "kalpa", ApartInv, OnceInv, UNCHANGED <<tts, pipe, said>>,
           own'.resp = own.resp, own'.utt = own.utt \/ own'.utt.chunks = << >>,
           own'.utt.chunks \in {<< >>, own.utt.chunks},
           own'.svc.buf \in {<< >>, own.svc.buf}, own.crossed => own'.crossed,
           link.unmet => link'.unmet, RenderedLess, OwedLess, link'.n = link.n, link'.ws = link.ws \/ link'.ws # "none",
           SlottedText', Met => SlotAwaited'
    PROVE  OnceInv'
<1>1. own.utt.chunks \in Seq(Pieces) /\ (Met => CalmOnce)  BY OnceParts
<1>2. PlayedLess  BY DEF PlayedLess, Played
<1>3. WrittenLess  BY <1>2, WrittenStill
<1>4. ASSUME Met' PROVE Met /\ HeardServes' /\ SlotAwaited' /\ (said'.again => said.again)
  <2>1. Met  BY <1>4, MetWas DEF Told
  <2>2. HeardServes  BY <1>1, <2>1 DEF CalmOnce
  <2>3. HeardServes'  BY <1>1, <1>2, <2>2, HeardStill
  <2>4. QED  BY <2>1, <2>3
<1>5. QED  BY <1>3, <1>4, OnceStill

\* What a cancelResponse is answered with renders nothing.
LEMMA CancelSilent ==
    ASSUME wire \in Seq(Messages), NEW STATE o, NEW STATE flush, o \in KalpaOwns, flush \in BOOLEAN,
           wire' = wire \o CancelOutput(o, flush)
    PROVE  RenderedLess
<1> DEFINE r == CancelOutput(o, flush)
<1>1. r \in Seq(Messages) /\ \A t : AudioOf(r, t)  BY CancelOutputParts
<1>2. wire' = wire \o r  OBVIOUS
<1> HIDE DEF r
<1>3. Joined(wire', wire, r)  BY <1>1, <1>2, JoinedConcat
<1>4. \A x : ~Rendered(r, x)  BY <1>1, SilentParts
<1>5. \A x : Rendered(wire', x) => Rendered(wire, x)  BY <1>3, <1>4, PartsFrom
<1>6. QED  BY <1>5 DEF RenderedLess

LEMMA OnceLeaves ==
    ASSUME TypeInv, tts = "kalpa", ApartInv, OnceInv, Holding, NEW STATE o, o \in KalpaOwns,
           LetsGo(o), o.utt = own.utt \/ o.utt = NoUtterance, o.resp = own.resp, o.svc = own.svc,
           o.crossed = own.crossed, UNCHANGED <<tts, pipe, link, said, wire>>
    PROVE  OnceInv'
<1>1. /\ own' \in KalpaOwns /\ Alike(own', o) /\ ~own'.slotted /\ senders' = Tail(senders)
  BY LetsGoType
<1>2. senders \in Seq(Senders) /\ senders # << >> /\ OwedOnce  BY OnceParts DEF Holding
<1>3. OwedLess  BY <1>1, <1>2, OwedTail
<1>4. SlottedText' /\ SlotAwaited' /\ RenderedLess
  BY <1>1 DEF SlottedText, SlotAwaited, RenderedLess
<1>5. own'.utt = own.utt \/ own'.utt.chunks = << >>  BY <1>1, NothingTypes DEF Alike
<1>6. own'.resp = own.resp /\ own'.svc = own.svc /\ own'.crossed = own.crossed  BY <1>1 DEF Alike
<1>7. QED  BY <1>3, <1>4, <1>5, <1>6, OnceHolder

LEMMA OnceSkips ==
    ASSUME TypeInv, tts = "kalpa", ApartInv, OnceInv, Holding, Skips,
           UNCHANGED <<tts, pipe, link, said, wire>>
    PROVE  OnceInv'
<1>1. own \in KalpaOwns /\ OwedOnce  BY OnceParts
<1> DEFINE o == [own EXCEPT !.utt = NoUtterance]
<1>2. /\ o \in KalpaOwns /\ o.utt = NoUtterance /\ o.resp = own.resp /\ o.svc = own.svc
      /\ o.crossed = own.crossed
  BY <1>1, NothingTypes DEF KalpaOwns
<1> HIDE DEF o
<1>3. CASE own.at = "text"
  <2>1. TextDone(own)  BY <1>3 DEF Skips
  <2>2. CASE LetsGo(own)  BY <1>1, <2>2, OnceLeaves
  <2>3. CASE senders' = senders
    <3>1. own' \in KalpaOwns /\ Alike(own', own) /\ ~own'.slotted  BY <1>1, <2>1, TextDoneType
    <3>2. own'.at \in {"end", own.at}  BY <1>1, <1>3, <3>1, KalpaType
    <3>3. OwedLess  BY <1>1, <2>3, <3>2, OwedSame
    <3>4. SlottedText' /\ SlotAwaited' /\ RenderedLess
      BY <3>1 DEF SlottedText, SlotAwaited, RenderedLess
    <3>5. /\ own'.utt = own.utt /\ own'.resp = own.resp /\ own'.svc = own.svc
          /\ own'.crossed = own.crossed
      BY <3>1 DEF Alike
    <3>6. QED  BY <3>3, <3>4, <3>5, OnceHolder
  <2>4. QED  BY <2>1, <2>2, <2>3 DEF TextDone
<1>4. CASE own.at # "text"
  <2>1. LetsGo(IF DeadOne THEN o ELSE own)  BY <1>4 DEF Skips, o
  <2>2. CASE DeadOne  BY <1>2, <2>1, <2>2, OnceLeaves
  <2>3. CASE ~DeadOne  BY <1>1, <2>1, <2>3, OnceLeaves
  <2>4. QED  BY <2>2, <2>3
<1>5. QED  BY <1>3, <1>4

\* The wait for the slot begins, or ends.
LEMMA OnceSlotted ==
    ASSUME TypeInv, tts = "kalpa", ApartInv, OnceInv, NEW w \in BOOLEAN, own' = [own EXCEPT !.slotted = w],
           UNCHANGED <<tts, pipe, said, senders>>, Shorter(wire', wire),
           link'.n = link.n, link'.ws = link.ws \/ link'.ws # "none", link.unmet => link'.unmet,
           w /\ own.at = "text" => Me.text, w /\ Met => own.utt.turn # Me.turn
    PROVE  OnceInv'
<1>1. own \in KalpaOwns /\ OwedOnce  BY OnceParts
<1>2. own' \in KalpaOwns /\ Alike(own', own) /\ own'.at = own.at /\ own'.slotted = w
  BY <1>1, SlottedType
<1>3. OwedLess  BY <1>1, <1>2, OwedSame
<1>4. RenderedLess  BY PartsFrom DEF RenderedLess
<1>5. /\ own'.utt = own.utt /\ own'.resp = own.resp /\ own'.svc = own.svc
      /\ own'.crossed = own.crossed
  BY <1>2 DEF Alike
<1>6. SlottedText' /\ (Met => SlotAwaited')  BY <1>2, <1>5 DEF SlottedText, SlotAwaited, Me
<1>7. QED  BY <1>3, <1>4, <1>5, <1>6, OnceHolder

LEMMA OnceTimesOut ==
    ASSUME TypeInv, tts = "kalpa", ApartInv, OnceInv, SlotTimesOut
    PROVE  OnceInv'
<1>1. own \in KalpaOwns /\ wire \in Seq(Messages) /\ link \in Sockets  BY OnceParts
<1>2. Holding /\ UNCHANGED <<tts, pipe, base, said>>  BY DEF SlotTimesOut
<1>3. CASE Retired(Me)
  <2>1. LetsGo(own) /\ UNCHANGED <<link, wire>>  BY <1>3 DEF SlotTimesOut
  <2>2. QED  BY <1>1, <1>2, <2>1, OnceLeaves
<1>4. CASE ~Retired(Me)
  <2>1. own' = [own EXCEPT !.slotted = FALSE] /\ UNCHANGED senders  BY <1>4 DEF SlotTimesOut
  <2>2. /\ link'.n = link.n /\ (link'.ws = link.ws \/ link'.ws # "none") /\ Shorter(wire', wire)
        /\ link'.unmet = link.unmet
    BY <1>1, <1>4, ShorterWires DEF SlotTimesOut, Sockets
  <2>3. QED  BY <1>2, <2>1, <2>2, OnceSlotted
<1>5. QED  BY <1>3, <1>4

\* The slot of a superseded turn is cancelled.
LEMMA OnceCancels ==
    ASSUME TypeInv, tts = "kalpa", ApartInv, OnceInv, Holding, Cancels, ~own.slotted,
           own.at = "text" => Me.text, own.utt.turn # Me.turn,
           UNCHANGED <<tts, pipe, link, senders, said>>
    PROVE  OnceInv'
<1>1. own \in KalpaOwns /\ OwedOnce /\ wire \in Seq(Messages)  BY OnceParts
<1>2. /\ own' \in KalpaOwns /\ own'.utt = own.utt /\ own'.resp = own.resp /\ own'.at = own.at
      /\ link.ws = "open" => /\ own'.svc = NoService
                             /\ own'.crossed = (own.crossed \/ (own.resp.rid = 0 /\ Crosses))
                             /\ wire' = wire \o CancelOutput(GivenUp, own.resp.rid = 0)
      /\ link.ws # "open" => own' = GivenUp /\ wire' = wire
  BY <1>1, CancelsType
<1>3. /\ GivenUp \in KalpaOwns /\ GivenUp.svc = own.svc /\ GivenUp.crossed = own.crossed
      /\ (own.resp.rid = 0) \in BOOLEAN
  BY <1>1, GivenUpType
<1>4. RenderedLess
  <2>1. CASE link.ws = "open"  BY <1>1, <1>2, <1>3, <2>1, CancelSilent
  <2>2. CASE link.ws # "open"  BY <1>2, <2>2 DEF RenderedLess
  <2>3. QED  BY <2>1, <2>2
<1>5. OwedLess  BY <1>1, <1>2, OwedSame
<1>6. own'.svc.buf \in {<< >>, own.svc.buf} /\ (own.crossed => own'.crossed)
  BY <1>2, <1>3, NothingTypes
<1>7. SlottedText' /\ SlotAwaited'  BY <1>2 DEF SlottedText, SlotAwaited, Me
<1>8. QED  BY <1>2, <1>4, <1>5, <1>6, <1>7, OnceHolder

\* The wipe has no socket left to be sent on: the utterance is the turn's.
LEMMA OnceRetakes ==
    ASSUME TypeInv, tts = "kalpa", ApartInv, OnceInv, Holding,
           own' = [Retaken(own) EXCEPT !.slotted = FALSE], UNCHANGED <<tts, pipe, link, senders, said, wire>>
    PROVE  OnceInv'
<1>1. own \in KalpaOwns /\ OwedOnce  BY OnceParts
<1>2. Me.turn \in 0..MaxTurn  BY MeType DEF Turns
<1>3. /\ Retaken(own) \in KalpaOwns /\ Retaken(own).utt = Mine(own) /\ Retaken(own).resp = own.resp
      /\ Retaken(own).at = own.at /\ Retaken(own).svc = own.svc /\ Retaken(own).crossed = own.crossed
  BY <1>1, <1>2, RetakenType
<1>4. /\ own' \in KalpaOwns /\ Alike(own', Retaken(own)) /\ own'.at = own.at /\ ~own'.slotted
  <2> DEFINE p == Retaken(own)
             no == FALSE
  <2>1. p \in KalpaOwns /\ own' = [p EXCEPT !.slotted = no] /\ no \in BOOLEAN /\ ~no  BY <1>3
  <2> HIDE DEF p, no
  <2> DEFINE q == [p EXCEPT !.slotted = no]
  <2>2. q \in KalpaOwns /\ Alike(q, p) /\ q.at = p.at /\ q.slotted = no /\ own' = q
    BY <2>1, SlottedType
  <2> HIDE DEF q
  <2>3. QED  BY <1>3, <2>1, <2>2 DEF p
<1>5. OwedLess  BY <1>1, <1>4, OwedSame
<1>6. own'.utt = Mine(own) /\ own'.resp = own.resp /\ own'.svc = own.svc /\ own'.crossed = own.crossed
  BY <1>3, <1>4 DEF Alike
<1>7. own'.utt = own.utt \/ own'.utt.chunks = << >>  BY <1>1, <1>2, <1>6, MineType
<1>8. SlottedText' /\ SlotAwaited' /\ RenderedLess  BY <1>4 DEF SlottedText, SlotAwaited, RenderedLess
<1>9. QED  BY <1>5, <1>6, <1>7, <1>8, OnceHolder
---------------------------------------------------------------------------
\* The holder writes.

\* A piece of the utterance o keeps was heard.
HeardOf(o) == \E k \in DOMAIN o.utt.chunks : Played(o.utt.chunks[k])

LEMMA OnceWrites ==
    ASSUME TypeInv, tts = "kalpa", ApartInv, OnceInv, Holding, NEW STATE o, NEW STATE replay,
           o \in KalpaOwns, replay \in BOOLEAN, KalpaTurns(o) \subseteq Flying, Writes(o, replay),
           UNCHANGED <<tts, pipe, link>>, own.at = "text" => Me.text, RenderedLess,
           \A x : Among(o.utt.chunks, x) => Among(own.utt.chunks, x),
           \A x : Among(o.svc.buf, x) => Among(own.svc.buf, x), own.crossed => o.crossed,
           \/ Met => ~HeardOf(o)
           \/ o.utt = own.utt /\ o.resp = own.resp /\ ~replay
    PROVE  OnceInv'
<1>1. /\ own \in KalpaOwns /\ senders \in Seq(Senders) /\ senders # << >> /\ OwedOnce
      /\ own.at \in {"text", "end"} /\ (Met => CalmOnce)
      /\ 1 \in DOMAIN senders /\ Me \in Senders /\ Me.turn \in Turns /\ Me.part \in Parts
  BY OnceParts, MeType
<1>2. /\ own' \in KalpaOwns /\ own'.resp = o.resp /\ ~own'.slotted
      /\ own'.crossed = (o.crossed \/ (link.ws = "open" /\ Crosses))
      /\ own'.svc = IF link.ws = "open" THEN Fed(o, replay) ELSE o.svc
      /\ own.at = "end" => own'.utt = NoUtterance /\ own'.at = "text" /\ senders' = Tail(senders)
      /\ own.at = "text" => /\ own'.utt = [o.utt EXCEPT !.chunks = AllPieces(o)]
                            /\ \/ Me.last /\ own'.at = "end" /\ senders' = senders
                               \/ ~Me.last /\ own'.at = "text" /\ senders' = Tail(senders)
      /\ said'.parts = said.parts /\ (said'.again => said.again \/ Repeats(o, replay))
  BY WritesType
<1>3. /\ NewPiece \in Seq(Pieces) /\ AllPieces(o) \in Seq(Pieces) /\ Sent(o, replay) \in Seq(Pieces)
      /\ Fed(o, replay).buf = o.svc.buf \o Sent(o, replay)
      /\ o.utt \in Utterances /\ o.utt.chunks \in Seq(Pieces) /\ o.svc.buf \in Seq(Pieces)
  BY SentType, KalpaType, KalpaParts
<1>4. ASSUME NEW x PROVE Among(NewPiece, x) => own.at = "text" /\ x = Piece(Me)
  <2>1. CASE own.at = "text"
    <3> DEFINE y == <<Me.turn, Me.part>>
    <3>1. NewPiece = <<y>>  BY <2>1 DEF NewPiece
    <3> HIDE DEF y
    <3>2. Among(<<y>>, x) => x = y  BY DEF Among
    <3>3. QED  BY <2>1, <3>1, <3>2 DEF Piece, y
  <2>2. CASE own.at # "text"
    <3>1. NewPiece = << >>  BY <2>2 DEF NewPiece
    <3>2. QED  BY <3>1, NothingAmong
  <2>3. QED  BY <2>1, <2>2
<1>5. ASSUME NEW x PROVE Among(AllPieces(o), x) => Among(o.utt.chunks, x) \/ Among(NewPiece, x)
  <2>1. Joined(AllPieces(o), o.utt.chunks, NewPiece)  BY <1>3, JoinedConcat DEF AllPieces
  <2>2. QED  BY <2>1, PartsFrom
<1>6. ASSUME NEW x PROVE Among(Fed(o, replay).buf, x) => Among(o.svc.buf, x) \/ Among(Sent(o, replay), x)
  <2>1. Joined(Fed(o, replay).buf, o.svc.buf, Sent(o, replay))  BY <1>3, JoinedConcat
  <2>2. QED  BY <2>1, PartsFrom
<1>7. ASSUME NEW x PROVE Among(Sent(o, replay), x) => Among(NewPiece, x) \/ (replay /\ Among(o.utt.chunks, x))
  BY <1>5 DEF Sent
<1>8. ASSUME NEW x PROVE Among(own'.utt.chunks, x) => Among(own.utt.chunks, x) \/ Among(NewPiece, x)
  <2>1. CASE own.at = "text"
    <3>1. own'.utt.chunks = AllPieces(o)  BY <1>2, <1>3, <2>1 DEF Utterances
    <3>2. QED  BY <1>5, <3>1
  <2>2. CASE own.at = "end"
    <3>1. own'.utt.chunks = << >>  BY <1>2, <2>2, NothingTypes
    <3>2. QED  BY <3>1, NothingAmong
  <2>3. QED  BY <1>1, <2>1, <2>2
<1>9. ASSUME NEW x \in Pieces, Written(x)' PROVE Written(x) \/ (own.at = "text" /\ x = Piece(Me))
  <2>1. Among(own'.svc.buf, x) => Among(own.svc.buf, x) \/ Among(own.utt.chunks, x) \/ Among(NewPiece, x)
    BY <1>2, <1>6, <1>7
  <2>2. Played(x)' => Played(x)  BY <1>2 DEF Played
  <2>3. Rendered(wire', x) => Rendered(wire, x)  BY DEF RenderedLess
  <2>4. \/ Among(own'.utt.chunks, x) \/ Among(own'.svc.buf, x) \/ Rendered(wire', x) \/ Played(x)'
    BY <1>9 DEF Written
  <2>5. QED  BY <1>4, <1>8, <2>1, <2>2, <2>3, <2>4 DEF Written
<1>10. OwedLess /\ \A x : Unwritten(x)' => Others(x)
  <2>1. CASE senders' = Tail(senders)  BY <1>1, <2>1, OwedTail
  <2>2. CASE own'.at = "end" /\ senders' = senders  BY <1>1, <2>2, OwedSame
  <2>3. QED  BY <1>1, <1>2, <2>1, <2>2
<1>11. own.at = "text" => /\ \A x : Others(x) => x # Piece(Me)
                          /\ Piece(Me) \in Pieces /\ Unwritten(Piece(Me))
  <2>1. ASSUME own.at = "text" PROVE Owes(1)  BY <2>1 DEF Owes, Me
  <2>2. Piece(Me) \in Pieces  BY <1>1 DEF Piece, Pieces
  <2>3. ASSUME own.at = "text" PROVE Unwritten(Piece(Me))  BY <1>1, <2>1, <2>3 DEF Unwritten, Me
  <2>4. QED  BY <1>1, <2>1, <2>2, <2>3, OthersLess
<1>12. PiecesOnce'
  <2>1. ASSUME NEW x \in Pieces, Unwritten(x)' PROVE ~Written(x)'
    BY <1>9, <1>10, <1>11, <2>1 DEF OwedLess, OnceInv, PiecesOnce
  <2>2. QED  BY <1>10, <2>1 DEF PiecesOnce, OwedLess
<1>13. PiecesNew'
  <2>1. ASSUME NEW x \in Pieces, Written(x)' \/ Unwritten(x)' PROVE Written(x) \/ Unwritten(x)
    BY <1>9, <1>10, <1>11, <2>1 DEF OwedLess
  <2>2. QED  BY <2>1 DEF OnceInv, PiecesNew, NextPart
<1>14. SlottedText'  BY <1>2 DEF SlottedText
<1>15. ASSUME Met' PROVE CalmOnce'
  <2>1. Met /\ CalmOnce  BY <1>1, <1>2, <1>15, MetWas DEF Told
  <2>2. ASSUME NEW x, Among(NewPiece, x) PROVE ~Played(x)
    <3>1. x \in Pieces /\ Unwritten(x)  BY <1>4, <1>11, <2>2
    <3>2. QED  BY <3>1 DEF OnceInv, PiecesOnce, Written
  <2>3. ~said'.again
    <3>1. SUFFICES ASSUME Repeats(o, replay) PROVE FALSE  BY <1>2, <2>1 DEF CalmOnce
    <3>2. PICK k \in DOMAIN Sent(o, replay) : Played(Sent(o, replay)[k])  BY <3>1 DEF Repeats, Played
    <3> DEFINE x == Sent(o, replay)[k]
    <3>3. Among(Sent(o, replay), x)  BY DEF Among
    <3>4. Played(x)  BY <3>2
    <3> HIDE DEF x
    <3>5. replay /\ Among(o.utt.chunks, x)  BY <1>7, <2>2, <3>3, <3>4
    <3>6. HeardOf(o)  BY <3>4, <3>5 DEF HeardOf, Among
    <3>7. QED  BY <2>1, <3>5, <3>6
  <2>4. HeardServes'
    <3>1. SUFFICES ASSUME HeardOpen' PROVE (own.resp.rid # 0 /\ own.utt.conn = link.n /\ link.ws # "none")
                                           /\ own'.resp = own.resp /\ own'.utt.conn = own.utt.conn
      BY DEF HeardServes
    <3>2. own.at = "text"
      <4>1. own'.utt.turn # 0  BY <3>1 DEF HeardOpen
      <4>2. QED  BY <1>1, <1>2, <4>1, NothingTypes
    <3>3. /\ own'.utt.chunks = AllPieces(o) /\ own'.utt.turn = o.utt.turn
          /\ own'.utt.dead = o.utt.dead /\ own'.utt.conn = o.utt.conn
      BY <1>2, <1>3, <3>2 DEF Utterances
    <3>4. PICK k \in DOMAIN own'.utt.chunks : own'.utt.chunks[k][2] \in said'.parts[own'.utt.chunks[k][1]]
      BY <3>1 DEF HeardOpen, Played
    <3> DEFINE x == AllPieces(o)[k]
    <3>5. Among(AllPieces(o), x)  BY <3>3, <3>4 DEF Among
    <3>6. Played(x)  BY <1>2, <3>3, <3>4 DEF Played
    <3> HIDE DEF x
    <3>7. Among(o.utt.chunks, x)  BY <1>5, <2>2, <3>5, <3>6
    <3>8. HeardOf(o)  BY <3>6, <3>7 DEF HeardOf, Among
    <3>9. o.utt = own.utt /\ o.resp = own.resp  BY <2>1, <3>8
    <3>10. own.utt.turn # 0 /\ ~own.utt.dead  BY <3>1, <3>3, <3>9 DEF HeardOpen
    <3>11. HeardOpen  BY <3>8, <3>9, <3>10 DEF HeardOpen, HeardOf
    <3>12. QED  BY <1>2, <2>1, <3>3, <3>9, <3>11 DEF CalmOnce, HeardServes
  <2>5. SlotAwaited'  BY <1>2 DEF SlotAwaited
  <2>6. QED  BY <2>3, <2>4, <2>5 DEF CalmOnce
<1>16. QED  BY <1>12, <1>13, <1>14, <1>15 DEF OnceInv

LEMMA OnceTakes ==
    ASSUME TypeInv, tts = "kalpa", ApartInv, OnceInv, Holding, own.slot.idle, Connected, TakesSlot(own),
           UNCHANGED <<tts, pipe, link>>, own.at = "text" => Me.text,
           Met => ~(own.utt.dead /\ own.utt.turn = Me.turn)
    PROVE  OnceInv'
<1>1. CASE own' = [Retaken(own) EXCEPT !.slotted = FALSE] /\ UNCHANGED <<base, senders, said, wire>>
  BY <1>1, OnceRetakes
<1>2. CASE /\ Writes(Taken(own), Mine(own).chunks # << >>)
           /\ wire' = wire \o (IF Wipes(own) THEN CancelOutput(Retaken(own), FALSE) ELSE << >>)
  <2> DEFINE o == Taken(own)
             replay == Mine(own).chunks # << >>
             no == FALSE
             t == Me.turn
  <2>1. /\ own \in KalpaOwns /\ t \in 0..MaxTurn /\ t # 0 /\ link.n \in Nat
        /\ wire \in Seq(Messages) /\ KalpaTurns(own) \subseteq Flying /\ own.utt \in Utterances
        /\ own.utt.chunks \in Seq(Pieces) /\ (Met => CalmParts /\ CalmOnce)
    <3>1. Me.turn \in Turns /\ MaxTurn \in Nat /\ Me.turn # 0  BY MeType, SynthesizerAssumption
    <3>2. own.utt \in Utterances /\ KalpaTurns(own) \subseteq Flying  BY KalpaOwnType, KalpaType
    <3>3. QED  BY <3>1, <3>2, OnceParts DEF Turns
  <2>2. /\ o \in KalpaOwns /\ o.utt = [Mine(own) EXCEPT !.conn = link.n]
        /\ o.crossed = own.crossed /\ KalpaTurns(o) \subseteq Flying
        /\ o.svc = (IF Wipes(own) THEN NoService ELSE own.svc)
    BY <2>1, TakenType
  <2>3. Writes(o, replay) /\ replay \in BOOLEAN /\ no \in BOOLEAN
        /\ wire' = wire \o (IF Wipes(own) THEN CancelOutput(Retaken(own), no) ELSE << >>)
    BY <1>2
  <2>4. /\ Mine(own) \in Utterances /\ Mine(own).chunks \in {<< >>, own.utt.chunks}
        /\ own.utt.turn # t => Mine(own).chunks = << >>
    BY <2>1, MineType
  <2>5. Retaken(own) \in KalpaOwns  BY <2>1, RetakenType
  <2> HIDE DEF o, replay, no
  <2>6. o.utt.chunks = Mine(own).chunks  BY <2>2, <2>4 DEF Utterances
  <2>7. \A x : Among(o.utt.chunks, x) => Among(own.utt.chunks, x)  BY <2>4, <2>6, NothingAmong
  <2>8. \A x : Among(o.svc.buf, x) => Among(own.svc.buf, x)  BY <2>2, NothingAmong, NothingTypes
  <2>9. RenderedLess
    <3>1. CASE Wipes(own)  BY <2>1, <2>3, <2>5, <3>1, CancelSilent
    <3>2. CASE ~Wipes(own)
      <4>1. wire \o << >> = wire  BY <2>1
      <4>2. wire' = wire  BY <2>3, <3>2, <4>1
      <4>3. QED  BY <4>2 DEF RenderedLess
    <3>3. QED  BY <3>1, <3>2
  <2>10. Met => ~HeardOf(o)
    <3>1. SUFFICES ASSUME Met, HeardOf(o) PROVE FALSE  OBVIOUS
    <3>2. Mine(own).chunks # << >>
      <4>1. PICK k \in DOMAIN o.utt.chunks : Played(o.utt.chunks[k])  BY <3>1 DEF HeardOf
      <4>2. DOMAIN << >> = {}  OBVIOUS
      <4>3. QED  BY <2>6, <4>1, <4>2
    <3>3. own.utt.turn = t /\ o.utt.chunks = own.utt.chunks  BY <2>4, <2>6, <3>2
    <3>4. own.utt.turn # 0 /\ ~own.utt.dead  BY <2>1, <3>1, <3>3
    <3>5. HeardOpen  BY <3>1, <3>3, <3>4 DEF HeardOpen, HeardOf
    <3>6. Open  BY <2>1, <3>1, <3>4, <3>5 DEF CalmOnce, HeardServes, Open
    <3>7. QED  BY <2>1, <3>1, <3>6 DEF CalmParts, OpenUtterance
  <2>11. own.crossed => o.crossed  BY <2>2
  <2>12. QED  BY <2>2, <2>3, <2>7, <2>8, <2>9, <2>10, <2>11, OnceWrites
<1>3. QED  BY <1>1, <1>2, TakesSlotForm

LEMMA OnceSends ==
    ASSUME TypeInv, tts = "kalpa", ApartInv, OnceInv, KalpaSends
    PROVE  OnceInv'
<1>1. /\ own \in KalpaOwns /\ KalpaTurns(own) \subseteq Flying /\ (Met => CalmParts)
      /\ wire \in Seq(Messages) /\ own.at \in {"text", "end"}
  BY OnceParts, KalpaOwnType
<1>2. Holding /\ ~own.slotted /\ UNCHANGED <<tts, pipe, link>>  BY KalpaSendsCases
<1>3. CASE LetsGo(own) /\ UNCHANGED <<base, said, wire>>  BY <1>1, <1>2, <1>3, OnceLeaves
<1>4. CASE Skips /\ UNCHANGED <<base, said, wire>>  BY <1>2, <1>4, OnceSkips
<1>5. ASSUME ~(own.at = "text" /\ (~Me.text \/ DeadOne)),
             ~(own.at = "end" /\ (own.utt.turn # Me.turn \/ DeadOne)),
             \/ OpenNow /\ Writes(own, FALSE) /\ UNCHANGED wire
             \/ ~OpenNow /\ Connected /\ Opens
      PROVE  OnceInv'
  <2>1. (own.at = "text" => Me.text) /\ ~DeadOne  BY <1>1, <1>5
  <2>2. CASE Writes(own, FALSE) /\ UNCHANGED wire
    <3> DEFINE no == FALSE
    <3>1. Writes(own, no) /\ no \in BOOLEAN /\ ~no  BY <2>2
    <3> HIDE DEF no
    <3>2. RenderedLess  BY <2>2 DEF RenderedLess
    <3>3. QED  BY <1>1, <1>2, <2>1, <3>1, <3>2, OnceWrites
  <2>3. CASE ~OpenNow /\ Connected /\ Opens
    <3>1. CASE own.slot.idle /\ TakesSlot(own)
      BY <1>2, <2>1, <2>3, <3>1, OnceTakes DEF DeadOne
    <3>2. CASE own.utt.dead /\ Cancels /\ UNCHANGED <<base, senders, said>>
      <4>1. own.utt.turn # Me.turn  BY <2>1, <3>2 DEF DeadOne
      <4>2. QED  BY <1>2, <2>1, <3>2, <4>1, OnceCancels
    <3>3. CASE /\ ~own.slot.idle /\ own' = [own EXCEPT !.slotted = TRUE]
               /\ UNCHANGED <<wire, base, senders, said>>
      <4>1. Shorter(wire', wire)  BY <1>1, <3>3, ShorterWires
      <4>2. ASSUME Met PROVE own.utt.turn # Me.turn
        <5>1. SlotUtterance  BY <1>1, <4>2 DEF CalmParts
        <5>2. Me.turn # 0  BY <1>2, MeType
        <5>3. QED  BY <2>3, <3>3, <5>1, <5>2 DEF SlotUtterance, OpenNow
      <4>3. QED  BY <1>2, <2>1, <3>3, <4>1, <4>2, OnceSlotted
    <3>4. QED  BY <2>3, <3>1, <3>2, <3>3 DEF Opens
  <2>4. QED  BY <1>5, <2>2, <2>3
<1>6. QED  BY <1>3, <1>4, <1>5, KalpaSendsCases

LEMMA OnceSlotFree ==
    ASSUME TypeInv, tts = "kalpa", ApartInv, OnceInv, SlotFree
    PROVE  OnceInv'
<1>1. own \in KalpaOwns /\ wire \in Seq(Messages) /\ SlottedText /\ (Met => CalmOnce)  BY OnceParts
<1>2. Holding /\ own.slotted /\ own.slot.idle /\ UNCHANGED <<tts, pipe, link>>  BY DEF SlotFree
<1>3. CASE Retired(Me)
  <2>1. LetsGo(own) /\ UNCHANGED <<base, said, wire>>  BY <1>3 DEF SlotFree
  <2>2. QED  BY <1>1, <1>2, <2>1, OnceLeaves
<1>4. CASE ~Retired(Me) /\ ~Connected
  <2>1. own' = [own EXCEPT !.slotted = FALSE] /\ UNCHANGED <<base, senders, said, wire>>
    BY <1>4 DEF SlotFree
  <2>2. Shorter(wire', wire)  BY <1>1, <2>1, ShorterWires
  <2>3. QED  BY <1>2, <2>1, <2>2, OnceSlotted
<1>5. CASE ~Retired(Me) /\ Connected
  <2>1. TakesSlot(own)  BY <1>5 DEF SlotFree
  <2>2. own.at = "text" => Me.text  BY <1>1, <1>2 DEF SlottedText
  <2>3. Met => own.utt.turn # Me.turn  BY <1>1, <1>2 DEF CalmOnce, SlotAwaited
  <2>4. QED  BY <1>2, <1>5, <2>1, <2>2, <2>3, OnceTakes
<1>6. QED  BY <1>3, <1>4, <1>5

---------------------------------------------------------------------------
\* The senders stay where they are: an interruption, the service, the receiver.

LEMMA OnceGoes ==
    ASSUME TypeInv, tts = "kalpa", ApartInv, OnceInv, UNCHANGED <<tts, senders>>,
           own'.at = own.at, own'.slotted = own.slotted, own'.utt.turn \in {0, own.utt.turn},
           WrittenLess, pipe'.turn = pipe.turn, pipe'.left \in {0, pipe.left}, Told' => Told,
           own.crossed => own'.crossed, link.unmet => link'.unmet,
           Met /\ Met' /\ CalmParts /\ CalmOnce => HeardServes' /\ (said'.again => said.again)
    PROVE  OnceInv'
<1>1. /\ OwedOnce /\ SlottedText /\ (Met => CalmParts /\ CalmOnce) /\ (own.slotted => Me.turn # 0)
  BY OnceParts
<1>2. Me' = Me  BY DEF Me
<1>3. (SlottedText => SlottedText') /\ (SlotAwaited => SlotAwaited')  BY <1>1, <1>2, SlotStill
<1>4. OwedLess  BY <1>1, OwedSame
<1>5. ASSUME Met' PROVE Met /\ HeardServes' /\ SlotAwaited' /\ (said'.again => said.again)
  <2>1. Met  BY <1>5, MetWas
  <2>2. CalmParts /\ CalmOnce  BY <1>1, <2>1
  <2>3. SlotAwaited  BY <2>2 DEF CalmOnce
  <2>4. QED  BY <1>3, <1>5, <2>1, <2>2, <2>3
<1>6. QED  BY <1>1, <1>3, <1>4, <1>5, OnceStill

LEMMA OnceInterrupt ==
    ASSUME TypeInv, ApartInv, OnceInv, KalpaInterrupt
    PROVE  OnceInv'
<1>1. tts = "kalpa"  BY DEF KalpaInterrupt
<1>2. /\ own \in KalpaOwns /\ wire \in Seq(Messages) /\ CutFlush \in BOOLEAN /\ pipe \in Calling
  BY <1>1, OnceParts DEF TypeInv, CutFlush
<1>3. /\ own'.utt = NoUtterance /\ own'.at = own.at /\ own'.slotted = own.slotted
      /\ own'.crossed \/ ~own.crossed
  BY KalpaInterruptStep
<1>4. /\ CutOwn \in KalpaOwns /\ UNCHANGED <<tts, link, senders, said>> /\ pipe' = CutPipe
      /\ link.ws = "open" => own'.svc = NoService /\ wire' = wire \o CancelOutput(CutOwn, CutFlush)
      /\ link.ws # "open" => own'.svc = own.svc /\ wire' = wire
  BY InterruptOwn
<1>5. pipe'.turn = pipe.turn /\ pipe'.left = 0 /\ pipe'.silent = pipe.silent
  BY <1>2, <1>4 DEF CutPipe, Calling
<1>6. RenderedLess
  <2>1. CASE link.ws = "open"  BY <1>2, <1>4, <2>1, CancelSilent
  <2>2. CASE link.ws # "open"  BY <1>4, <2>2 DEF RenderedLess
  <2>3. QED  BY <2>1, <2>2
<1>7. /\ own'.svc.buf \in {<< >>, own.svc.buf} /\ own'.utt.chunks = << >> /\ own'.utt.turn = 0
  BY <1>3, <1>4, NothingTypes
<1>8. PlayedLess  BY <1>4 DEF PlayedLess, Played
<1>9. WrittenLess  BY <1>6, <1>7, <1>8, WrittenStill
<1>10. HeardServes'  BY <1>7 DEF HeardServes, HeardOpen
<1>11. QED  BY <1>1, <1>3, <1>4, <1>5, <1>7, <1>9, <1>10, OnceGoes DEF Told

\* The service renders: it says r, and v is left of what it has.
LEMMA OnceServes ==
    ASSUME TypeInv, ApartInv, OnceInv, tts = "kalpa", NEW STATE v, NEW STATE r, NEW n, Serves(v, n, r),
           r \in Seq(Messages), link'.ws = link.ws, link'.n = link.n, link'.unmet = link.unmet,
           \A x : Rendered(r, x) \/ Among(v.buf, x) => Among(own.svc.buf, x)
    PROVE  OnceInv'
<1>1. /\ own' = [own EXCEPT !.svc = v, !.made = n] /\ wire' = wire \o r
      /\ UNCHANGED <<tts, pipe, senders, said>>
  BY DEF Serves
<1>2. own \in KalpaOwns /\ wire \in Seq(Messages) /\ own.utt.chunks \in Seq(Pieces)  BY OnceParts
<1>3. /\ own'.svc = v /\ own'.utt = own.utt /\ own'.resp = own.resp /\ own'.at = own.at
      /\ own'.slotted = own.slotted /\ own'.crossed = own.crossed
  BY <1>1, <1>2 DEF KalpaOwns
<1>4. Joined(wire', wire, r)  BY <1>1, <1>2, JoinedConcat
<1>5. \A x : Rendered(wire', x) => Rendered(wire, x) \/ Rendered(r, x)  BY <1>4, PartsFrom
<1>6. WrittenLess  BY <1>1, <1>3, <1>5 DEF WrittenLess, Written, Played
<1>7. PlayedLess  BY <1>1 DEF PlayedLess, Played
<1>8. CalmOnce => HeardServes'  BY <1>2, <1>3, <1>7, HeardStill DEF CalmOnce
<1>9. QED  BY <1>1, <1>3, <1>6, <1>8, OnceGoes DEF Told

LEMMA OnceRender ==
    ASSUME TypeInv, ApartInv, OnceInv, Render
    PROVE  OnceInv'
<1>1. /\ tts = "kalpa" /\ link'.ws = link.ws /\ link'.n = link.n
      /\ link'.unmet = link.unmet
  BY DEF Render, OnKalpa
<1>2. /\ own.svc \in Services /\ own.svc.buf \in Seq(Pieces) /\ own.made \in Nat
      /\ own.made + 1 \in Nat /\ own.svc.resp \in Nat
  BY <1>1, KalpaOwnType, KalpaType, KalpaParts
<1> DEFINE v == own.svc
           m == own.made + 1
           yes == TRUE
<1>3. CASE Serves([v EXCEPT !.resp = m], m, <<Created(m)>>)
  <2> DEFINE u == [v EXCEPT !.resp = m]
             y == Created(m)
  <2>1. m \in Nat  BY <1>2
  <2>2. u.buf = v.buf  BY <1>2 DEF Services
  <2> HIDE DEF m
  <2>3. y \in Messages /\ y.kind # "audio"  BY <2>1, ServiceTypes
  <2>4. Serves(u, m, <<y>>)  BY <1>3
  <2> HIDE DEF u, y
  <2>5. <<y>> \in Seq(Messages) /\ \A x : ~Rendered(<<y>>, x)  BY <2>3 DEF Rendered
  <2>6. QED  BY <1>1, <2>2, <2>4, <2>5, OnceServes
<1>4. CASE /\ v.resp # 0 /\ v.buf # << >>
           /\ Serves([v EXCEPT !.buf = Tail(v.buf)], own.made,
                     <<Audio(Head(v.buf)[1], Head(v.buf)[2], v.resp)>>)
  <2> DEFINE q == Tail(v.buf)
             u == [v EXCEPT !.buf = q]
             h == Head(v.buf)
             y == Audio(h[1], h[2], v.resp)
  <2>1. h \in Pieces /\ h[1] \in Turns /\ h[2] \in Parts  BY <1>2, <1>4, TurnsOfTail, PieceType
  <2>2. y \in Messages /\ y.turn = h[1] /\ y.part = h[2]  BY <1>2, <2>1, AudioType DEF Audio
  <2>3. Serves(u, own.made, <<y>>) /\ u.buf = q  BY <1>2, <1>4 DEF Services
  <2>4. <<h[1], h[2]>> = h  BY <2>1 DEF Pieces
  <2>5. \A k \in DOMAIN q : k + 1 \in DOMAIN v.buf /\ q[k] = v.buf[k + 1]
    BY <1>2, <1>4, HeadTailProperties, LenProperties
  <2>6. 1 \in DOMAIN v.buf /\ h = v.buf[1]  BY <1>2, <1>4, HeadTailProperties, LenProperties, EmptySeq
  <2> HIDE DEF q, u, h, y
  <2>7. <<y>> \in Seq(Messages)  BY <2>2
  <2>8. \A x : Rendered(<<y>>, x) => x = h  BY <2>2, <2>4 DEF Rendered
  <2>9. \A x : Rendered(<<y>>, x) \/ Among(u.buf, x) => Among(v.buf, x)
    BY <2>3, <2>5, <2>6, <2>8 DEF Among
  <2>10. QED  BY <1>1, <2>3, <2>7, <2>9, OnceServes
<1>5. CASE Serves(NoService, own.made, <<Done(v.resp, TRUE)>>)
  <2> DEFINE y == Done(v.resp, yes)
  <2>1. yes \in BOOLEAN /\ yes /\ Serves(NoService, own.made, <<y>>)  BY <1>5
  <2> HIDE DEF yes
  <2>2. y \in Messages /\ y.kind # "audio"  BY <1>2, <2>1, ServiceTypes
  <2> HIDE DEF y
  <2>3. <<y>> \in Seq(Messages) /\ \A x : ~Rendered(<<y>>, x)  BY <2>2 DEF Rendered
  <2>4. \A x : ~Among(NoService.buf, x)  BY NothingTypes, NothingAmong
  <2>5. QED  BY <1>1, <2>1, <2>3, <2>4, OnceServes
<1>6. QED  BY <1>3, <1>4, <1>5 DEF Render

LEMMA OnceFails ==
    ASSUME TypeInv, ApartInv, OnceInv, ServiceFails
    PROVE  OnceInv'
<1> DEFINE y == Failed(own.svc.resp)
           yes == TRUE
<1>1. /\ tts = "kalpa" /\ Serves(NoService, own.made, <<y>>) /\ yes \in BOOLEAN
      /\ link' = [link EXCEPT !.lost = @ + 1]
  BY DEF ServiceFails, OnKalpa
<1> HIDE DEF yes
<1>2. own.svc.resp \in Nat  BY <1>1, KalpaOwnType, KalpaParts
<1>3. y \in Messages /\ y.kind # "audio"  BY <1>1, <1>2, ServiceTypes
<1> HIDE DEF y
<1>4. <<y>> \in Seq(Messages) /\ \A x : ~Rendered(<<y>>, x)  BY <1>3 DEF Rendered
<1>5. \A x : ~Among(NoService.buf, x)  BY NothingTypes, NothingAmong
<1>6. link'.ws = link.ws /\ link'.n = link.n /\ link'.unmet = link.unmet
  BY <1>1 DEF TypeInv, Sockets
<1>7. QED  BY <1>1, <1>4, <1>5, <1>6, OnceServes
---------------------------------------------------------------------------
\* The receiver reads, meets the end of the socket, and there is a new one.

LEMMA OnceReceive ==
    ASSUME TypeInv, ApartInv, OnceInv, NEW more, KalpaReceive(more)
    PROVE  OnceInv'
<1>0. /\ tts = "kalpa" /\ wire # << >> /\ Read(more) /\ link.ws \in {"open", "closing", "dying"}
      /\ UNCHANGED <<tts, link, senders>>
  BY KalpaHears
<1>1. /\ own \in KalpaOwns /\ own.utt.dead \in BOOLEAN /\ own.utt \in Utterances /\ Hd \in Messages
      /\ Hd.ctx \in Nat /\ Sound(wire) /\ own.utt.chunks \in Seq(Pieces) /\ said \in Verdicts
  BY <1>0, KalpaOwnType, KalpaType, KalpaParts, ReadWire DEF ApartInv, KeepInv, TypeInv
<1>2. Shorter(wire', wire) /\ 1 \in DOMAIN wire /\ Hd = wire[1]  BY <1>0, ReadParts
<1>3. /\ pipe'.turn = pipe.turn /\ pipe'.left \in {0, pipe.left} /\ (Told' => Told)
  BY KalpaReceiveStep DEF Onward, SameCall, Told
<1>4. Hd.kind \in Settling \cup {"created", "audio"} /\ (Hd.kind # "error" => Hd.ctx # 0)
  BY <1>1, <1>2 DEF Sound
<1>5. RenderedLess  BY <1>2, PartsFrom DEF RenderedLess
<1> DEFINE e == own.utt.dead \/ own.utt.turn # 0
\* Nothing but audio is played, or nothing at all.
<1>6. ASSUME own'.at = own.at, own'.slotted = own.slotted,
             own'.utt.turn = own.utt.turn, own'.utt.chunks = own.utt.chunks,
             own'.svc = own.svc, own'.crossed = own.crossed, PlayedLess,
             Met /\ CalmParts /\ CalmOnce => HeardServes' /\ (said'.again => said.again)
      PROVE  OnceInv'
  <2>1. WrittenLess  BY <1>5, <1>6, WrittenStill
  <2>2. QED  BY <1>0, <1>3, <1>6, <2>1, OnceGoes
<1>7. ASSUME UNCHANGED said PROVE PlayedLess  BY <1>7 DEF PlayedLess, Played
\* A response is over, and its utterance with it.
<1>8. ASSUME NEW STATE d, d \in BOOLEAN, own' = Past(d) \/ own' = Settled(Past(d)),
             own.utt.dead => d, EndsHeard(said, said'),
             Met /\ CalmParts /\ HeardServes /\ HeardOpen => d
      PROVE  OnceInv'
  <2>1. /\ Past(d) \in KalpaOwns
        /\ Past(d).utt = [own.utt EXCEPT !.dead = d] /\ Past(d).at = own.at
        /\ Past(d).slotted = own.slotted /\ Past(d).svc = own.svc /\ Past(d).crossed = own.crossed
    BY <1>1, <1>8, PastType
  <2>2. /\ own'.utt = [own.utt EXCEPT !.dead = d] /\ own'.at = own.at
        /\ own'.slotted = own.slotted /\ own'.svc = own.svc /\ own'.crossed = own.crossed
    BY <1>8, <2>1, SettledType
  <2>3. /\ own'.utt.turn = own.utt.turn /\ own'.utt.chunks = own.utt.chunks /\ own'.utt.dead = d
    BY <1>1, <1>8, <2>2, UtteranceDead
  <2>4. \A x \in Pieces : x[2] \in said'.parts[x[1]] => x[2] \in said.parts[x[1]]
    BY <1>8, PieceType DEF EndsHeard
  <2>5. PlayedLess  BY <2>4 DEF PlayedLess, Played
  <2>6. \A k \in DOMAIN own.utt.chunks : own.utt.chunks[k] \in Pieces  BY <1>1
  <2>7. HeardOpen' => HeardOpen /\ ~d  BY <1>8, <2>3, <2>4, <2>6 DEF HeardOpen, Played
  <2>8. Met /\ CalmParts /\ CalmOnce => HeardServes'
    BY <1>8, <2>7 DEF CalmOnce, HeardServes
  <2>9. said'.again => said.again  BY <1>8 DEF EndsHeard
  <2>10. QED  BY <1>6, <2>2, <2>3, <2>5, <2>8, <2>9
<1>9. EndsHeard(said, said)  BY DEF EndsHeard
<1>10. CASE own' = own /\ Yield(<< >>)
  <2>1. said' = said  BY <1>10, YieldNothing
  <2>2. HeardServes => HeardServes'
    BY <1>0, <1>10, <2>1 DEF HeardServes, HeardOpen, Played
  <2>3. QED  BY <1>6, <1>7, <1>10, <2>1, <2>2 DEF CalmOnce
<1>11. CASE /\ Hd.kind = "created" /\ Yield(<< >>)
            /\ own' = [own EXCEPT !.resp = [rid |-> Hd.ctx, serves |-> ~own.slot.idle]]
  <2>1. said' = said  BY <1>11, YieldNothing
  <2>2. /\ own'.resp.rid = Hd.ctx /\ own'.at = own.at /\ own'.slotted = own.slotted
        /\ own'.utt = own.utt /\ own'.svc = own.svc /\ own'.crossed = own.crossed
    BY <1>1, <1>11, BegunType
  <2>3. HeardServes => HeardServes'  BY <1>0, <1>1, <1>4, <1>7, <1>11, <2>1, <2>2, HeardStill
  <2>4. QED  BY <1>6, <1>7, <2>1, <2>2, <2>3 DEF CalmOnce
<1>12. CASE Hd.kind = "audio" /\ Audible(Hd) /\ own' = own /\ Yield(<<Hd>>)
  <2>1. said' = said \/ Wrongs(said, said', Label(base), Hd)  BY <1>1, <1>12, YieldFrame
  <2>2. ASSUME NEW x \in Pieces, Played(x)' PROVE Played(x) \/ Rendered(wire, x)
    <3>1. x[1] \in Turns /\ x = <<x[1], x[2]>>  BY PieceType DEF Pieces
    <3>2. Played(x) \/ (x[1] = Hd.turn /\ x[2] = Hd.part)  BY <2>1, <2>2, <3>1 DEF Played, Wrongs
    <3>3. x[1] = Hd.turn /\ x[2] = Hd.part => Rendered(wire, x)
      BY <1>2, <1>12, <3>1 DEF Rendered
    <3>4. QED  BY <3>2, <3>3
  <2>3. WrittenLess  BY <1>5, <1>12, <2>2 DEF WrittenLess, Written, RenderedLess
  <2>4. ASSUME CalmParts, CalmOnce PROVE HeardServes' /\ (said'.again => said.again)
    <3>1. ~own.slot.idle /\ SlotUtterance  BY <1>0, <2>4 DEF CalmParts, SlotEmpty
    <3>2. own.resp.rid # 0  BY <1>4, <1>12 DEF Audible
    <3>3. own.utt.turn # 0 => own.utt.conn = link.n  BY <3>1 DEF SlotUtterance
    <3>4. HeardServes'  BY <1>0, <1>12, <3>2, <3>3 DEF HeardServes, HeardOpen
    <3>5. said'.again => said.again  BY <2>1 DEF Wrongs
    <3>6. QED  BY <3>4, <3>5
  <2>5. QED  BY <1>0, <1>3, <1>12, <2>3, <2>4, OnceGoes
<1>13. CASE /\ Hd.kind \notin {"created", "audio", "error"} /\ own' = Settled(Past(own.utt.dead))
            /\ Yield(Settles(Past(own.utt.dead), Hd.kind = "done"))
  <2>1. Hd.kind \in {"done", "cancelled"}  BY <1>4, <1>13 DEF Settling
  <2>2. Past(own.utt.dead) \in KalpaOwns /\ Past(own.utt.dead).slot = own.slot  BY <1>1, PastType
  <2>3. EndsHeard(said, said')  BY <1>13, <2>2, SettlesSaid
  <2>4. ASSUME CalmParts, HeardServes, HeardOpen PROVE FALSE
    <3>1. ~Unanswered(wire)  BY <1>2, <2>1 DEF Unanswered
    <3>2. Open  BY <2>4 DEF HeardServes, HeardOpen, Open
    <3>3. QED  BY <2>4, <3>1, <3>2 DEF CalmParts, OpenUtterance
  <2>5. QED  BY <1>1, <1>8, <1>13, <2>3, <2>4
<1>14. CASE /\ Hd.kind \notin {"created", "audio", "error"} /\ Hd.ctx = own.resp.rid
            /\ ~own.resp.serves /\ own' = Past(own.utt.dead) /\ Yield(<< >>)
  <2>1. CalmParts => FALSE  BY <1>4, <1>14 DEF CalmParts, Serving
  <2>2. said' = said  BY <1>14, YieldNothing
  <2>3. QED  BY <1>1, <1>8, <1>9, <1>14, <2>1, <2>2
<1>15. e \in BOOLEAN /\ (e <=> own.utt.dead \/ own.utt.turn # 0)  OBVIOUS
<1>16. CASE own' = Past(e) /\ Yield(<< >>)
  <2> HIDE DEF e
  <2>1. said' = said  BY <1>16, YieldNothing
  <2>2. HeardOpen => e  BY <1>15 DEF HeardOpen
  <2>3. QED  BY <1>8, <1>9, <1>15, <1>16, <2>1, <2>2
<1>17. CASE own' = Settled(Past(e)) /\ Yield(Settles(Past(e), TRUE))
  <2> HIDE DEF e
  <2>1. Past(e) \in KalpaOwns /\ Past(e).slot = own.slot  BY <1>1, <1>15, PastType
  <2>2. EndsHeard(said, said')  BY <1>17, <2>1, SettlesSaid
  <2>3. HeardOpen => e  BY <1>15 DEF HeardOpen
  <2>4. QED  BY <1>8, <1>15, <1>17, <2>2, <2>3
<1>18. QED  BY <1>10, <1>11, <1>12, <1>13, <1>14, <1>16, <1>17, KalpaHears

LEMMA OnceMeetsEnd ==
    ASSUME TypeInv, ApartInv, OnceInv, KalpaMeetsEnd
    PROVE  OnceInv'
<1> DEFINE d == own.utt.dead \/ (~own.slot.idle /\ HeardInPart)
           emit == ~own.slot.idle /\ (own.utt.turn = 0 \/ HeardInPart)
<1>1. /\ tts = "kalpa" /\ link' = [link EXCEPT !.ws = "none"]
      /\ UNCHANGED <<tts, senders, wire>> /\ own' = Settled(Lost(d)) /\ Yield(Settles(own, emit))
  BY KalpaLoses
<1>2. /\ own \in KalpaOwns /\ own.utt.dead \in BOOLEAN /\ own.utt \in Utterances
      /\ own.utt.chunks \in Seq(Pieces)
  BY <1>1, KalpaOwnType, KalpaParts, KalpaType
<1>3. d \in BOOLEAN /\ (own.utt.dead => d)  BY <1>2
<1>4. /\ pipe'.turn = pipe.turn /\ pipe'.left \in {0, pipe.left} /\ (Told' => Told)
      /\ link'.unmet = link.unmet
  BY <1>1, KalpaMeetsEndStep DEF Onward, SameCall, Told, TypeInv, Sockets
<1>5. ASSUME CalmParts, HeardServes, HeardOpen PROVE d
  <2>1. Open /\ own.resp.rid # 0  BY <1>5 DEF HeardServes, HeardOpen, Open
  <2>2. ~own.slot.idle /\ own.resp.serves  BY <1>5, <2>1 DEF CalmParts, OpenUtterance, Serving
  <2>3. QED  BY <1>5, <2>1, <2>2 DEF HeardInPart, HeardOpen
<1> HIDE DEF d
<1>6. /\ Lost(d) \in KalpaOwns /\ Lost(d).utt = [own.utt EXCEPT !.dead = d] /\ Lost(d).svc = NoService
      /\ Lost(d).at = own.at /\ Lost(d).slotted = own.slotted /\ Lost(d).crossed = own.crossed
  BY <1>2, <1>3, LostType
<1>7. /\ own'.utt = [own.utt EXCEPT !.dead = d] /\ own'.svc = NoService
      /\ own'.at = own.at /\ own'.slotted = own.slotted /\ own'.crossed = own.crossed
  BY <1>1, <1>6, SettledType
<1>8. own'.utt.turn = own.utt.turn /\ own'.utt.chunks = own.utt.chunks /\ own'.utt.dead = d
  BY <1>2, <1>3, <1>7, UtteranceDead
<1> HIDE DEF emit
<1>9. EndsHeard(said, said')  BY <1>1, <1>2, SettlesSaid
<1>10. \A x \in Pieces : x[2] \in said'.parts[x[1]] => x[2] \in said.parts[x[1]]
  BY <1>9, PieceType DEF EndsHeard
<1>11. PlayedLess /\ RenderedLess  BY <1>1, <1>10 DEF PlayedLess, Played, RenderedLess
<1>12. WrittenLess  BY <1>7, <1>8, <1>11, NothingTypes, WrittenStill
<1>13. \A k \in DOMAIN own.utt.chunks : own.utt.chunks[k] \in Pieces  BY <1>2
<1>14. HeardOpen' => HeardOpen /\ ~d  BY <1>3, <1>8, <1>10, <1>13 DEF HeardOpen, Played
<1>15. CalmParts /\ CalmOnce => HeardServes' /\ (said'.again => said.again)
  BY <1>5, <1>9, <1>14 DEF CalmOnce, HeardServes, EndsHeard
<1>16. QED  BY <1>1, <1>4, <1>7, <1>8, <1>12, <1>15, OnceGoes

LEMMA OnceDial ==
    ASSUME TypeInv, ApartInv, OnceInv, KalpaDial
    PROVE  OnceInv'
<1>1. /\ tts = "kalpa" /\ UNCHANGED <<tts, pipe, senders, said>>
      /\ \/ own' = Redialled /\ wire' = << >>
         \/ UNCHANGED <<own, wire>>
      /\ link.unmet => link'.unmet
      /\ link.ws = "none" \/ link'.unmet \/ (UNCHANGED own /\ link'.ws = link.ws /\ link'.n = link.n)
  BY DEF KalpaDial, Dial, Down, LossSettlers, Redialled, TypeInv, Sockets
<1>2. own \in KalpaOwns  BY <1>1, KalpaOwnType
<1>3. /\ Redialled.svc = NoService /\ Redialled.utt = own.utt /\ Redialled.at = own.at
      /\ Redialled.slotted = own.slotted /\ Redialled.crossed = own.crossed
  BY <1>2, RedialledType
<1>4. /\ own'.utt = own.utt /\ own'.at = own.at /\ own'.slotted = own.slotted
      /\ own'.crossed = own.crossed /\ own'.svc.buf \in {<< >>, own.svc.buf}
  BY <1>1, <1>3, NothingTypes
<1>5. PlayedLess  BY <1>1 DEF PlayedLess, Played
<1>6. RenderedLess  BY <1>1, NothingAmong DEF RenderedLess
<1>7. WrittenLess  BY <1>4, <1>5, <1>6, WrittenStill
<1>8. HeardServes /\ Met' => HeardServes'
  BY <1>1, <1>4 DEF HeardServes, HeardOpen, Played, Met
<1>9. QED  BY <1>1, <1>4, <1>7, <1>8, OnceGoes DEF Told, CalmOnce

\* The socket is lost, the call is over or nothing happens.
LEMMA OnceLose ==
    ASSUME TypeInv, ApartInv, OnceInv, tts = "kalpa", GivesUp \/ Lose \/ UNCHANGED synVars
    PROVE  OnceInv'
<1>1. /\ UNCHANGED <<tts, base, senders, own, said>> /\ wire \in Seq(Messages) /\ link \in Sockets
      /\ pipe'.turn = pipe.turn /\ pipe'.left \in {0, pipe.left} /\ pipe'.silent = pipe.silent
  BY DEF GivesUp, Lose, synVars, TypeInv, Calling
<1>2. /\ Shorter(wire', wire) /\ link'.n = link.n /\ link'.unmet = link.unmet
      /\ link'.ws = link.ws \/ link'.ws # "none"
  <2>1. CASE GivesUp \/ UNCHANGED synVars
    BY <1>1, <2>1, ShorterWires DEF GivesUp, synVars
  <2>2. CASE Lose
    <3>1. CASE /\ link.ws = "open" /\ link' = [link EXCEPT !.ws = "closing", !.lost = @ + 1]
               /\ wire' \in Prefixes(wire)
      BY <1>1, <2>2, <3>1, ShorterWires DEF Lose, Sockets
    <3>2. CASE /\ link.ws = "closing" /\ wire' = << >>
               /\ link' = [link EXCEPT !.ws = "closed", !.lost = IF @ = 0 THEN 1 ELSE @]
      BY <1>1, <2>2, <3>2, ShorterWires DEF Lose, Sockets
    <3>3. QED  BY <2>2, <3>1, <3>2 DEF Lose
  <2>3. QED  BY <2>1, <2>2
<1>3. own.utt.chunks \in Seq(Pieces)  BY OnceParts
<1>4. PlayedLess /\ RenderedLess  BY <1>1, <1>2, PartsFrom DEF PlayedLess, Played, RenderedLess
<1>5. WrittenLess  BY <1>1, <1>4, WrittenStill
<1>6. HeardServes => HeardServes'  BY <1>1, <1>2, <1>3, <1>4, HeardStill
<1>7. QED  BY <1>1, <1>2, <1>5, <1>6, OnceGoes DEF Told, CalmOnce
---------------------------------------------------------------------------
\* What was heard is not sent again: the theorem.

LEMMA OnceInit ==
    ASSUME SpeakInit, tts = "kalpa"
    PROVE  OnceInv
<1>1. /\ own = KalpaOwn /\ said = NothingSaid /\ wire = << >> /\ senders = << >> /\ pipe = NoCall
  BY SpeakInits DEF SpeakInit, SynInit
<1>2. /\ own.utt = NoUtterance /\ own.svc = NoService /\ ~own.slotted
  BY <1>1 DEF KalpaOwn
<1>3. NoUtterance.turn = 0 /\ NoUtterance.chunks = << >> /\ NoService.buf = << >>  BY NothingTypes
<1>4. ASSUME NEW x \in Pieces PROVE ~Written(x) /\ ~Unwritten(x)
  <2>1. ~Played(x)  BY <1>1, PieceType DEF Played, NothingSaid
  <2>2. ~Written(x)  BY <1>1, <1>2, <1>3, <2>1, NothingAmong DEF Written
  <2>3. DOMAIN senders = {}  BY <1>1
  <2>4. QED  BY <2>2, <2>3 DEF Unwritten
<1>5. OwedOnce
  <2>1. DOMAIN senders = {}  BY <1>1
  <2>2. QED  BY <2>1 DEF OwedOnce
<1>6. PiecesNew  BY <1>1, <1>4 DEF PiecesNew, NoCall
<1>7. PiecesOnce /\ SlottedText  BY <1>2, <1>4, <1>5 DEF PiecesOnce, SlottedText
<1>8. CalmOnce
  <2>1. HeardServes  BY <1>2, <1>3 DEF HeardServes, HeardOpen
  <2>2. QED  BY <1>1, <1>2, <2>1 DEF CalmOnce, SlotAwaited, NothingSaid
<1>9. QED  BY <1>6, <1>7, <1>8 DEF OnceInv

LEMMA OnceKeeps ==
    ASSUME TypeInv, ApartInv, OnceInv, tts = "kalpa", [SpeakNext]_synVars
    PROVE  OnceInv'
<1>1. CASE Calls  BY <1>1, OnceCalls
<1>2. CASE Pushes
  <2>1. Asks  BY <1>2, KalpaPushStep
  <2>2. QED  BY <1>2, <2>1, OncePush
<1>3. CASE KalpaInterrupt  BY <1>3, OnceInterrupt
<1>4. CASE \E i \in DOMAIN senders : KalpaStarts(i)  BY <1>4, OnceStarts
<1>5. CASE KalpaSends  BY <1>5, OnceSends
<1>6. CASE SlotFree  BY <1>6, OnceSlotFree
<1>7. CASE SlotTimesOut  BY <1>7, OnceTimesOut
<1>8. CASE Render  BY <1>8, OnceRender
<1>9. CASE ServiceFails  BY <1>9, OnceFails
<1>10. CASE \E more : KalpaReceive(more)  BY <1>10, OnceReceive
<1>11. CASE KalpaMeetsEnd  BY <1>11, OnceMeetsEnd
<1>12. CASE GivesUp \/ Lose \/ UNCHANGED synVars  BY <1>12, OnceLose
<1>13. CASE KalpaDial  BY <1>13, OnceDial
<1>14. QED
  BY <1>1, <1>2, <1>3, <1>4, <1>5, <1>6, <1>7, <1>8, <1>9, <1>10, <1>11, <1>12, <1>13, KalpaCases

\* Only Kalpa sends a text a second time.
SpokenInv == SpeechInv /\ IF tts = "kalpa" THEN OnceInv ELSE ~said.again

LEMMA SpokenNext ==
    ASSUME SpokenInv, [SpeakNext]_synVars
    PROVE  SpokenInv'
<1>1. /\ SpeechInv /\ (IF tts = "kalpa" THEN OnceInv ELSE ~said.again)
      /\ TypeInv /\ (tts = "kalpa" => ApartInv)
  BY DEF SpokenInv, SpeechInv, EndsInv, LabelInv
<1>2. SpeechInv'  BY <1>1, SpeechNext
<1>3. StartTurn \/ Retire \/ Invalidate \/ Asks \/ Barges \/ Onward  BY <1>1, SpeakStep
<1>4. tts' = tts
  BY <1>1, <1>3, StartTurnStep, RetireStep, InvalidateStep DEF Asks, Barges, Onward
<1>5. CASE tts = "kalpa"
  <2>1. OnceInv'  BY <1>1, <1>5, OnceKeeps
  <2>2. QED  BY <1>2, <1>4, <1>5, <2>1 DEF SpokenInv
<1>6. CASE tts # "kalpa"
  <2>1. said'.again => said.again
    <3>1. CASE StartTurn \/ Retire \/ Invalidate
      BY <1>1, <3>1, StartTurnStep, RetireStep, InvalidateStep
    <3>2. CASE Asks \/ Barges  BY <3>2 DEF Asks, Barges
    <3>3. CASE Onward  BY <1>6, <3>3 DEF Onward, NoNewWrong, Exact
    <3>4. QED  BY <1>3, <3>1, <3>2, <3>3
  <2>2. QED  BY <1>1, <1>2, <1>4, <1>6, <2>1 DEF SpokenInv
<1>7. QED  BY <1>5, <1>6

LEMMA SpokenInit ==
    ASSUME SpeakInit
    PROVE  SpokenInv
<1>1. SpeechInv /\ said = NothingSaid  BY SpeechInit, SpeakInits
<1>2. ~said.again  BY <1>1 DEF NothingSaid
<1>3. QED  BY <1>1, <1>2, OnceInit DEF SpokenInv

\* The invariant behind NeverRepeated.
THEOREM SpokenInvariant == SpeakSpec => []SpokenInv
<1>1. SpeakInit => SpokenInv  BY SpokenInit
<1>2. SpokenInv /\ [SpeakNext]_synVars => SpokenInv'  BY SpokenNext
<1>3. QED  BY <1>1, <1>2, PTL DEF SpeakSpec

\* Where the receiver meets the end of every socket before its replacement (no
\* link.unmet), the text that Kalpa's _open_utterance sends again on a new socket was
\* never heard: _settle_lost_utterance gives up an utterance of which a piece was. A dial
\* that overtakes the receiver sends heard text again, and is what Met excludes.
THEOREM NeverRepeated == SpeakSpec => []SpokenOnce
<1>1. SpokenInv => SpokenOnce  BY DEF SpokenInv, OnceInv, CalmOnce, SpokenOnce
<1>2. QED  BY <1>1, SpokenInvariant, PTL

=============================================================================
