------------------------ MODULE TurnPipeline_proofs ------------------------
(***************************************************************************)
(* Theorems of TurnPipeline for every number of turns, frames, interims    *)
(* and handlers: the types, the record of what was spoken, the barge-in,   *)
(* the order of what is heard, and, in the last part, that no utterance is *)
(* in two rows of the prompt.                                              *)
(***************************************************************************)
EXTENDS MCPipelineSafety, SequenceTheorems, TLAPS

USE PipelineAssumption DEF PipelineAssumption, Seqs

\* The parts of TypeOK about data; FlagsOK is kept apart from them.
DataOK ==
    /\ GateOK /\ HandlersOK /\ TasksOK /\ SynthesisOK
    /\ OutputOK /\ CarrierOK /\ HistoryOK /\ GhostsOK

-----------------------------------------------------------------------------
(* What the operators on rows and tasks return.                            *)

\* Folding the unanswered row into a turn, and popping it, stay within the
\* types of utterances and rows.
LEMMA MergeType ==
    ASSUME HistoryOK, NEW utts \in SUBSET Seqs
    PROVE  MergedUtts(utts) \in SUBSET Seqs /\ PoppedRows \in Seq(Row)
<1>1. CASE LastIsUser
  <2>1. Len(rows) \in Nat \ {0} /\ rows[Len(rows)] \in Row
    BY <1>1 DEF LastIsUser, HistoryOK
  <2>2. SubSeq(rows, 1, Len(rows) - 1) \in Seq(Row)
    BY <2>1 DEF HistoryOK
  <2> QED BY <1>1, <2>1, <2>2 DEF MergedUtts, PoppedRows, Row
<1>2. CASE ~LastIsUser
  BY <1>2 DEF MergedUtts, PoppedRows, HistoryOK
<1> QED BY <1>1, <1>2

\* The same for the rows alone.
LEMMA PoppedType == HistoryOK => PoppedRows \in Seq(Row)
BY MergeType

\* Rows are built from utterances and responses.
LEMMA RowTypes ==
    /\ \A u \in SUBSET Seqs : UserRow(u) \in Row
    /\ \A s \in Seqs : AssistantRow(s) \in Row
BY DEF UserRow, AssistantRow, Row

\* Cancelling tasks leaves every generation in a known state.
LEMMA CancelledType ==
    ASSUME TasksOK, NEW S
    PROVE  Cancelled(S) \in [Seqs -> GenState]
BY DEF Cancelled, TasksOK, GenState, LiveState

\* Removing the row of an interrupted response leaves rows.
LEMMA RemovesType ==
    ASSUME HistoryOK, NEW at \in DOMAIN rows, Removes(at)
    PROVE  rows' \in Seq(Row)
<1>1. PICK next \in at + 1 .. Len(rows) + 1 :
        rows' = SubSeq(rows, 1, at - 1) \o SubSeq(rows, next, Len(rows))
  BY DEF Removes
<1>2. SubSeq(rows, 1, at - 1) \in Seq(Row)
  BY DEF HistoryOK
<1>3. SubSeq(rows, next, Len(rows)) \in Seq(Row)
  BY DEF HistoryOK
<1> QED BY <1>1, <1>2, <1>3

\* sync_history only appends or removes rows.
LEMMA SyncType ==
    ASSUME HistoryOK, CarrierOK, SyncHistory
    PROVE  rows' \in Seq(Row)
<1>1. \A s \in TrimTargets : s \in Seqs
  <2>1. CASE cleared # {}
    BY <2>1 DEF TrimTargets, CarrierOK
  <2>2. CASE cleared = {}
    BY <2>2 DEF TrimTargets, CarrierOK
  <2> QED BY <2>1, <2>2
<1>2. ASSUME NEW s \in TrimTargets, rows' = Append(rows, AssistantRow(s))
      PROVE  rows' \in Seq(Row)
  BY <1>1, <1>2, RowTypes DEF HistoryOK
<1>3. ASSUME NEW s \in TrimTargets, NEW at \in RowsOf(s), Removes(at)
      PROVE  rows' \in Seq(Row)
  BY <1>3, RemovesType DEF RowsOf
<1> QED BY <1>2, <1>3 DEF SyncHistory, HistoryOK

\* Starting a generation on typed arguments sets typed variables.
LEMMA KickoffType ==
    ASSUME NEW s \in Seqs, NEW ids0 \in SUBSET Seqs, NEW staged0 \in SUBSET Seqs,
           NEW gen0 \in [Seqs -> GenState], NEW ref0 \in 0..MaxSeq,
           Kickoff(s, ids0, staged0, gen0, ref0)
    PROVE  /\ ids' \subseteq Seqs /\ staged' \subseteq Seqs
           /\ gen' \in [Seqs -> GenState] /\ llmRef' \in 0..MaxSeq
           /\ rip' = TRUE
BY DEF Kickoff, GenState, LiveState

\* Committing a response keeps the types of the history.
LEMMA CommitType ==
    ASSUME HistoryOK, NEW s \in Seqs, NEW from \in SUBSET Seqs, Commit(s, from)
    PROVE  /\ staged' \subseteq Seqs /\ committed' \subseteq Seqs
           /\ lastSpoken' \in 0..MaxSeq /\ rows' \in Seq(Row)
<1>1. AssistantRow(s) \in Row
  BY RowTypes
<1>2. rows' = rows \/ rows' = Append(rows, AssistantRow(s))
  BY DEF Commit
<1>3. rows' \in Seq(Row)
  BY <1>1, <1>2 DEF HistoryOK
<1>4. CASE s \in committed \/ s \notin from
  BY <1>3, <1>4 DEF Commit, HistoryOK
<1>5. CASE ~(s \in committed \/ s \notin from)
  <2>1. staged' = from \ {s} /\ committed' = committed \cup {s} /\ lastSpoken' = s
    BY <1>5 DEF Commit
  <2>2. committed \subseteq Seqs
    BY DEF HistoryOK
  <2>3. staged' \subseteq Seqs /\ committed' \subseteq Seqs
    BY <2>1, <2>2
  <2>4. lastSpoken' \in 0..MaxSeq
    BY <2>1
  <2> QED BY <1>3, <2>3, <2>4
<1> QED BY <1>4, <1>5
\* Storing a text, with or without the rescue commit, does so too.
LEMMA StageType ==
    ASSUME HistoryOK, NEW s \in Seqs, Stage(s)
    PROVE  /\ staged' \subseteq Seqs /\ committed' \subseteq Seqs
           /\ lastSpoken' \in 0..MaxSeq /\ rows' \in Seq(Row)
<1>1. CASE s \in sent \ blocked
  <2>1. staged \cup {s} \in SUBSET Seqs /\ Commit(s, staged \cup {s})
    BY <1>1 DEF Stage, HistoryOK
  <2> QED BY <2>1, CommitType
<1>2. CASE s \notin sent \ blocked
  BY <1>2 DEF Stage, HistoryOK
<1> QED BY <1>1, <1>2

\* The tail of _handle_transcriber_output, on typed arguments.
LEMMA RespondType ==
    ASSUME HandlersOK, HistoryOK, FlagsOK, NEW h \in Handlers, NEW turn \in FinalTurn,
           NEW overlapped \in BOOLEAN, NEW ids0 \in SUBSET Seqs,
           NEW gen0 \in [Seqs -> GenState], NEW ref0 \in 0..MaxSeq,
           NEW rows0 \in Seq(Row), Respond(h, turn, overlapped, ids0, gen0, ref0, rows0)
    PROVE  /\ rows' \in Seq(Row) /\ HandlersOK' /\ rip' \in BOOLEAN
           /\ ids' \subseteq Seqs /\ staged' \subseteq Seqs
           /\ gen' \in [Seqs -> GenState] /\ llmRef' \in 0..MaxSeq
<1>1. UserRow(turn.utts) \in Row /\ turn.seq \in Seqs
  BY RowTypes DEF FinalTurn
<1>2. rows' \in Seq(Row)
  BY <1>1 DEF Respond
<1>3. settle' \in FinalTurn \cup {NoTurn}
  BY DEF Respond, HandlersOK
<1>4. HandlersOK'
  BY <1>3 DEF Respond, HandlersOK, HandlerState
<1>5. CASE overlapped /\ (ArmedSettle \/ SettleCanFire)
  BY <1>2, <1>4, <1>5 DEF Respond, HistoryOK, FlagsOK
<1>6. CASE ~(overlapped /\ (ArmedSettle \/ SettleCanFire))
  <2>1. Kickoff(turn.seq, ids0, staged, gen0, ref0)
    BY <1>6 DEF Respond
  <2>2. staged \in SUBSET Seqs
    BY DEF HistoryOK
  <2> QED BY <1>1, <1>2, <1>4, <2>1, <2>2, KickoffType
<1> QED BY <1>5, <1>6

-----------------------------------------------------------------------------
(* Type correctness, one step per action.                                  *)

\* The initial state has the types.
LEMMA TypeInit == Init => TypeOK
<1> SUFFICES ASSUME Init PROVE TypeOK
  OBVIOUS
<1> USE DEF Init
<1>1. FlagsOK
  BY DEF FlagsOK
<1>2. GateOK
  BY DEF GateOK
<1>3. HandlersOK
  BY DEF HandlersOK, HandlerState
<1>4. TasksOK
  BY DEF TasksOK, GenState, LiveState
<1>5. SynthesisOK /\ OutputOK
  BY DEF SynthesisOK, OutputOK
<1>6. CarrierOK
  BY DEF CarrierOK
<1>7. HistoryOK /\ GhostsOK
  BY DEF HistoryOK, GhostsOK
<1> QED BY <1>1, <1>2, <1>3, <1>4, <1>5, <1>6, <1>7 DEF TypeOK

\* No step puts anything but a truth value in a flag.
LEMMA FlagsStep == FlagsOK /\ [Next]_vars => FlagsOK'
<1> SUFFICES ASSUME FlagsOK, [Next]_vars PROVE FlagsOK'
  OBVIOUS
<1> USE DEF FlagsOK, gate, flags, output, carrier, vars, CleanupStart, CancelDownstream,
            Respond, Kickoff, Listen
<1>1. ASSUME \E h \in Handlers : FinalArrives(h) PROVE FlagsOK'
  BY <1>1 DEF FinalArrives
<1>2. ASSUME SpeechEnded PROVE FlagsOK'
  BY <1>2 DEF SpeechEnded
<1>3. ASSUME BargeIn PROVE FlagsOK'
  BY <1>3 DEF BargeIn
<1>4. ASSUME CallerContinues PROVE FlagsOK'
  BY <1>4 DEF CallerContinues
<1>5. ASSUME EagerEndOfTurn PROVE FlagsOK'
  BY <1>5 DEF EagerEndOfTurn
<1>6. ASSUME TurnResumed PROVE FlagsOK'
  BY <1>6 DEF TurnResumed
<1>7. ASSUME FinalConfirmsEager PROVE FlagsOK'
  BY <1>7 DEF FinalConfirmsEager
<1>8. ASSUME \E h \in Handlers : FinalRetired(h) PROVE FlagsOK'
  BY <1>8 DEF FinalRetired
<1>9. ASSUME \E h \in Handlers : FinalAccepted(h) PROVE FlagsOK'
  BY <1>9 DEF FinalAccepted
<1>10. ASSUME \E h \in Handlers : FinalSettles(h) PROVE FlagsOK'
  BY <1>10 DEF FinalSettles
<1>11. ASSUME \E h \in Handlers : FinalOverlaps(h) PROVE FlagsOK'
  BY <1>11 DEF FinalOverlaps
<1>12. ASSUME \E h \in Handlers : CleanupCleared(h) PROVE FlagsOK'
  BY <1>12 DEF CleanupCleared
<1>13. ASSUME \E h \in Handlers : CleanupInvalidates(h) PROVE FlagsOK'
  BY <1>13 DEF CleanupInvalidates
<1>14. ASSUME \E h \in Handlers : CleanupEndsInterim(h) PROVE FlagsOK'
  BY <1>14 DEF CleanupEndsInterim
<1>15. ASSUME \E h \in Handlers : CleanupEndsFinal(h) PROVE FlagsOK'
  BY <1>15 DEF CleanupEndsFinal
<1>16. ASSUME \E s \in Seqs : LlmStart(s) PROVE FlagsOK'
  BY <1>16 DEF LlmStart
<1>17. ASSUME \E s \in Seqs : LlmChunk(s) PROVE FlagsOK'
  BY <1>17 DEF LlmChunk
<1>18. ASSUME \E s \in Seqs : LlmFlush(s) PROVE FlagsOK'
  BY <1>18 DEF LlmFlush
<1>19. ASSUME \E s \in Seqs : LlmEmpty(s) PROVE FlagsOK'
  BY <1>19 DEF LlmEmpty
<1>20. ASSUME \E s \in Seqs : LlmStore(s) PROVE FlagsOK'
  BY <1>20 DEF LlmStore
<1>21. ASSUME \E s \in Seqs : LlmDone(s) PROVE FlagsOK'
  BY <1>21 DEF LlmDone
<1>22. ASSUME \E s \in Seqs : SynthFrame(s) PROVE FlagsOK'
  BY <1>22 DEF SynthFrame
<1>23. ASSUME \E s \in Seqs : SynthFinal(s) PROVE FlagsOK'
  BY <1>23 DEF SynthFinal
<1>24. ASSUME SettleFires PROVE FlagsOK'
  BY <1>24 DEF SettleFires
<1>25. ASSUME OutputSend PROVE FlagsOK'
  BY <1>25 DEF OutputSend
<1>26. ASSUME OutputSent PROVE FlagsOK'
  BY <1>26 DEF OutputSent
<1>27. ASSUME OutputBlock PROVE FlagsOK'
  BY <1>27 DEF OutputBlock
<1>28. ASSUME OutputForwarded PROVE FlagsOK'
  BY <1>28 DEF OutputForwarded
<1>29. ASSUME OutputReleasesGate PROVE FlagsOK'
  BY <1>29 DEF OutputReleasesGate
<1>30. ASSUME PreMarkAck PROVE FlagsOK'
  BY <1>30 DEF PreMarkAck
<1>31. ASSUME PostMarkAck PROVE FlagsOK'
  BY <1>31 DEF PostMarkAck
<1>32. ASSUME UNCHANGED vars PROVE FlagsOK'
  BY <1>32
<1> QED BY <1>1, <1>2, <1>3, <1>4, <1>5, <1>6, <1>7, <1>8, <1>9, <1>10, <1>11, <1>12, <1>13, <1>14, <1>15, <1>16, <1>17, <1>18, <1>19, <1>20, <1>21, <1>22, <1>23, <1>24, <1>25, <1>26, <1>27, <1>28, <1>29, <1>30, <1>31, <1>32
     DEF Next, Caller, Handler, Generation, Synthesis, Output, Carrier

-----------------------------------------------------------------------------
(* Data, one step per action.                                              *)

\* What a provider keeps of an interrupted turn is typed.
LEMMA SynthDropsType == SynthesisOK /\ SynthDrops => SynthesisOK'
BY DEF SynthDrops, SynthesisOK, synthesis

\* A listener that enqueues or skips a frame keeps the queue typed.
LEMMA ListenType ==
    ASSUME OutputOK, NEW s \in Seqs, NEW final \in BOOLEAN, Listen(s, final)
    PROVE  OutputOK'
<1>1. [seq |-> s, final |-> final] \in Frame
  BY DEF Frame
<1>2. sending' = sending /\ (queue' = queue \/ queue' = Append(queue, [seq |-> s, final |-> final]))
  BY DEF Listen
<1> QED BY <1>1, <1>2 DEF OutputOK

\* The events of the transcriber.
LEMMA CallerStep == FlagsOK /\ DataOK /\ Caller => DataOK'
<1> SUFFICES ASSUME FlagsOK, DataOK, Caller PROVE DataOK'
  OBVIOUS
<1> USE DEF DataOK, gate, flags, handlers, tasks, synthesis, output, carrier, history, ghosts
<1>1. ASSUME NEW h \in Handlers, FinalArrives(h) PROVE DataOK'
  <2>1. GateOK' /\ curr + 1 \in Seqs
    BY <1>1 DEF FinalArrives, GateOK
  <2>2. [kind |-> "final", seq |-> curr + 1, utts |-> {curr + 1}] \in FinalTurn
    BY <2>1 DEF FinalTurn
  <2>3. HandlersOK'
    BY <1>1, <2>2 DEF FinalArrives, HandlersOK, HandlerState
  <2>4. TasksOK'
    BY <1>1, CancelledType DEF FinalArrives, TasksOK
  <2>5. rows' \in Seq(Row)
    BY <1>1, PoppedType DEF FinalArrives, HistoryOK
  <2>6. HistoryOK'
    BY <1>1, <2>5 DEF FinalArrives, HistoryOK
  <2>7. SynthesisOK' /\ OutputOK' /\ CarrierOK' /\ GhostsOK'
    BY <1>1 DEF FinalArrives, SynthesisOK, OutputOK, CarrierOK, GhostsOK
  <2> QED BY <2>1, <2>3, <2>4, <2>6, <2>7
<1>2. ASSUME SpeechEnded PROVE DataOK'
  BY <1>2 DEF SpeechEnded, GateOK, HandlersOK, TasksOK, SynthesisOK, OutputOK, CarrierOK,
              HistoryOK, GhostsOK
<1>3. ASSUME BargeIn PROVE DataOK'
  <2>1. HandlersOK'
    BY <1>3 DEF BargeIn, CleanupStart, HandlersOK, HandlerState
  <2>2. GhostsOK'
    BY <1>3 DEF BargeIn, GhostsOK
  <2> QED BY <1>3, <2>1, <2>2 DEF BargeIn, GateOK, TasksOK, SynthesisOK, OutputOK, CarrierOK, HistoryOK
<1>4. ASSUME CallerContinues PROVE DataOK'
  <2>1. HandlersOK'
    BY <1>4 DEF CallerContinues, CleanupStart, HandlersOK, HandlerState
  <2>2. GhostsOK'
    BY <1>4 DEF CallerContinues, GhostsOK
  <2> QED BY <1>4, <2>1, <2>2 DEF CallerContinues, GateOK, TasksOK, SynthesisOK, OutputOK, CarrierOK,
                                  HistoryOK
<1>5. ASSUME EagerEndOfTurn PROVE DataOK'
  <2>1. curr < MaxSeq /\ curr' = curr + 1 /\ ids' = ids \cup {curr + 1}
    BY <1>5 DEF EagerEndOfTurn
  <2>2. GateOK' /\ curr + 1 \in Seqs
    BY <2>1 DEF GateOK
  <2>3. Len(rows) \in Nat /\ UserRow({curr + 1}) \in Row
    BY <2>2, RowTypes DEF HistoryOK
  <2>4. TasksOK'
    BY <1>5, <2>2, <2>3 DEF EagerEndOfTurn, TasksOK, GenState, LiveState
  <2>5. HistoryOK'
    BY <1>5, <2>3 DEF EagerEndOfTurn, HistoryOK
  <2> QED BY <1>5, <2>2, <2>4, <2>5 DEF EagerEndOfTurn, HandlersOK, SynthesisOK, OutputOK, CarrierOK,
                                        GhostsOK
<1>6. ASSUME TurnResumed PROVE DataOK'
  <2>1. TasksOK'
    BY <1>6, CancelledType DEF TurnResumed, TasksOK
  <2>2. HistoryOK'
    <3>1. CASE Len(rows) > eagerMark
      <4>1. eagerMark \in 0..Len(rows) /\ rows' = SubSeq(rows, 1, eagerMark)
        BY <1>6, <3>1 DEF TurnResumed, TasksOK, HistoryOK
      <4>2. rows' \in Seq(Row)
        BY <4>1 DEF HistoryOK
      <4> QED BY <1>6, <4>2 DEF TurnResumed, HistoryOK
    <3>2. CASE ~(Len(rows) > eagerMark)
      BY <1>6, <3>2 DEF TurnResumed, HistoryOK
    <3> QED BY <3>1, <3>2
  <2>3. eagerRef \in Seqs /\ retracted' = retracted \cup {eagerRef}
    BY <1>6 DEF TurnResumed, TasksOK
  <2>4. GhostsOK'
    BY <1>6, <2>3 DEF TurnResumed, GhostsOK
  <2> QED BY <1>6, <2>1, <2>2, <2>4 DEF TurnResumed, GateOK, HandlersOK, SynthesisOK, OutputOK, CarrierOK
<1>7. ASSUME FinalConfirmsEager PROVE DataOK'
  <2>1. eagerRef \in Seqs
    BY <1>7 DEF FinalConfirmsEager, TasksOK
  <2>2. GateOK'
    BY <1>7, <2>1 DEF FinalConfirmsEager, GateOK
  <2>3. TasksOK'
    BY <1>7, CancelledType DEF FinalConfirmsEager, TasksOK
  <2> QED BY <1>7, <2>2, <2>3 DEF FinalConfirmsEager, HandlersOK, SynthesisOK, OutputOK, CarrierOK,
                                  HistoryOK, GhostsOK
<1> QED BY <1>1, <1>2, <1>3, <1>4, <1>5, <1>6, <1>7 DEF Caller

\* What a handler carries over an await, merged with the popped row.
LEMMA MergedTurnType ==
    ASSUME HistoryOK, NEW turn \in FinalTurn
    PROVE  [turn EXCEPT !.utts = MergedUtts(@)] \in FinalTurn
<1>1. turn.utts \in SUBSET Seqs
  BY DEF FinalTurn
<1>2. MergedUtts(turn.utts) \in SUBSET Seqs
  BY <1>1, MergeType
<1> QED BY <1>2 DEF FinalTurn

\* The handlers: acceptance of finals and the downstream cleanup.
LEMMA HandlerStep ==
    ASSUME FlagsOK, DataOK, NEW h \in Handlers, Handler(h)
    PROVE  DataOK'
<1> USE DEF DataOK, gate, flags, handlers, tasks, synthesis, output, carrier, history, ghosts
<1>1. ASSUME FinalRetired(h) PROVE DataOK'
  <2>1. HandlersOK'
    BY <1>1 DEF FinalRetired, HandlersOK, HandlerState
  <2>2. GateOK' /\ HistoryOK'
    BY <1>1 DEF FinalRetired, GateOK, HistoryOK
  <2> QED BY <1>1, <2>1, <2>2 DEF FinalRetired, TasksOK, SynthesisOK, OutputOK, CarrierOK, GhostsOK
<1>2. ASSUME FinalAccepted(h) PROVE DataOK'
  <2>1. hctx[h] \in FinalTurn /\ ids \in SUBSET Seqs /\ gen \in [Seqs -> GenState]
        /\ llmRef \in 0..MaxSeq /\ rows \in Seq(Row)
    BY <1>2 DEF FinalAccepted, HandlersOK, GateOK, TasksOK, HistoryOK
  <2>2. Respond(h, hctx[h], FALSE, ids, gen, llmRef, rows)
    BY <1>2 DEF FinalAccepted
  <2>3. /\ rows' \in Seq(Row) /\ HandlersOK' /\ ids' \subseteq Seqs /\ staged' \subseteq Seqs
        /\ gen' \in [Seqs -> GenState] /\ llmRef' \in 0..MaxSeq
    BY <2>1, <2>2, RespondType
  <2>4. GateOK' /\ TasksOK' /\ HistoryOK'
    BY <1>2, <2>3 DEF FinalAccepted, GateOK, TasksOK, HistoryOK
  <2> QED BY <1>2, <2>3, <2>4 DEF FinalAccepted, SynthesisOK, OutputOK, CarrierOK, GhostsOK
<1>3. ASSUME FinalSettles(h) PROVE DataOK'
  <2>1. hctx[h] \in FinalTurn /\ gen \in [Seqs -> GenState] /\ llmRef \in 0..MaxSeq
    BY <1>3 DEF FinalSettles, HandlersOK, TasksOK
  <2>2. ids \cup {hctx[h].seq} \in SUBSET Seqs
    BY <2>1 DEF FinalTurn, GateOK
  <2>3. [hctx[h] EXCEPT !.utts = MergedUtts(@)] \in FinalTurn /\ PoppedRows \in Seq(Row)
    BY <2>1, MergedTurnType, PoppedType
  <2>4. Respond(h, [hctx[h] EXCEPT !.utts = MergedUtts(@)], TRUE, ids \cup {hctx[h].seq},
                gen, llmRef, PoppedRows)
    BY <1>3 DEF FinalSettles
  <2>5. /\ rows' \in Seq(Row) /\ HandlersOK' /\ ids' \subseteq Seqs /\ staged' \subseteq Seqs
        /\ gen' \in [Seqs -> GenState] /\ llmRef' \in 0..MaxSeq
    BY <2>1, <2>2, <2>3, <2>4, RespondType
  <2>6. GateOK' /\ TasksOK' /\ HistoryOK'
    BY <1>3, <2>5 DEF FinalSettles, GateOK, TasksOK, HistoryOK
  <2> QED BY <1>3, <2>5, <2>6 DEF FinalSettles, SynthesisOK, OutputOK, CarrierOK, GhostsOK
<1>4. ASSUME FinalOverlaps(h) PROVE DataOK'
  <2>1. [hctx[h] EXCEPT !.utts = MergedUtts(@)] \in FinalTurn
    BY <1>4, MergedTurnType DEF FinalOverlaps, HandlersOK
  <2>2. HandlersOK'
    BY <1>4, <2>1 DEF FinalOverlaps, CleanupStart, HandlersOK, HandlerState
  <2>3. HistoryOK'
    BY <1>4, PoppedType DEF FinalOverlaps, HistoryOK
  <2> QED BY <1>4, <2>2, <2>3 DEF FinalOverlaps, GateOK, TasksOK, SynthesisOK, OutputOK, CarrierOK, GhostsOK
<1>5. ASSUME CleanupCleared(h) PROVE DataOK'
  <2>1. HandlersOK'
    BY <1>5 DEF CleanupCleared, HandlersOK, HandlerState
  <2>2. \A i \in DOMAIN ledger : ledger[i].seq \in Seqs
    <3>1. ASSUME NEW i \in DOMAIN ledger PROVE ledger[i] \in Frame
      BY <3>1 DEF CarrierOK
    <3> QED BY <3>1 DEF Frame
  <2>3. CarrierOK'
    BY <1>5, <2>2 DEF CleanupCleared, CarrierOK
  <2> QED BY <1>5, <2>1, <2>3 DEF CleanupCleared, GateOK, TasksOK, SynthesisOK, OutputOK, HistoryOK, GhostsOK
<1>6. ASSUME CleanupInvalidates(h) PROVE DataOK'
  <2>1. HandlersOK' /\ GateOK'
    BY <1>6 DEF CleanupInvalidates, HandlersOK, HandlerState, GateOK
  <2>2. SynthesisOK'
    BY <1>6, SynthDropsType DEF CleanupInvalidates
  <2>3. rows' \in Seq(Row)
    BY <1>6, SyncType DEF CleanupInvalidates
  <2>4. HistoryOK'
    BY <1>6, <2>3 DEF CleanupInvalidates, HistoryOK
  <2>5. CarrierOK'
    BY <1>6 DEF CleanupInvalidates, CarrierOK
  <2> QED BY <1>6, <2>1, <2>2, <2>4, <2>5 DEF CleanupInvalidates, TasksOK, OutputOK, GhostsOK
<1>7. ASSUME CleanupEndsInterim(h) PROVE DataOK'
  <2>1. HandlersOK'
    BY <1>7 DEF CleanupEndsInterim, HandlersOK, HandlerState
  <2>2. SynthesisOK' /\ OutputOK'
    BY <1>7, SynthDropsType DEF CleanupEndsInterim, CancelDownstream, OutputOK
  <2>3. TasksOK'
    BY <1>7, CancelledType DEF CleanupEndsInterim, CancelDownstream, TasksOK
  <2> QED BY <1>7, <2>1, <2>2, <2>3 DEF CleanupEndsInterim, GateOK, CarrierOK, HistoryOK, GhostsOK
<1>8. ASSUME CleanupEndsFinal(h) PROVE DataOK'
  <2>1. hctx[h] \in FinalTurn
    BY <1>8 DEF CleanupEndsFinal, HandlersOK, NoTurn, InterimTurn
  <2>2. ids \cup {hctx[h].seq} \in SUBSET Seqs
    BY <2>1 DEF FinalTurn, GateOK
  <2>3. rows \in Seq(Row) /\ 0 \in 0..MaxSeq
    BY DEF HistoryOK
  <2>4. Cancelled({llmRef, eagerRef}) \in [Seqs -> GenState]
    BY CancelledType
  <2>5. Respond(h, hctx[h], TRUE, ids \cup {hctx[h].seq}, Cancelled({llmRef, eagerRef}), 0, rows)
    BY <1>8 DEF CleanupEndsFinal
  <2>6. /\ rows' \in Seq(Row) /\ HandlersOK' /\ ids' \subseteq Seqs /\ staged' \subseteq Seqs
        /\ gen' \in [Seqs -> GenState] /\ llmRef' \in 0..MaxSeq
    BY <2>1, <2>2, <2>3, <2>4, <2>5, RespondType
  <2>7. SynthesisOK' /\ OutputOK'
    BY <1>8, SynthDropsType DEF CleanupEndsFinal, CancelDownstream, OutputOK
  <2>8. GateOK' /\ TasksOK' /\ HistoryOK'
    BY <1>8, <2>6 DEF CleanupEndsFinal, CancelDownstream, GateOK, TasksOK, HistoryOK
  <2> QED BY <1>8, <2>6, <2>7, <2>8 DEF CleanupEndsFinal, CarrierOK, GhostsOK
<1> QED BY <1>1, <1>2, <1>3, <1>4, <1>5, <1>6, <1>7, <1>8 DEF Handler

\* The generations, and the settle timer that starts one.
LEMMA GenerationStep ==
    ASSUME FlagsOK, DataOK, NEW s \in Seqs, Generation(s)
    PROVE  DataOK'
<1> USE DEF DataOK, gate, flags, handlers, tasks, synthesis, output, carrier, history, ghosts
<1>1. ASSUME LlmStart(s) PROVE DataOK'
  <2>1. ASSUME NEW i \in DOMAIN rows PROVE rows[i].ids \subseteq Seqs
    <3>1. rows[i] \in Row
      BY <2>1 DEF HistoryOK
    <3> QED BY <3>1 DEF Row
  <2>2. GhostsOK'
    BY <1>1, <2>1 DEF LlmStart, GhostsOK
  <2>3. TasksOK' /\ CarrierOK'
    BY <1>1 DEF LlmStart, TasksOK, CarrierOK, GenState, LiveState
  <2> QED BY <1>1, <2>2, <2>3 DEF LlmStart, GateOK, HandlersOK, SynthesisOK, OutputOK, HistoryOK
<1>2. ASSUME LlmChunk(s) PROVE DataOK'
  <2>1. TasksOK' /\ SynthesisOK'
    BY <1>2 DEF LlmChunk, TasksOK, GenState, LiveState, SynthesisOK
  <2> QED BY <1>2, <2>1 DEF LlmChunk, GateOK, HandlersOK, OutputOK, CarrierOK, HistoryOK, GhostsOK
<1>3. ASSUME LlmFlush(s) PROVE DataOK'
  <2>1. TasksOK' /\ SynthesisOK'
    BY <1>3 DEF LlmFlush, TasksOK, GenState, LiveState, SynthesisOK
  <2> QED BY <1>3, <2>1 DEF LlmFlush, GateOK, HandlersOK, OutputOK, CarrierOK, HistoryOK, GhostsOK
<1>4. ASSUME LlmEmpty(s) PROVE DataOK'
  BY <1>4 DEF LlmEmpty, GateOK, HandlersOK, TasksOK, GenState, LiveState, SynthesisOK, OutputOK,
              CarrierOK, HistoryOK, GhostsOK
<1>5. ASSUME LlmStore(s) PROVE DataOK'
  <2>1. HistoryOK'
    BY <1>5, StageType DEF LlmStore, HistoryOK
  <2> QED BY <1>5, <2>1 DEF LlmStore, GateOK, HandlersOK, TasksOK, GenState, LiveState, SynthesisOK,
                            OutputOK, CarrierOK, GhostsOK
<1>6. ASSUME LlmDone(s) PROVE DataOK'
  <2>1. TasksOK'
    BY <1>6 DEF LlmDone, TasksOK, GenState, LiveState
  <2> QED BY <1>6, <2>1 DEF LlmDone, GateOK, HandlersOK, SynthesisOK, OutputOK, CarrierOK, HistoryOK,
                            GhostsOK
<1> QED BY <1>1, <1>2, <1>3, <1>4, <1>5, <1>6 DEF Generation

\* The settle timer hands the payload it holds to the same kickoff.
LEMMA SettleStep ==
    ASSUME FlagsOK, DataOK, SettleFires
    PROVE  DataOK'
<1> USE DEF DataOK, gate, flags, handlers, tasks, synthesis, output, carrier, history, ghosts
<1>1. settle.seq \in Seqs
  <2>1. settle \in FinalTurn
    BY DEF SettleFires, ArmedSettle, HandlersOK
  <2> QED BY <2>1 DEF FinalTurn
<1>2. /\ ids \in SUBSET Seqs /\ staged \in SUBSET Seqs
      /\ gen \in [Seqs -> GenState] /\ llmRef \in 0..MaxSeq
  BY DEF GateOK, HistoryOK, TasksOK
<1>3. Kickoff(settle.seq, ids, staged, gen, llmRef)
  BY DEF SettleFires
<1>4. /\ ids' \subseteq Seqs /\ staged' \subseteq Seqs
      /\ gen' \in [Seqs -> GenState] /\ llmRef' \in 0..MaxSeq
  BY <1>1, <1>2, <1>3, KickoffType
<1>5. GateOK' /\ TasksOK' /\ HistoryOK'
  BY <1>4 DEF SettleFires, GateOK, TasksOK, HistoryOK
<1> QED BY <1>5 DEF SettleFires, HandlersOK, SynthesisOK, OutputOK, CarrierOK, GhostsOK

\* Frames: the synthesizer and the listener.
LEMMA SynthesisStep ==
    ASSUME FlagsOK, DataOK, NEW s \in Seqs, Synthesis(s)
    PROVE  DataOK'
<1> USE DEF DataOK, gate, flags, handlers, tasks, carrier, history, ghosts
<1>1. ASSUME SynthFrame(s) PROVE DataOK'
  <2>1. OutputOK'
    BY <1>1, ListenType DEF SynthFrame
  <2>2. SynthesisOK'
    BY <1>1 DEF SynthFrame, SynthesisOK
  <2> QED BY <1>1, <2>1, <2>2 DEF SynthFrame, Listen, GateOK, HandlersOK, TasksOK, CarrierOK, HistoryOK,
                                  GhostsOK
<1>2. ASSUME SynthFinal(s) PROVE DataOK'
  <2>1. OutputOK'
    BY <1>2, ListenType DEF SynthFinal
  <2>2. SynthesisOK'
    BY <1>2 DEF SynthFinal, SynthesisOK
  <2> QED BY <1>2, <2>1, <2>2 DEF SynthFinal, Listen, GateOK, HandlersOK, TasksOK, CarrierOK, HistoryOK,
                                  GhostsOK
<1> QED BY <1>1, <1>2 DEF Synthesis

\* The frame the output loop judges, and what is left of the queue.
LEMMA JudgedType ==
    ASSUME OutputOK, Judging
    PROVE  Head(queue) \in Frame /\ Head(queue).seq \in Seqs /\ Tail(queue) \in Seq(Frame)
<1>1. queue \in Seq(Frame) /\ queue # <<>>
  BY DEF OutputOK, Judging
<1>2. Head(queue) \in Frame /\ Tail(queue) \in Seq(Frame)
  BY <1>1
<1> QED BY <1>2 DEF Frame

\* The output loop.
LEMMA OutputStep ==
    ASSUME FlagsOK, DataOK, Output
    PROVE  DataOK'
<1> USE DEF DataOK, gate, flags, handlers, tasks, synthesis, output, carrier, history, ghosts
<1>1. ASSUME OutputSend PROVE DataOK'
  <2>1. Head(queue) \in Frame /\ Head(queue).seq \in Seqs /\ Tail(queue) \in Seq(Frame)
    BY <1>1, JudgedType DEF OutputSend
  <2>2. OutputOK'
    BY <1>1, <2>1 DEF OutputSend, OutputOK
  <2>3. CarrierOK'
    BY <1>1, <2>1 DEF OutputSend, CarrierOK
  <2>4. staged \in SUBSET Seqs /\ Commit(Head(queue).seq, staged)
    BY <1>1 DEF OutputSend, HistoryOK
  <2>5. HistoryOK'
    BY <1>1, <2>1, <2>4, CommitType DEF OutputSend, HistoryOK
  <2> QED BY <1>1, <2>2, <2>3, <2>5 DEF OutputSend, GateOK, HandlersOK, TasksOK, SynthesisOK, GhostsOK
<1>2. ASSUME OutputSent PROVE DataOK'
  <2>1. OutputOK' /\ GateOK'
    BY <1>2 DEF OutputSent, OutputOK, GateOK
  <2> QED BY <1>2, <2>1 DEF OutputSent, HandlersOK, TasksOK, SynthesisOK, CarrierOK, HistoryOK, GhostsOK
<1>3. ASSUME OutputBlock PROVE DataOK'
  <2>1. Head(queue) \in Frame /\ Head(queue).seq \in Seqs /\ Tail(queue) \in Seq(Frame)
    BY <1>3, JudgedType DEF OutputBlock
  <2>2. OutputOK'
    BY <1>3, <2>1 DEF OutputBlock, OutputOK
  <2>3. CarrierOK'
    BY <1>3, <2>1 DEF OutputBlock, CarrierOK
  <2>4. HistoryOK'
    BY <1>3, <2>1 DEF OutputBlock, HistoryOK
  <2> QED BY <1>3, <2>2, <2>3, <2>4 DEF OutputBlock, GateOK, HandlersOK, TasksOK, SynthesisOK, GhostsOK
<1>4. ASSUME OutputForwarded PROVE DataOK'
  BY <1>4 DEF OutputForwarded, GateOK, HandlersOK, TasksOK, SynthesisOK, OutputOK, CarrierOK, HistoryOK,
              GhostsOK
<1>5. ASSUME OutputReleasesGate PROVE DataOK'
  BY <1>5 DEF OutputReleasesGate, GateOK, HandlersOK, TasksOK, SynthesisOK, OutputOK, CarrierOK, HistoryOK,
              GhostsOK
<1> QED BY <1>1, <1>2, <1>3, <1>4, <1>5 DEF Output

\* The marks.
LEMMA CarrierStep ==
    ASSUME FlagsOK, DataOK, Carrier
    PROVE  DataOK'
<1> USE DEF DataOK, gate, flags, handlers, tasks, synthesis, output, carrier, history, ghosts
<1>1. ASSUME PreMarkAck PROVE DataOK'
  BY <1>1 DEF PreMarkAck, GateOK, HandlersOK, TasksOK, SynthesisOK, OutputOK, CarrierOK, HistoryOK, GhostsOK
<1>2. ASSUME PostMarkAck PROVE DataOK'
  <2>1. ledger \in Seq(Frame) /\ ledger # <<>>
    BY <1>2 DEF PostMarkAck, CarrierOK
  <2>2. Head(ledger) \in Frame /\ Tail(ledger) \in Seq(Frame)
    BY <2>1
  <2>3. Head(ledger).seq \in Seqs
    BY <2>2 DEF Frame
  <2>4. CarrierOK'
    BY <1>2, <2>2, <2>3 DEF PostMarkAck, CarrierOK
  <2> QED BY <1>2, <2>4 DEF PostMarkAck, GateOK, HandlersOK, TasksOK, SynthesisOK, OutputOK, HistoryOK,
                            GhostsOK
<1> QED BY <1>1, <1>2 DEF Carrier

\* No step leaves the types.
LEMMA TypeStep == TypeOK /\ [Next]_vars => TypeOK'
<1> SUFFICES ASSUME TypeOK, [Next]_vars PROVE TypeOK'
  OBVIOUS
<1>1. FlagsOK /\ DataOK
  BY DEF TypeOK, DataOK
<1>2. FlagsOK'
  BY <1>1, FlagsStep
<1>3. ASSUME Caller PROVE DataOK'
  BY <1>1, <1>3, CallerStep
<1>4. ASSUME NEW h \in Handlers, Handler(h) PROVE DataOK'
  BY <1>1, <1>4, HandlerStep
<1>5. ASSUME NEW s \in Seqs, Generation(s) \/ Synthesis(s) PROVE DataOK'
  BY <1>1, <1>5, GenerationStep, SynthesisStep
<1>6. ASSUME SettleFires PROVE DataOK'
  BY <1>1, <1>6, SettleStep
<1>7. ASSUME Output PROVE DataOK'
  BY <1>1, <1>7, OutputStep
<1>8. ASSUME Carrier PROVE DataOK'
  BY <1>1, <1>8, CarrierStep
<1>9. ASSUME UNCHANGED vars PROVE DataOK'
  BY <1>1, <1>9 DEF DataOK, GateOK, HandlersOK, TasksOK, SynthesisOK, OutputOK, CarrierOK, HistoryOK, GhostsOK,
                    vars, gate, handlers, tasks, synthesis, output, carrier, history, ghosts
<1>10. DataOK'
  BY <1>3, <1>4, <1>5, <1>6, <1>7, <1>8, <1>9 DEF Next
<1> QED BY <1>2, <1>10 DEF TypeOK, DataOK

\* Every variable of the pipeline keeps its type: sequence ids never leave the
\* allocated range, and a resumed handler or a fired settle timer always has a
\* turn with a valid id in hand.
THEOREM TypeCorrect == Spec => []TypeOK
<1> QED BY TypeInit, TypeStep, PTL DEF Spec

-----------------------------------------------------------------------------
(* The staging area implements SpokenRecord. Only three actions touch the  *)
(* record: storing drafts, SEND speaks, BLOCK suppresses; all the others   *)
(* leave it alone or discard drafts.                                       *)

DiscardsOnly == staged' \subseteq staged /\ UNCHANGED <<sent, blocked, committed>>

\* _commit_staged_assistant_history is the abstract entry into the record.
LEMMA CommitEnters ==
    ASSUME NEW s, NEW from, Commit(s, from)
    PROVE  Record!Enter(s, from)
BY DEF Commit, Record!Enter

\* A final that is retired, a cleanup and a kickoff that displaces a task only
\* ever discard staged text.
LEMMA HandlerDiscards ==
    ASSUME NEW h \in Handlers, Handler(h)
    PROVE  DiscardsOnly
<1> USE DEF DiscardsOnly, history
<1>1. ASSUME FinalRetired(h) PROVE DiscardsOnly
  BY <1>1 DEF FinalRetired
<1>2. ASSUME FinalAccepted(h) PROVE DiscardsOnly
  BY <1>2 DEF FinalAccepted, Respond, Kickoff
<1>3. ASSUME FinalSettles(h) PROVE DiscardsOnly
  BY <1>3 DEF FinalSettles, Respond, Kickoff
<1>4. ASSUME FinalOverlaps(h) PROVE DiscardsOnly
  BY <1>4 DEF FinalOverlaps
<1>5. ASSUME CleanupCleared(h) PROVE DiscardsOnly
  BY <1>5 DEF CleanupCleared
<1>6. ASSUME CleanupInvalidates(h) PROVE DiscardsOnly
  BY <1>6 DEF CleanupInvalidates
<1>7. ASSUME CleanupEndsInterim(h) PROVE DiscardsOnly
  BY <1>7 DEF CleanupEndsInterim
<1>8. ASSUME CleanupEndsFinal(h) PROVE DiscardsOnly
  BY <1>8 DEF CleanupEndsFinal, Respond, Kickoff
<1> QED BY <1>1, <1>2, <1>3, <1>4, <1>5, <1>6, <1>7, <1>8 DEF Handler

\* Every step of the pipeline is a step of the record or leaves it alone.
LEMMA RecordStep == TypeOK /\ [Next]_vars => [Record!Next]_(Record!vars)
<1> SUFFICES ASSUME TypeOK, [Next]_vars PROVE Record!Next \/ UNCHANGED Record!vars
  OBVIOUS
<1>1. ASSUME DiscardsOnly PROVE Record!Next
  BY <1>1 DEF DiscardsOnly, Record!Next, Record!Discard
<1>2. ASSUME Caller PROVE DiscardsOnly
  BY <1>2 DEF Caller, FinalArrives, SpeechEnded, BargeIn, CallerContinues, EagerEndOfTurn, TurnResumed,
              FinalConfirmsEager, DiscardsOnly, history
<1>3. ASSUME NEW s \in Seqs, Generation(s) PROVE DiscardsOnly \/ Record!Draft(s)
  <2>1. ASSUME LlmStore(s) PROVE Record!Draft(s)
    BY <2>1, CommitEnters DEF LlmStore, Stage, Record!Draft
  <2>2. ASSUME LlmStart(s) \/ LlmChunk(s) \/ LlmFlush(s) \/ LlmEmpty(s) \/ LlmDone(s) PROVE DiscardsOnly
    BY <2>2 DEF LlmStart, LlmChunk, LlmFlush, LlmEmpty, LlmDone, DiscardsOnly, history
  <2> QED BY <1>3, <2>1, <2>2 DEF Generation
<1>4. ASSUME NEW s \in Seqs, Synthesis(s) PROVE DiscardsOnly
  BY <1>4 DEF Synthesis, SynthFrame, SynthFinal, Listen, DiscardsOnly, history
<1>5. ASSUME SettleFires PROVE DiscardsOnly
  BY <1>5 DEF SettleFires, Kickoff, DiscardsOnly
<1>6. ASSUME Output PROVE DiscardsOnly \/ \E s \in Seqs : Record!Speak(s) \/ Record!Suppress(s)
  <2>1. ASSUME OutputSend PROVE \E s \in Seqs : Record!Speak(s)
    <3>1. Head(queue).seq \in Seqs
      BY <2>1, JudgedType DEF OutputSend, TypeOK
    <3>2. Record!Enter(Head(queue).seq, staged)
      BY <2>1, CommitEnters DEF OutputSend
    <3>3. Record!Speak(Head(queue).seq)
      BY <2>1, <3>2 DEF OutputSend, RuledDuplicate, Record!Speak
    <3> QED BY <3>1, <3>3
  <2>2. ASSUME OutputBlock PROVE \E s \in Seqs : Record!Suppress(s)
    <3>1. Head(queue).seq \in Seqs
      BY <2>2, JudgedType DEF OutputBlock, TypeOK
    <3>2. Record!Suppress(Head(queue).seq)
      BY <2>2 DEF OutputBlock, Record!Suppress
    <3> QED BY <3>1, <3>2
  <2>3. ASSUME OutputSent \/ OutputForwarded \/ OutputReleasesGate PROVE DiscardsOnly
    BY <2>3 DEF OutputSent, OutputForwarded, OutputReleasesGate, DiscardsOnly, history
  <2> QED BY <1>6, <2>1, <2>2, <2>3 DEF Output
<1>7. ASSUME Carrier PROVE DiscardsOnly
  BY <1>7 DEF Carrier, PreMarkAck, PostMarkAck, DiscardsOnly, history
<1>8. ASSUME UNCHANGED vars PROVE UNCHANGED Record!vars
  BY <1>8 DEF vars, history, Record!vars
<1> QED
  BY <1>1, <1>2, <1>3, <1>4, <1>5, <1>6, <1>7, <1>8, HandlerDiscards DEF Next, Record!Next

\* The staging of assistant history, across generation, cleanup and output
\* loop, implements the abstract record: a text enters it exactly once, when
\* both the text and some of its audio exist.
THEOREM ImplementsRecord == Spec => RecordSpec
<1>1. Init => Record!Init
  BY DEF Init, Record!Init
<1> QED BY <1>1, TypeInit, TypeStep, RecordStep, PTL DEF Spec, RecordSpec, Record!Spec

\* What the history records was let through to the caller, at least in part.
THEOREM RecordedWasSpokenCorrect == Spec => []RecordedWasSpoken
<1>1. Init => RecordedWasSpoken
  BY DEF Init, RecordedWasSpoken
<1>2. RecordedWasSpoken /\ [Record!Next]_(Record!vars) => RecordedWasSpoken'
  BY DEF RecordedWasSpoken, Record!Next, Record!vars, Record!Speak, Record!Draft, Record!Suppress, Record!Discard,
         Record!Enter
<1> QED BY <1>1, <1>2, ImplementsRecord, PTL DEF Spec, RecordSpec, Record!Spec

\* No text stays staged once its audio was let through.
THEOREM SpokenTextIsRecordedCorrect == Spec => []SpokenTextIsRecorded
<1>1. Init => SpokenTextIsRecorded
  BY DEF Init, SpokenTextIsRecorded
<1>2. SpokenTextIsRecorded /\ [Record!Next]_(Record!vars) => SpokenTextIsRecorded'
  BY DEF SpokenTextIsRecorded, Record!Next, Record!vars, Record!Speak, Record!Draft, Record!Suppress,
         Record!Discard, Record!Enter
<1> QED BY <1>1, <1>2, ImplementsRecord, PTL DEF Spec, RecordSpec, Record!Spec

-----------------------------------------------------------------------------
(* Every generation can be cancelled. The strengthening says which task    *)
(* reference holds it: without speculation there is only self.llm_task.    *)

HeldByTask == eagerRef = 0 /\ \A s \in Seqs : Live(s) => s = llmRef

\* A kickoff leaves one running task, the one it starts.
LEMMA KickoffHolds ==
    ASSUME NEW s \in Seqs, NEW ids0, NEW staged0, NEW gen0 \in [Seqs -> GenState], NEW ref0,
           \A t \in Seqs : gen0[t] \in LiveState => t = ref0,
           Kickoff(s, ids0, staged0, gen0, ref0)
    PROVE  \A t \in Seqs : Live(t)' => t = llmRef'
<1> SUFFICES ASSUME NEW t \in Seqs, gen'[t] \in LiveState PROVE t = s
  BY DEF Kickoff, Live
<1>1. CASE ref0 # 0 /\ gen0[ref0] \in LiveState /\ t = ref0
  BY <1>1 DEF Kickoff, LiveState
<1> QED BY <1>1 DEF Kickoff, LiveState, Seqs

\* Without eager_end_of_turn events, no step loses the reference to a running
\* generation: a kickoff cancels the task it displaces, and self.llm_task is
\* cleared by the only task there is.
LEMMA HeldStep ==
    ASSUME Eager = FALSE, TypeOK, HeldByTask, [Next]_vars
    PROVE  HeldByTask'
<1> USE DEF HeldByTask, Live
<1>1. gen \in [Seqs -> GenState] /\ llmRef \in 0..MaxSeq
  BY DEF TypeOK, TasksOK
<1>2. ASSUME UNCHANGED <<gen, llmRef, eagerRef>> PROVE HeldByTask'
  BY <1>2
<1>3. ASSUME Caller PROVE HeldByTask'
  <2>1. ASSUME NEW h \in Handlers, FinalArrives(h) PROVE HeldByTask'
    BY <2>1 DEF FinalArrives, tasks
  <2>2. ASSUME SpeechEnded \/ BargeIn \/ CallerContinues PROVE HeldByTask'
    BY <1>2, <2>2 DEF SpeechEnded, BargeIn, CallerContinues, tasks
  <2>3. ~EagerEndOfTurn /\ ~TurnResumed /\ ~FinalConfirmsEager
    BY DEF EagerEndOfTurn, TurnResumed, FinalConfirmsEager
  <2> QED BY <1>3, <2>1, <2>2, <2>3 DEF Caller
<1>4. ASSUME NEW h \in Handlers, Handler(h) PROVE HeldByTask'
  <2>1. ASSUME NEW turn \in FinalTurn, NEW overlapped, NEW ids0, NEW gen0 \in [Seqs -> GenState], NEW ref0, NEW rows0,
               \A t \in Seqs : gen0[t] \in LiveState => t = ref0,
               Respond(h, turn, overlapped, ids0, gen0, ref0, rows0), eagerRef' = 0
        PROVE  HeldByTask'
    <3>1. CASE gen' = gen0 /\ llmRef' = ref0
      BY <2>1, <3>1
    <3>2. CASE Kickoff(turn.seq, ids0, staged, gen0, ref0)
      <4>1. turn.seq \in Seqs
        BY DEF FinalTurn
      <4> QED BY <2>1, <3>2, <4>1, KickoffHolds
    <3> QED BY <2>1, <3>1, <3>2 DEF Respond
  <2>2. ASSUME FinalAccepted(h) \/ FinalSettles(h) PROVE HeldByTask'
    <3>1. hctx[h] \in FinalTurn /\ [hctx[h] EXCEPT !.utts = MergedUtts(@)] \in FinalTurn
      BY <2>2, MergedTurnType DEF FinalAccepted, FinalSettles, TypeOK, HandlersOK
    <3> QED BY <1>1, <2>1, <2>2, <3>1 DEF FinalAccepted, FinalSettles
  <2>3. ASSUME NEW S PROVE \A t \in Seqs : Cancelled(S)[t] \in LiveState => Live(t) /\ t \notin S
    BY DEF Cancelled, LiveState
  <2>4. ASSUME CleanupEndsInterim(h) PROVE HeldByTask'
    BY <2>3, <2>4 DEF CleanupEndsInterim, CancelDownstream
  <2>5. ASSUME CleanupEndsFinal(h) PROVE HeldByTask'
    <3>1. hctx[h] \in FinalTurn
      BY <2>5 DEF CleanupEndsFinal, TypeOK, HandlersOK, NoTurn, InterimTurn
    <3>2. Cancelled({llmRef, eagerRef}) \in [Seqs -> GenState]
      BY CancelledType DEF TypeOK
    <3>3. \A t \in Seqs : Cancelled({llmRef, eagerRef})[t] \in LiveState => t = 0
      BY <2>3
    <3>4. Respond(h, hctx[h], TRUE, ids \cup {hctx[h].seq}, Cancelled({llmRef, eagerRef}), 0, rows)
          /\ eagerRef' = 0
      BY <2>5 DEF CleanupEndsFinal, CancelDownstream
    <3> QED BY <2>1, <3>1, <3>2, <3>3, <3>4
  <2>6. ASSUME FinalRetired(h) \/ FinalOverlaps(h) \/ CleanupCleared(h) \/ CleanupInvalidates(h) PROVE HeldByTask'
    BY <1>2, <2>6 DEF FinalRetired, FinalOverlaps, CleanupCleared, CleanupInvalidates, tasks
  <2> QED BY <1>4, <2>2, <2>4, <2>5, <2>6 DEF Handler
<1>5. ASSUME NEW s \in Seqs, Generation(s) PROVE HeldByTask'
  BY <1>1, <1>5 DEF Generation, LlmStart, LlmChunk, LlmFlush, LlmEmpty, LlmStore, LlmDone, LiveState
<1>6. ASSUME NEW s \in Seqs, Synthesis(s) PROVE HeldByTask'
  BY <1>2, <1>6 DEF Synthesis, SynthFrame, SynthFinal, Listen, tasks
<1>7. ASSUME SettleFires PROVE HeldByTask'
  <2>1. settle \in FinalTurn
    BY <1>7 DEF SettleFires, ArmedSettle, TypeOK, HandlersOK
  <2>2. settle.seq \in Seqs /\ Kickoff(settle.seq, ids, staged, gen, llmRef) /\ eagerRef' = eagerRef
    BY <1>7, <2>1 DEF SettleFires, FinalTurn
  <2> QED BY <1>1, <2>2, KickoffHolds
<1>8. ASSUME Output \/ Carrier PROVE HeldByTask'
  BY <1>2, <1>8 DEF Output, OutputSend, OutputSent, OutputBlock, OutputForwarded, OutputReleasesGate, Carrier,
                    PreMarkAck, PostMarkAck, tasks
<1>9. ASSUME UNCHANGED vars PROVE HeldByTask'
  BY <1>2, <1>9 DEF vars, tasks
<1> QED BY <1>3, <1>4, <1>5, <1>6, <1>7, <1>8, <1>9 DEF Next

\* With a transcriber that does not speculate, every running generation is one
\* the next barge-in cancels: none is orphaned.
THEOREM NoOrphanGenerationCorrect ==
    ASSUME Eager = FALSE
    PROVE  Spec => []NoOrphanGeneration
<1>1. Init => HeldByTask
  BY DEF Init, HeldByTask, Live, LiveState
<1>2. TypeOK /\ HeldByTask /\ [Next]_vars => HeldByTask'
  BY HeldStep
<1>3. HeldByTask => NoOrphanGeneration
  BY DEF HeldByTask, NoOrphanGeneration
<1> QED BY <1>1, <1>2, <1>3, TypeCorrect, PTL DEF Spec

-----------------------------------------------------------------------------
(* What follows is about the transcriber's coroutine while no other        *)
(* handler, such as the DTMF collector, has a turn under way.              *)

OthersIdle == \A h \in Handlers : h # Transcriber => hpc[h] = "idle"

\* Only a handler with a turn under way takes a step.
LEMMA OnlyTranscriberHandles ==
    ASSUME OthersIdle, NEW h \in Handlers, Handler(h)
    PROVE  h = Transcriber
BY DEF OthersIdle, Handler, FinalRetired, FinalAccepted, FinalSettles, FinalOverlaps, CleanupCleared,
       CleanupInvalidates, CleanupEndsInterim, CleanupEndsFinal

\* And a final gives its handler one.
LEMMA OnlyTranscriberHears ==
    ASSUME TypeOK, OthersIdle', NEW h \in Handlers, FinalArrives(h)
    PROVE  h = Transcriber
<1>1. hpc'[h] = "check"
  BY DEF FinalArrives, TypeOK, HandlersOK
<1> QED BY <1>1 DEF OthersIdle

-----------------------------------------------------------------------------
(* Silence after a barge-in. While the transcriber's coroutine is between  *)
(* the barge-in and the end of its cleanup no response is valid, and       *)
(* nothing it could resume or fire makes one valid again.                  *)

Interrupting == hctx[Transcriber].kind = "bargein"

NoneValid ==
    Interrupting => /\ hpc[Transcriber] \in {"clear", "synth", "flush"}
                    /\ ids = {} /\ settle = NoTurn

\* No step of any coroutine makes a response valid during the cleanup.
LEMMA NoneValidStep ==
    ASSUME OthersIdle, OthersIdle', TypeOK, NoneValid, [Next]_vars
    PROVE  NoneValid'
<1> USE DEF NoneValid, Interrupting
<1>1. hpc \in [Handlers -> HandlerState] /\ DOMAIN hctx = Handlers /\ Transcriber \in Handlers
  BY DEF TypeOK, HandlersOK
<1>2. ASSUME UNCHANGED handlers, ids' \subseteq ids PROVE NoneValid'
  BY <1>2 DEF handlers
<1>3. ASSUME Caller PROVE NoneValid'
  <2>1. ASSUME NEW h \in Handlers, FinalArrives(h) PROVE NoneValid'
    BY <1>1, <2>1, OnlyTranscriberHears DEF FinalArrives
  <2>2. ASSUME BargeIn PROVE NoneValid'
    BY <1>1, <2>2 DEF BargeIn, CleanupStart
  <2>3. ASSUME CallerContinues PROVE NoneValid'
    BY <1>1, <2>3 DEF CallerContinues, CleanupStart, InterimTurn, handlers
  <2>4. ASSUME EagerEndOfTurn \/ FinalConfirmsEager PROVE NoneValid'
    BY <2>4 DEF EagerEndOfTurn, FinalConfirmsEager, handlers
  <2>5. ASSUME SpeechEnded \/ TurnResumed PROVE NoneValid'
    BY <1>2, <2>5 DEF SpeechEnded, TurnResumed, gate
  <2> QED BY <1>3, <2>1, <2>2, <2>3, <2>4, <2>5 DEF Caller
<1>4. ASSUME NEW h \in Handlers, Handler(h) PROVE NoneValid'
  <2>1. h = Transcriber
    BY <1>4, OnlyTranscriberHandles
  <2>2. ASSUME hctx'[Transcriber] = NoTurn PROVE NoneValid'
    BY <2>2 DEF NoTurn
  <2>3. ASSUME FinalRetired(h) \/ FinalAccepted(h) \/ FinalSettles(h) \/ CleanupEndsInterim(h) \/ CleanupEndsFinal(h)
        PROVE  NoneValid'
    BY <1>1, <2>1, <2>2, <2>3 DEF FinalRetired, FinalAccepted, FinalSettles, CleanupEndsInterim,
                                  CleanupEndsFinal, Respond
  <2>4. ASSUME FinalOverlaps(h) PROVE NoneValid'
    <3>1. hctx[h].kind = "final" /\ hctx[h] \in FinalTurn
      BY <2>4 DEF FinalOverlaps, TypeOK, HandlersOK, FinalTurn
    <3>2. hctx'[h] = [hctx[h] EXCEPT !.utts = MergedUtts(@)]
      BY <1>1, <2>4 DEF FinalOverlaps, CleanupStart
    <3>3. hctx'[h].kind = "final"
      BY <3>1, <3>2 DEF FinalTurn
    <3> QED BY <2>1, <3>3
  <2>5. ASSUME CleanupCleared(h) \/ CleanupInvalidates(h) PROVE NoneValid'
    BY <1>1, <2>1, <2>5 DEF CleanupCleared, CleanupInvalidates, gate
  <2> QED BY <1>4, <2>3, <2>4, <2>5 DEF Handler
<1>5. ASSUME NEW s \in Seqs, Generation(s) PROVE NoneValid'
  BY <1>2, <1>5 DEF Generation, LlmStart, LlmChunk, LlmFlush, LlmEmpty, LlmStore, LlmDone, gate
<1>6. ASSUME NEW s \in Seqs, Synthesis(s) PROVE NoneValid'
  BY <1>2, <1>6 DEF Synthesis, SynthFrame, SynthFinal, Listen, gate
<1>7. ASSUME SettleFires PROVE NoneValid'
  BY <1>7 DEF SettleFires, ArmedSettle
<1>8. ASSUME Output PROVE NoneValid'
  <2>1. UNCHANGED handlers
    BY <1>8 DEF Output, OutputSend, OutputSent, OutputBlock, OutputForwarded, OutputReleasesGate
  <2>2. ids' \subseteq ids
    BY <1>8 DEF Output, OutputSend, OutputSent, OutputBlock, OutputForwarded, OutputReleasesGate, gate
  <2> QED BY <1>2, <2>1, <2>2
<1>9. ASSUME Carrier \/ UNCHANGED vars PROVE NoneValid'
  BY <1>2, <1>9 DEF Carrier, PreMarkAck, PostMarkAck, gate, vars
<1> QED BY <1>3, <1>4, <1>5, <1>6, <1>7, <1>8, <1>9 DEF Next

\* Only SEND hands a frame to the carrier, and only one of a valid response.
LEMMA SendIsValid ==
    ASSUME [Next]_vars, sending' # sending, sending' # NoFrame
    PROVE  ids # {} /\ OutputSend
<1>1. ASSUME Caller PROVE FALSE
  BY <1>1 DEF Caller, FinalArrives, SpeechEnded, BargeIn, CallerContinues, EagerEndOfTurn, TurnResumed,
              FinalConfirmsEager, output
<1>2. ASSUME NEW h \in Handlers, Handler(h) PROVE FALSE
  BY <1>2 DEF Handler, FinalRetired, FinalAccepted, FinalSettles, FinalOverlaps, CleanupCleared,
              CleanupInvalidates, CleanupEndsInterim, CleanupEndsFinal, CancelDownstream, output
<1>3. ASSUME NEW s \in Seqs, Generation(s) \/ Synthesis(s) PROVE FALSE
  BY <1>3 DEF Generation, LlmStart, LlmChunk, LlmFlush, LlmEmpty, LlmStore, LlmDone, Synthesis, SynthFrame,
              SynthFinal, Listen, output
<1>4. ASSUME SettleFires \/ Carrier \/ UNCHANGED vars PROVE FALSE
  BY <1>4 DEF SettleFires, Carrier, PreMarkAck, PostMarkAck, output, vars
<1>5. ASSUME OutputSent \/ OutputBlock \/ OutputForwarded \/ OutputReleasesGate PROVE FALSE
  BY <1>5 DEF OutputSent, OutputBlock, OutputForwarded, OutputReleasesGate, output
<1>6. OutputSend
  BY <1>1, <1>2, <1>3, <1>4, <1>5 DEF Next, Output
<1> QED BY <1>6 DEF OutputSend

\* While the transcriber's is the only handler at work, from a barge-in to the end
\* of its cleanup nothing reaches the carrier, for any number of pending responses
\* and any interleaving with the output loop, the generations and the timer.
THEOREM BargeInSilencesCorrect == Spec /\ []OthersIdle => BargeInSilences
<1>1. Init => NoneValid
  BY DEF Init, NoneValid, Interrupting, NoTurn
<1>2. OthersIdle /\ OthersIdle' /\ TypeOK /\ NoneValid /\ [Next]_vars => NoneValid'
  BY NoneValidStep
<1>3. NoneValid /\ [Next]_vars
        => [sending' # sending /\ sending' # NoFrame => hctx[Transcriber].kind # "bargein"]_<<sending, hctx>>
  BY SendIsValid DEF NoneValid, Interrupting
<1> QED BY <1>1, <1>2, <1>3, TypeCorrect, PTL DEF Spec, BargeInSilences

-----------------------------------------------------------------------------
(* The order of what is heard. A response that began can be heard as long  *)
(* as it is valid, so it must be the only valid one that began, and newer  *)
(* than all that was heard.                                                *)

Mine == hctx[Transcriber].seq

\* Nothing of the response is there yet.
Unspoken(s) ==
    /\ gen[s] = "none" /\ synth[s] = "none" /\ s \notin sent
    /\ \A i \in DOMAIN queue : queue[i].seq # s

\* The handler works on the newest turn, and its cleanup leaves none waiting.
HandledTurn ==
    /\ eagerRef = 0 /\ Mine \in {0, curr} /\ settle.seq <= curr
    /\ hpc[Transcriber] = "idle" => Mine = 0
    /\ hpc[Transcriber] \in {"clear", "synth", "flush"} => settle = NoTurn
    /\ hpc[Transcriber] = "flush" => ids = {}
    /\ Mine # 0 => settle.seq # Mine

\* Turns to come, the handler's and the one that waits for the window to close.
NotBegun == \A s \in Seqs : s > curr \/ s = Mine \/ s = settle.seq => Unspoken(s)

OneResponse ==
    /\ \A s, t \in ids : s # Mine /\ t # Mine => s = t
    /\ ArmedSettle => ids \subseteq {Mine, settle.seq}

Newest ==
    /\ \A s \in ids, t \in sent : t <= s
    /\ \A t \in sent : t <= curr /\ (ArmedSettle => t <= settle.seq)
    /\ \A s \in ids : s <= curr

OrderInv == HandledTurn /\ NotBegun /\ OneResponse /\ Newest

LEMMA TurnTypes ==
    ASSUME TypeOK
    PROVE  /\ Transcriber \in Handlers /\ DOMAIN hctx = Handlers /\ DOMAIN hpc = Handlers
           /\ settle.seq \in 0..MaxSeq /\ (ArmedSettle <=> settle.seq # 0)
           /\ Mine \in 0..MaxSeq /\ (hctx[Transcriber].kind = "final" <=> Mine # 0)
           /\ curr \in Nat /\ ids \subseteq Nat /\ sent \subseteq Nat /\ Seqs \subseteq Nat
           /\ 0 \notin Seqs
<1>1. /\ settle \in FinalTurn \cup {NoTurn} /\ Transcriber \in Handlers
      /\ hctx \in [Handlers -> FinalTurn \cup {NoTurn, InterimTurn("bargein"),
                                               InterimTurn("continuation")}]
      /\ hpc \in [Handlers -> HandlerState]
  BY PipelineAssumption DEF TypeOK, HandlersOK
<1>2. NoTurn.seq = 0 /\ NoTurn.kind = "none" /\ 0 \in 0..MaxSeq
  BY PipelineAssumption DEF NoTurn
<1>3. \A turn \in FinalTurn : turn.seq \in 0..MaxSeq /\ turn.seq # 0 /\ turn.kind = "final"
  BY PipelineAssumption DEF FinalTurn, Seqs
<1>4. \A k \in {"bargein", "continuation"} : InterimTurn(k).seq = 0 /\ InterimTurn(k).kind # "final"
  BY DEF InterimTurn
<1>5. settle.seq \in 0..MaxSeq /\ (ArmedSettle <=> settle.seq # 0)
  BY <1>1, <1>2, <1>3 DEF ArmedSettle
<1>6. Mine \in 0..MaxSeq /\ (hctx[Transcriber].kind = "final" <=> Mine # 0)
  BY <1>1, <1>2, <1>3, <1>4 DEF Mine
<1>7. curr \in Nat /\ ids \subseteq Nat /\ sent \subseteq Nat /\ Seqs \subseteq Nat /\ 0 \notin Seqs
  BY PipelineAssumption DEF TypeOK, GateOK, HistoryOK, Seqs
<1> QED BY <1>1, <1>5, <1>6, <1>7

LEMMA QueueShrinks ==
    ASSUME TypeOK, queue # << >>
    PROVE  /\ 1 \in DOMAIN queue /\ Head(queue) = queue[1]
           /\ \A i \in DOMAIN Tail(queue) : i + 1 \in DOMAIN queue /\ Tail(queue)[i] = queue[i + 1]
<1>1. queue \in Seq(Frame)
  BY DEF TypeOK, OutputOK
<1> QED BY <1>1

\* What begins nothing, hears nothing and touches no turn keeps the order.
LEMMA OrderElsewhere ==
    ASSUME OrderInv, UNCHANGED handlers, curr' = curr, eagerRef' = eagerRef, sent' = sent,
           ids' \subseteq ids, \A s \in Seqs : Unspoken(s) => Unspoken(s)'
    PROVE  OrderInv'
<1>1. Mine' = Mine /\ settle' = settle /\ hpc' = hpc /\ (ArmedSettle' <=> ArmedSettle)
  BY DEF handlers, Mine, ArmedSettle
<1>2. HandledTurn'
  BY <1>1 DEF OrderInv, HandledTurn
<1>3. NotBegun'
  BY <1>1 DEF OrderInv, NotBegun
<1>4. OneResponse' /\ Newest'
  BY <1>1 DEF OrderInv, OneResponse, Newest
<1> QED BY <1>2, <1>3, <1>4 DEF OrderInv

\* The handler's turn waits for the window, or its generation starts: it is the only
\* valid response either way.
LEMMA RespondOrders ==
    ASSUME TypeOK, OrderInv,
           NEW turn \in FinalTurn, turn.seq = Mine, NEW overlapped \in BOOLEAN,
           overlapped \/ ~ArmedSettle,
           NEW ids0, ids0 \subseteq {Mine}, NEW gen0, \A t \in Seqs : gen0[t] \in {gen[t], "none"},
           NEW ref0, NEW rows0, Respond(Transcriber, turn, overlapped, ids0, gen0, ref0, rows0),
           curr' = curr, sent' = sent, eagerRef' = 0, queue' \in {queue, << >>},
           \A t \in Seqs : synth[t] = "none" => synth'[t] = "none"
    PROVE  OrderInv'
<1>1. hctx'[Transcriber] = NoTurn /\ hpc'[Transcriber] = "idle"
  BY TurnTypes DEF Respond
<1>2. Mine' = 0 /\ NoTurn.seq = 0
  BY <1>1 DEF Mine, NoTurn
<1>3. Mine = curr /\ Mine \in Seqs /\ Mine # 0 /\ Unspoken(Mine)
  BY TurnTypes DEF FinalTurn, OrderInv, HandledTurn, NotBegun
<1>4. ASSUME NEW s \in Seqs, Unspoken(s), gen'[s] = "none" PROVE Unspoken(s)'
  BY <1>4 DEF Unspoken
<1>5. CASE /\ settle' = turn /\ ids' = ids0 /\ gen' = gen0
  <2>1. \A s \in Seqs : Unspoken(s) => Unspoken(s)'
    BY <1>4, <1>5 DEF Unspoken
  <2>2. ArmedSettle' /\ settle'.seq = curr
    BY <1>3, <1>5 DEF ArmedSettle, FinalTurn, NoTurn
  <2>3. HandledTurn'
    BY <1>1, <1>2, <1>3, <2>2, TurnTypes DEF HandledTurn
  <2>4. NotBegun'
    BY <1>2, <1>3, <2>1, <2>2, TurnTypes DEF NotBegun, OrderInv
  <2>5. OneResponse' /\ Newest'
    BY <1>3, <1>5, <2>2, TurnTypes DEF OneResponse, Newest, OrderInv
  <2> QED BY <2>3, <2>4, <2>5 DEF OrderInv
<1>6. CASE settle' = settle /\ ~ArmedSettle /\ Kickoff(turn.seq, ids0, staged, gen0, ref0)
  <2>1. ids' = {Mine} /\ \A s \in Seqs : s # Mine => gen'[s] \in {gen[s], "none"}
    BY <1>6 DEF Kickoff
  <2>2. \A s \in Seqs : s # Mine /\ Unspoken(s) => Unspoken(s)'
    BY <1>4, <2>1 DEF Unspoken
  <2>3. ~ArmedSettle' /\ settle' = NoTurn
    BY <1>6 DEF ArmedSettle
  <2>4. HandledTurn'
    BY <1>1, <1>2, <2>3, TurnTypes DEF HandledTurn
  <2>5. NotBegun'
    BY <1>2, <1>3, <2>2, <2>3, TurnTypes DEF NotBegun, OrderInv
  <2>6. OneResponse' /\ Newest'
    BY <1>3, <2>1, <2>3, TurnTypes DEF OneResponse, Newest, OrderInv
  <2> QED BY <2>4, <2>5, <2>6 DEF OrderInv
<1> QED BY <1>5, <1>6 DEF Respond

LEMMA CallerOrders ==
    ASSUME ~Eager, TypeOK, OthersIdle', OrderInv, Caller
    PROVE  OrderInv'
<1>1. ASSUME NEW h \in Handlers, FinalArrives(h) PROVE OrderInv'
  <2>1. h = Transcriber
    BY <1>1, OnlyTranscriberHears
  <2>2. /\ curr' = curr + 1 /\ ids' = ids \cup {curr + 1} /\ settle' = settle /\ Mine = 0
        /\ UNCHANGED <<gen, eagerRef, synth, queue, sent>> /\ curr < MaxSeq
    BY <1>1, <2>1 DEF FinalArrives, OrderInv, HandledTurn, synthesis, output
  <2>3. hctx'[Transcriber] = [kind |-> "final", seq |-> curr + 1, utts |-> {curr + 1}]
        /\ hpc'[Transcriber] = "check"
    BY <1>1, <2>1, TurnTypes DEF FinalArrives
  <2>4. Mine' = curr + 1 /\ (ArmedSettle' <=> ArmedSettle) /\ curr + 1 \in Seqs /\ curr + 1 > curr
    BY <2>2, <2>3, TurnTypes, PipelineAssumption DEF Mine, ArmedSettle, Seqs
  <2>5. \A s \in Seqs : Unspoken(s) => Unspoken(s)'
    BY <2>2 DEF Unspoken
  <2>6. HandledTurn'
    BY <2>2, <2>3, <2>4, TurnTypes DEF OrderInv, HandledTurn
  <2>7. NotBegun'
    <3> SUFFICES ASSUME NEW s \in Seqs, s > curr' \/ s = Mine' \/ s = settle'.seq
                 PROVE  s > curr \/ s = settle.seq
      BY <2>5 DEF OrderInv, NotBegun
    <3> QED BY <2>2, <2>4, TurnTypes
  <2>8. OneResponse'
    <3>1. \A s, t \in ids : s = t
      BY <2>2, TurnTypes DEF OrderInv, OneResponse, TypeOK, GateOK
    <3>2. ArmedSettle => ids \subseteq {settle.seq}
      BY <2>2, TurnTypes DEF OrderInv, OneResponse, TypeOK, GateOK
    <3> QED BY <2>2, <2>4, <3>1, <3>2 DEF OneResponse
  <2>9. Newest'
    BY <2>2, <2>4, TurnTypes DEF OrderInv, Newest
  <2> QED BY <2>6, <2>7, <2>8, <2>9 DEF OrderInv
<1>2. ASSUME BargeIn \/ CallerContinues, ~UNCHANGED handlers PROVE OrderInv'
  <2>1. /\ ids' \subseteq ids /\ settle' = NoTurn /\ hpc'[Transcriber] = "clear"
        /\ UNCHANGED <<curr, gen, eagerRef, synth, queue, sent>>
        /\ \E k : hctx'[Transcriber] = InterimTurn(k)
    BY <1>2, TurnTypes DEF BargeIn, CallerContinues, CleanupStart, tasks, synthesis, output, history
  <2>2. Mine' = 0 /\ ~ArmedSettle' /\ settle'.seq = 0 /\ Mine = 0
    BY <1>2, <2>1 DEF Mine, InterimTurn, ArmedSettle, NoTurn, BargeIn, CallerContinues, OrderInv,
                      HandledTurn
  <2>3. \A s \in Seqs : Unspoken(s) => Unspoken(s)'
    BY <2>1 DEF Unspoken
  <2>4. HandledTurn' /\ NotBegun'
    BY <2>1, <2>2, <2>3, TurnTypes DEF OrderInv, HandledTurn, NotBegun
  <2>5. OneResponse' /\ Newest'
    BY <2>1, <2>2 DEF OrderInv, OneResponse, Newest
  <2> QED BY <2>4, <2>5 DEF OrderInv
<1>3. ASSUME SpeechEnded \/ BargeIn \/ CallerContinues, UNCHANGED handlers PROVE OrderInv'
  <2>1. ids' \subseteq ids /\ UNCHANGED <<curr, gen, eagerRef, synth, queue, sent>>
    BY <1>3 DEF SpeechEnded, BargeIn, CallerContinues, tasks, synthesis, output, history
  <2>2. \A s \in Seqs : Unspoken(s) => Unspoken(s)'
    BY <2>1 DEF Unspoken
  <2> QED BY <1>3, <2>1, <2>2, OrderElsewhere
<1>4. ~EagerEndOfTurn /\ ~TurnResumed /\ ~FinalConfirmsEager
  BY DEF EagerEndOfTurn, TurnResumed, FinalConfirmsEager, OrderInv, HandledTurn
<1>5. SpeechEnded => UNCHANGED handlers
  BY DEF SpeechEnded
<1> QED BY <1>1, <1>2, <1>3, <1>4, <1>5 DEF Caller

LEMMA HandlerOrders ==
    ASSUME ~Eager, TypeOK, OrderInv, Handler(Transcriber)
    PROVE  OrderInv'
<1> DEFINE T == Transcriber
<1>0. hctx[T] \in FinalTurn <=> hctx[T].kind = "final"
  BY TurnTypes DEF TypeOK, HandlersOK, FinalTurn, NoTurn, InterimTurn
<1>a. hpc[T] = "check" => hctx[T] \in FinalTurn
  BY TurnTypes DEF TypeOK, HandlersOK
<1>b. UNCHANGED <<gen, synth, queue, sent>> => \A s \in Seqs : Unspoken(s) => Unspoken(s)'
  BY DEF Unspoken
<1>c. ASSUME NEW turn \in FinalTurn
      PROVE  /\ [turn EXCEPT !.utts = MergedUtts(@)] \in FinalTurn
             /\ [turn EXCEPT !.utts = MergedUtts(@)].seq = turn.seq
  <2>1. MergedUtts(turn.utts) \subseteq Seqs
    BY MergeType DEF TypeOK, FinalTurn
  <2> QED BY <2>1 DEF FinalTurn
<1>1. CASE FinalRetired(T)
  <2>1. /\ ids' = ids \ {Mine} /\ hctx'[T] = NoTurn /\ hpc'[T] = "idle"
        /\ UNCHANGED <<settle, curr, gen, eagerRef, synth, queue, sent>>
    BY <1>1, TurnTypes DEF FinalRetired, Mine, tasks, synthesis, output
  <2>2. Mine' = 0 /\ (ArmedSettle' <=> ArmedSettle)
    BY <2>1 DEF Mine, NoTurn, ArmedSettle
  <2>3. HandledTurn'
    BY <2>1, <2>2, TurnTypes DEF OrderInv, HandledTurn
  <2>4. NotBegun'
    BY <1>b, <2>1, <2>2, TurnTypes DEF OrderInv, NotBegun
  <2>5. OneResponse' /\ Newest'
    BY <2>1, <2>2 DEF OrderInv, OneResponse, Newest
  <2> QED BY <2>3, <2>4, <2>5 DEF OrderInv
<1>2. CASE FinalAccepted(T)
  <2>1. ids \subseteq {Mine} /\ hctx[T] \in FinalTurn /\ ~ArmedSettle
    BY <1>2, <1>a DEF FinalAccepted, Inflight, Mine
  <2>2. Respond(T, hctx[T], FALSE, ids, gen, llmRef, rows)
    BY <1>2 DEF FinalAccepted
  <2>3. UNCHANGED <<curr, sent, eagerRef, queue, synth>>
    BY <1>2 DEF FinalAccepted, synthesis, output
  <2>4. eagerRef' = 0
    BY <2>3 DEF OrderInv, HandledTurn
  <2> QED BY <2>1, <2>2, <2>3, <2>4, RespondOrders DEF Mine
<1>3. CASE FinalSettles(T)
  <2> DEFINE turn == [hctx[T] EXCEPT !.utts = MergedUtts(@)]
  <2>1. ids \subseteq {Mine} /\ hctx[T] \in FinalTurn
    BY <1>3, <1>a DEF FinalSettles, Inflight, Mine
  <2>2. turn \in FinalTurn /\ turn.seq = Mine
    BY <1>c, <2>1 DEF Mine
  <2>3. Respond(T, turn, TRUE, ids \cup {Mine}, gen, llmRef, PoppedRows)
    BY <1>3 DEF FinalSettles, Mine
  <2>4. UNCHANGED <<curr, sent, eagerRef, queue, synth>>
    BY <1>3 DEF FinalSettles, synthesis, output
  <2>5. eagerRef' = 0
    BY <2>4 DEF OrderInv, HandledTurn
  <2> HIDE DEF turn
  <2> QED BY <2>1, <2>2, <2>3, <2>4, <2>5, RespondOrders
<1>4. CASE FinalOverlaps(T)
  <2> DEFINE turn == [hctx[T] EXCEPT !.utts = MergedUtts(@)]
  <2>1. /\ hctx'[T] = turn /\ hpc'[T] = "clear" /\ settle' = NoTurn
        /\ UNCHANGED <<curr, ids, gen, eagerRef, synth, queue, sent>>
    BY <1>4, TurnTypes DEF FinalOverlaps, CleanupStart, gate, tasks, synthesis, output
  <2>2. turn.seq = Mine
    BY <1>a, <1>c, <1>4 DEF FinalOverlaps, Mine
  <2> HIDE DEF turn
  <2>3. Mine' = Mine /\ ~ArmedSettle' /\ settle'.seq = 0
    BY <2>1, <2>2 DEF Mine, ArmedSettle, NoTurn
  <2>4. HandledTurn'
    BY <2>1, <2>3, TurnTypes DEF OrderInv, HandledTurn
  <2>5. NotBegun'
    BY <1>b, <2>1, <2>3, TurnTypes DEF OrderInv, NotBegun
  <2>6. OneResponse' /\ Newest'
    BY <2>1, <2>3 DEF OrderInv, OneResponse, Newest
  <2> QED BY <2>4, <2>5, <2>6 DEF OrderInv
<1>5. CASE CleanupCleared(T) \/ CleanupInvalidates(T)
  <2>1. /\ ids' \subseteq ids /\ (hpc'[T] = "flush" => ids' = {}) /\ hpc'[T] \in {"synth", "flush"}
        /\ hpc[T] \in {"clear", "synth"}
        /\ UNCHANGED <<hctx, settle, curr, gen, eagerRef, queue, sent>>
    BY <1>5, TurnTypes DEF CleanupCleared, CleanupInvalidates, gate, tasks, output, history
  <2>2. \A s \in Seqs : synth[s] = "none" => synth'[s] = "none"
    BY <1>5 DEF CleanupCleared, CleanupInvalidates, SynthDrops, synthesis
  <2>3. Mine' = Mine /\ (ArmedSettle' <=> ArmedSettle)
    BY <2>1 DEF Mine, ArmedSettle
  <2>4. \A s \in Seqs : Unspoken(s) => Unspoken(s)'
    BY <2>1, <2>2 DEF Unspoken
  <2>5. HandledTurn'
    BY <2>1, <2>3 DEF OrderInv, HandledTurn
  <2>6. NotBegun' /\ OneResponse' /\ Newest'
    BY <2>1, <2>3, <2>4 DEF OrderInv, NotBegun, OneResponse, Newest
  <2> QED BY <2>5, <2>6 DEF OrderInv
<1>6. CASE CleanupEndsInterim(T)
  <2>1. /\ hpc'[T] = "idle" /\ hctx'[T] = NoTurn /\ gen' = Cancelled({llmRef, eagerRef})
        /\ queue' = << >> /\ eagerRef' = 0 /\ UNCHANGED <<curr, ids, settle, sent>>
        /\ hctx[T].kind # "final" /\ hpc[T] = "flush"
    BY <1>6, TurnTypes DEF CleanupEndsInterim, CancelDownstream, gate, history
  <2>2. \A s \in Seqs : synth[s] = "none" => synth'[s] = "none"
    BY <1>6 DEF CleanupEndsInterim, CancelDownstream, SynthDrops, synthesis
  <2>3. \A s \in Seqs : gen[s] = "none" => gen'[s] = "none"
    BY <2>1 DEF Cancelled
  <2>4. \A s \in Seqs : Unspoken(s) => Unspoken(s)'
    <3>1. DOMAIN queue' = {}
      BY <2>1
    <3> QED BY <2>1, <2>2, <2>3, <3>1 DEF Unspoken
  <2>5. Mine' = 0 /\ Mine = 0 /\ (ArmedSettle' <=> ArmedSettle)
    BY <2>1, TurnTypes DEF Mine, NoTurn, ArmedSettle
  <2>6. HandledTurn'
    BY <2>1, <2>5, TurnTypes DEF OrderInv, HandledTurn
  <2>7. NotBegun' /\ OneResponse' /\ Newest'
    BY <2>1, <2>4, <2>5 DEF OrderInv, NotBegun, OneResponse, Newest
  <2> QED BY <2>6, <2>7 DEF OrderInv
<1>7. CASE CleanupEndsFinal(T)
  <2>1. hctx[T] \in FinalTurn /\ ids = {} /\ settle = NoTurn
    BY <1>0, <1>7 DEF CleanupEndsFinal, OrderInv, HandledTurn
  <2>2. Respond(T, hctx[T], TRUE, ids \cup {Mine}, Cancelled({llmRef, eagerRef}), 0, rows)
    BY <1>7 DEF CleanupEndsFinal, Mine
  <2>3. UNCHANGED <<curr, sent>> /\ eagerRef' = 0 /\ queue' = << >>
    BY <1>7 DEF CleanupEndsFinal, CancelDownstream
  <2>4. \A s \in Seqs : synth[s] = "none" => synth'[s] = "none"
    BY <1>7 DEF CleanupEndsFinal, CancelDownstream, SynthDrops, synthesis
  <2>5. \A s \in Seqs : Cancelled({llmRef, eagerRef})[s] \in {gen[s], "none"}
    BY DEF Cancelled
  <2>6. ids \cup {Mine} \subseteq {Mine}
    BY <2>1
  <2> QED BY <2>1, <2>2, <2>3, <2>4, <2>5, <2>6, RespondOrders DEF Mine
<1> QED BY <1>1, <1>2, <1>3, <1>4, <1>5, <1>6, <1>7 DEF Handler

LEMMA SettleOrders ==
    ASSUME TypeOK, OrderInv, SettleFires
    PROVE  OrderInv'
<1> DEFINE s == settle.seq
<1>1. ArmedSettle /\ Kickoff(s, ids, staged, gen, llmRef) /\ settle' = NoTurn
      /\ UNCHANGED <<hpc, hctx, curr, eagerRef, synth, queue, sent>>
  BY DEF SettleFires, synthesis, output
<1>2. ids' \subseteq ids \cup {s} /\ \A t \in Seqs : t # s => gen'[t] \in {gen[t], "none"}
  BY <1>1 DEF Kickoff
<1>3. Mine' = Mine /\ ~ArmedSettle' /\ settle'.seq = 0
  BY <1>1 DEF Mine, ArmedSettle, NoTurn
<1>4. \A t \in Seqs : t # s /\ Unspoken(t) => Unspoken(t)'
  BY <1>1, <1>2 DEF Unspoken
<1>5. s <= curr /\ s # 0 /\ (Mine # 0 => s # Mine /\ Mine = curr) /\ s \in Nat
  BY <1>1, TurnTypes DEF OrderInv, HandledTurn
<1> HIDE DEF s
<1>6. HandledTurn'
  <2>1. hpc[Transcriber] \notin {"clear", "synth", "flush"}
    BY <1>1 DEF OrderInv, HandledTurn, ArmedSettle
  <2> QED BY <1>1, <1>3, <2>1, TurnTypes DEF OrderInv, HandledTurn
<1>7. NotBegun'
  BY <1>1, <1>3, <1>4, <1>5, TurnTypes DEF OrderInv, NotBegun
<1>8. ids' \subseteq {Mine, s} /\ ids' \subseteq Seqs \cup {s}
  BY <1>1, <1>2 DEF OrderInv, OneResponse, TypeOK, GateOK, s
<1>9. OneResponse'
  BY <1>3, <1>8 DEF OneResponse
<1>10. Newest'
  <2>1. \A t \in sent : t <= s /\ t <= curr
    BY <1>1 DEF OrderInv, Newest, s
  <2>2. Mine \in ids' => Mine = curr \/ Mine = s
    BY <1>5, <1>8, TurnTypes
  <2>3. \A t \in ids' : t = s \/ t = curr
    BY <1>8, <2>2
  <2>4. \A t \in ids' : t <= curr /\ \A u \in sent : u <= t
    BY <1>5, <2>1, <2>3, TurnTypes
  <2> QED BY <1>1, <1>3, <2>1, <2>4 DEF Newest
<1> QED BY <1>6, <1>7, <1>9, <1>10 DEF OrderInv

LEMMA SendOrders ==
    ASSUME TypeOK, OrderInv, OutputSend
    PROVE  OrderInv' /\ \A t \in sent : t <= sending'.seq
<1> DEFINE f == Head(queue)
           s == f.seq
<1>1. /\ s \in ids /\ sent' = sent \cup {s} /\ sending' = f /\ queue # << >> /\ queue' = Tail(queue)
      /\ UNCHANGED <<curr, ids, handlers, gen, eagerRef, synth>>
  BY DEF OutputSend, Judging, gate, tasks, synthesis
<1>2. 1 \in DOMAIN queue /\ f = queue[1]
      /\ \A i \in DOMAIN queue' : i + 1 \in DOMAIN queue /\ queue'[i] = queue[i + 1]
  BY <1>1, QueueShrinks
<1>3. ~Unspoken(s)
  BY <1>2 DEF Unspoken
<1> HIDE DEF f
<1>4. s \in Seqs
  BY <1>1 DEF TypeOK, GateOK
<1>5. s <= curr /\ s # Mine /\ (ArmedSettle => s = settle.seq)
  BY <1>1, <1>3, <1>4 DEF OrderInv, Newest, NotBegun, OneResponse
<1>6. Mine' = Mine /\ (ArmedSettle' <=> ArmedSettle) /\ settle' = settle /\ hpc' = hpc
  BY <1>1 DEF handlers, Mine, ArmedSettle
<1>7. \A t \in Seqs : t # s /\ Unspoken(t) => Unspoken(t)'
  BY <1>1, <1>2 DEF Unspoken
<1>8. HandledTurn'
  BY <1>1, <1>6 DEF OrderInv, HandledTurn
<1>9. NotBegun'
  BY <1>1, <1>3, <1>6, <1>7 DEF OrderInv, NotBegun
<1>10. OneResponse'
  BY <1>1, <1>6 DEF OrderInv, OneResponse
<1>11. Newest'
  <2>1. \A t \in ids : t = s \/ (t = Mine /\ t = curr)
    BY <1>1, <1>5, TurnTypes DEF OrderInv, OneResponse, HandledTurn, TypeOK, GateOK
  <2>2. s \in Nat
    BY <1>4, TurnTypes
  <2>3. /\ \A t \in sent : t <= s /\ t <= curr /\ (ArmedSettle => t <= settle.seq)
        /\ \A t \in ids : t <= curr
    BY <1>1 DEF OrderInv, Newest
  <2>4. ids' = ids /\ curr' = curr /\ sent' = sent \cup {s} /\ s <= s
    BY <1>1, <2>2
  <2> HIDE DEF s
  <2>5. \A t \in sent' : t <= s /\ t <= curr
    BY <1>5, <2>3, <2>4
  <2>6. \A t \in ids', u \in sent' : u <= t
    BY <2>1, <2>4, <2>5
  <2>7. ArmedSettle' => \A t \in sent' : t <= settle'.seq
    BY <1>5, <1>6, <2>5
  <2> QED BY <2>3, <2>4, <2>5, <2>6, <2>7 DEF Newest
<1>12. \A t \in sent : t <= s
  BY <1>1 DEF OrderInv, Newest
<1> QED BY <1>1, <1>8, <1>9, <1>10, <1>11, <1>12 DEF OrderInv

LEMMA RestOrders ==
    ASSUME TypeOK, OrderInv,
           \/ \E s \in Seqs : Generation(s) \/ Synthesis(s)
           \/ OutputSent \/ OutputBlock \/ OutputForwarded \/ OutputReleasesGate
           \/ Carrier \/ UNCHANGED vars
    PROVE  OrderInv'
<1>1. ASSUME NEW s \in Seqs, Generation(s) PROVE OrderInv'
  <2>1. UNCHANGED <<ids, curr, handlers, eagerRef, queue, sent>>
    BY <1>1 DEF Generation, LlmStart, LlmChunk, LlmFlush, LlmEmpty, LlmStore, LlmDone, gate, output,
                history
  <2>2. gen[s] # "none" /\ \A t \in Seqs : t # s => gen'[t] = gen[t] /\ synth'[t] = synth[t]
    <3>1. gen[s] # "none"
      BY <1>1 DEF Generation, LlmStart, LlmChunk, LlmFlush, LlmEmpty, LlmStore, LlmDone
    <3>2. \E r : gen' = [gen EXCEPT ![s] = r]
      BY <1>1 DEF Generation, LlmStart, LlmChunk, LlmFlush, LlmEmpty, LlmStore, LlmDone
    <3>3. synth' = synth \/ \E r : synth' = [synth EXCEPT ![s] = r]
      BY <1>1 DEF Generation, LlmStart, LlmChunk, LlmFlush, LlmEmpty, LlmStore, LlmDone, synthesis
    <3> QED BY <3>1, <3>2, <3>3 DEF TypeOK, TasksOK, SynthesisOK
  <2>3. \A t \in Seqs : Unspoken(t) => Unspoken(t)'
    BY <2>1, <2>2 DEF Unspoken
  <2> QED BY <2>1, <2>3, OrderElsewhere
<1>2. ASSUME NEW s \in Seqs, Synthesis(s) PROVE OrderInv'
  <2>1. UNCHANGED <<ids, curr, handlers, eagerRef, gen, sent>>
    BY <1>2 DEF Synthesis, SynthFrame, SynthFinal, Listen, gate, tasks, history
  <2>2. synth[s] # "none" /\ \A t \in Seqs : t # s => synth'[t] = synth[t]
    BY <1>2 DEF Synthesis, SynthFrame, SynthFinal, TypeOK, SynthesisOK
  <2>3. queue' = queue \/ \E f \in BOOLEAN : queue' = Append(queue, [seq |-> s, final |-> f])
    BY <1>2 DEF Synthesis, SynthFrame, SynthFinal, Listen
  <2>4. ASSUME NEW t \in Seqs, t # s, \A i \in DOMAIN queue : queue[i].seq # t
        PROVE  \A i \in DOMAIN queue' : queue'[i].seq # t
    <3>1. CASE queue' = queue
      BY <2>4, <3>1
    <3>2. ASSUME NEW f \in BOOLEAN, queue' = Append(queue, [seq |-> s, final |-> f])
          PROVE  \A i \in DOMAIN queue' : queue'[i].seq # t
      <4>1. queue \in Seq(Frame)
        BY DEF TypeOK, OutputOK
      <4>2. /\ DOMAIN queue' = 1 .. Len(queue) + 1 /\ DOMAIN queue = 1 .. Len(queue)
            /\ Len(queue) \in Nat
            /\ \A i \in 1..Len(queue) : queue'[i] = queue[i]
            /\ queue'[Len(queue) + 1] = [seq |-> s, final |-> f]
        BY <3>2, <4>1
      <4> QED BY <2>4, <4>2
    <3> QED BY <2>3, <3>1, <3>2
  <2>5. \A t \in Seqs : Unspoken(t) => Unspoken(t)'
    BY <2>1, <2>2, <2>4 DEF Unspoken
  <2> QED BY <2>1, <2>5, OrderElsewhere
<1>3. CASE OutputBlock
  <2>1. UNCHANGED <<ids, curr, handlers, eagerRef, gen, synth, sent>>
        /\ queue # << >> /\ queue' = Tail(queue)
    BY <1>3 DEF OutputBlock, Judging, gate, tasks, synthesis
  <2>2. \A t \in Seqs : Unspoken(t) => Unspoken(t)'
    BY <2>1, QueueShrinks DEF Unspoken
  <2> QED BY <2>1, <2>2, OrderElsewhere
<1>4. CASE OutputSent \/ OutputForwarded \/ OutputReleasesGate \/ Carrier \/ UNCHANGED vars
  <2>1. ids' \subseteq ids /\ UNCHANGED <<curr, handlers, eagerRef, gen, synth, queue, sent>>
    BY <1>4 DEF OutputSent, OutputForwarded, OutputReleasesGate, Carrier, PreMarkAck, PostMarkAck,
                vars, gate, tasks, synthesis, output, history
  <2>2. \A t \in Seqs : Unspoken(t) => Unspoken(t)'
    BY <2>1 DEF Unspoken
  <2> QED BY <2>1, <2>2, OrderElsewhere
<1> QED BY <1>1, <1>2, <1>3, <1>4

LEMMA OrderInit == ASSUME Init PROVE OrderInv
<1>1. /\ eagerRef = 0 /\ curr = 0 /\ ids = {} /\ sent = {} /\ settle = NoTurn /\ queue = << >>
      /\ hctx[Transcriber] = NoTurn /\ gen = [s \in Seqs |-> "none"]
      /\ synth = [s \in Seqs |-> "none"] /\ hpc[Transcriber] = "idle"
  BY PipelineAssumption DEF Init
<1>2. Mine = 0 /\ settle.seq = 0 /\ ~ArmedSettle
  BY <1>1 DEF Mine, NoTurn, ArmedSettle
<1> QED BY <1>1, <1>2 DEF OrderInv, HandledTurn, NotBegun, Unspoken, OneResponse, Newest

LEMMA OrderStep ==
    ASSUME ~Eager, TypeOK, OthersIdle, OthersIdle', OrderInv, [Next]_vars
    PROVE  OrderInv'
<1>1. ASSUME NEW h \in Handlers, Handler(h) PROVE OrderInv'
  BY <1>1, OnlyTranscriberHandles, HandlerOrders
<1> QED BY <1>1, CallerOrders, SettleOrders, SendOrders, RestOrders DEF Next, Output

LEMMA SendMovesOn ==
    ASSUME TypeOK, OrderInv, [Next]_vars
    PROVE  [AudioMovesOn]_<<sending, sent>>
BY SendIsValid, SendOrders DEF AudioMovesOn

\* With no eager turns, and the transcriber's as the only handler at work, audio never
\* goes back to an older turn after a newer one was heard, for any number of turns and
\* whatever was still being generated or synthesized when the newer one came.
THEOREM AudioMovesOnCorrect ==
    ASSUME ~Eager
    PROVE  Spec /\ []OthersIdle => [][AudioMovesOn]_<<sending, sent>>
<1>1. Init => OrderInv
  BY OrderInit
<1>2. TypeOK /\ OthersIdle /\ OthersIdle' /\ OrderInv /\ [Next]_vars => OrderInv'
  BY OrderStep
<1>3. TypeOK /\ OrderInv /\ [Next]_vars => [AudioMovesOn]_<<sending, sent>>
  BY SendMovesOn
<1> QED BY <1>1, <1>2, <1>3, TypeCorrect, PTL DEF Spec

---------------------------------------------------------------------------
(***************************************************************************)
(* No utterance of the caller is in two rows of the prompt, for any number *)
(* of turns and handlers. An utterance is in one row, or with one handler  *)
(* that will append it: handlers suspend between popping a row and         *)
(* appending the merged one, and meanwhile rows are trimmed, cut back or   *)
(* popped by another handler.                                              *)
(***************************************************************************)

\* The caller's rows of r hold an utterance once, none of U, and none that was
\* said after the n-th.
RowsOnce(r) ==
    \A i, j \in DOMAIN r :
        i # j /\ r[i].role = "user" /\ r[j].role = "user" => r[i].ids \cap r[j].ids = {}
Avoids(r, U) == \A i \in DOMAIN r : r[i].role = "user" => r[i].ids \cap U = {}
Heard(r, n) == \A i \in DOMAIN r : r[i].role = "user" => r[i].ids \subseteq 1..n

\* What a handler carries is in no row, and with no other handler.
Carried == \A h \in Handlers : Avoids(rows, hctx[h].utts) /\ hctx[h].utts \subseteq 1..curr
CarriedApart == \A g, h \in Handlers : g # h => hctx[g].utts \cap hctx[h].utts = {}

UInv == RowsOnce(rows) /\ Heard(rows, curr) /\ Carried /\ CarriedApart

\* r2 consists of rows of r1, none of them twice.
Thins(r1, r2) ==
    \E f \in [DOMAIN r2 -> DOMAIN r1] :
        /\ \A i \in DOMAIN r2 : r2[i] = r1[f[i]]
        /\ \A i, j \in DOMAIN r2 : f[i] = f[j] => i = j

\* Leaving rows out keeps all three.
LEMMA ThinRows ==
    ASSUME NEW r1, NEW r2, Thins(r1, r2)
    PROVE  /\ RowsOnce(r1) => RowsOnce(r2)
           /\ \A U : Avoids(r1, U) => Avoids(r2, U)
           /\ \A n \in Nat : Heard(r1, n) => Heard(r2, n)
<1> PICK f \in [DOMAIN r2 -> DOMAIN r1] :
        /\ \A i \in DOMAIN r2 : r2[i] = r1[f[i]]
        /\ \A i, j \in DOMAIN r2 : f[i] = f[j] => i = j
  BY DEF Thins
<1>1. RowsOnce(r1) => RowsOnce(r2)
  BY DEF RowsOnce
<1>2. \A U : Avoids(r1, U) => Avoids(r2, U)
  BY DEF Avoids
<1>3. \A n \in Nat : Heard(r1, n) => Heard(r2, n)
  BY DEF Heard
<1> QED BY <1>1, <1>2, <1>3

\* Cutting the rows back leaves some out.
LEMMA PrefixThins ==
    ASSUME NEW r \in Seq(Row), NEW n \in 0..Len(r)
    PROVE  Thins(r, SubSeq(r, 1, n))
<1> DEFINE f == [i \in 1..n |-> i]
<1>1. DOMAIN SubSeq(r, 1, n) = 1..n /\ DOMAIN r = 1..Len(r) /\ Len(r) \in Nat
  OBVIOUS
<1>2. \A i \in 1..n : SubSeq(r, 1, n)[i] = r[i]
  OBVIOUS
<1>3. f \in [1..n -> 1..Len(r)] /\ \A i \in 1..n : f[i] = i
  BY <1>1
<1> HIDE DEF f
<1> QED BY <1>1, <1>2, <1>3 DEF Thins

\* So does removing a stretch of them, as Removes does.
LEMMA RemovingThins ==
    ASSUME NEW r \in Seq(Row), NEW at \in 1..Len(r), NEW next \in at + 1 .. Len(r) + 1
    PROVE  Thins(r, SubSeq(r, 1, at - 1) \o SubSeq(r, next, Len(r)))
<1> DEFINE k == Len(r) + 1 - next
           m == at - 1 + k
           f == [i \in 1..m |-> IF i < at THEN i ELSE i + (next - at)]
           a == SubSeq(r, 1, at - 1)
           b == SubSeq(r, next, Len(r))
           r2 == a \o b
<1>1. Len(r) \in Nat /\ k \in Nat /\ m \in Nat /\ at \in Nat /\ next \in Nat /\ DOMAIN r = 1..Len(r)
  OBVIOUS
<1>a. a \in Seq(Row) /\ Len(a) = at - 1 /\ \A i \in 1 .. at - 1 : a[i] = r[i]
  OBVIOUS
<1>b. b \in Seq(Row) /\ Len(b) = k /\ \A i \in 1 .. k : b[i] = r[next + i - 1]
  <2>1. next \in Nat \ {0} /\ Len(r) \in Nat /\ next <= Len(r) + 1
    OBVIOUS
  <2>2. \A i \in Nat : next <= i /\ i <= Len(r) => r[i] \in Row
    OBVIOUS
  <2>3. b \in Seq(Row)
    BY <2>1, <2>2
  <2>4. Len(b) = k
    BY <2>1
  <2>5. \A i \in 1 .. k : b[i] = r[next + i - 1]
    BY <2>1
  <2> QED BY <2>3, <2>4, <2>5
<1>c. at \in 1..Len(r) /\ next \in at + 1 .. Len(r) + 1 /\ k = Len(r) + 1 - next
  OBVIOUS
<1> HIDE DEF a, b
<1>d. /\ r2 \in Seq(Row) /\ Len(r2) = Len(a) + Len(b)
      /\ \A i \in 1 .. Len(a) + Len(b) :
            r2[i] = IF i <= Len(a) THEN a[i] ELSE b[i - Len(a)]
  BY <1>a, <1>b, ConcatProperties
<1>2. DOMAIN r2 = 1..m
  BY <1>a, <1>b, <1>d
<1> HIDE DEF r2, k
<1>3. \A i \in 1..m : r2[i] = IF i < at THEN r[i] ELSE r[i + (next - at)]
  <2> SUFFICES ASSUME NEW i \in 1..m
               PROVE  r2[i] = IF i < at THEN r[i] ELSE r[i + (next - at)]
    OBVIOUS
  <2>1. CASE i < at
    BY <1>1, <1>a, <1>b, <1>d, <2>1
  <2>2. CASE ~(i < at)
    <3>1. i - (at - 1) \in 1..k /\ next + (i - (at - 1)) - 1 = i + (next - at)
      BY <1>1, <2>2
    <3>2. r2[i] = b[i - (at - 1)]
      BY <1>1, <1>a, <1>b, <1>d, <2>2
    <3> QED BY <1>b, <2>2, <3>1, <3>2
  <2> QED BY <2>1, <2>2
<1>4. f \in [1..m -> 1..Len(r)] /\ \A i \in 1..m : f[i] = IF i < at THEN i ELSE i + (next - at)
  BY <1>1, <1>c
<1>5. \A i \in 1..m : r2[i] = r[f[i]]
  BY <1>3, <1>4
<1>6. \A i, j \in 1..m : f[i] = f[j] => i = j
  BY <1>1, <1>4, <1>c
<1> HIDE DEF f, r2, m
<1>7. Thins(r, r2)
  <2>1. f \in [DOMAIN r2 -> DOMAIN r]
    BY <1>1, <1>2, <1>4
  <2>2. \A i \in DOMAIN r2 : r2[i] = r[f[i]]
    BY <1>2, <1>5
  <2>3. \A i, j \in DOMAIN r2 : f[i] = f[j] => i = j
    BY <1>2, <1>6
  <2> QED BY <2>1, <2>2, <2>3, Zenon DEF Thins
<1> QED BY <1>7 DEF r2, a, b

\* A row of utterances that are in no row may be appended.
LEMMA UserAppended ==
    ASSUME NEW r \in Seq(Row), NEW U, RowsOnce(r), Avoids(r, U)
    PROVE  /\ RowsOnce(Append(r, UserRow(U)))
           /\ \A V : Avoids(r, V) /\ V \cap U = {} => Avoids(Append(r, UserRow(U)), V)
           /\ \A n \in Nat : Heard(r, n) /\ U \subseteq 1..n => Heard(Append(r, UserRow(U)), n)
<1> DEFINE r2 == Append(r, UserRow(U))
<1>1. /\ DOMAIN r2 = 1 .. Len(r) + 1 /\ DOMAIN r = 1..Len(r) /\ Len(r) \in Nat
      /\ \A i \in 1..Len(r) : r2[i] = r[i]
      /\ r2[Len(r) + 1] = UserRow(U)
  OBVIOUS
<1>2. UserRow(U).ids = U
  BY DEF UserRow
<1> HIDE DEF r2
<1>3. RowsOnce(r2)
  <2> SUFFICES ASSUME NEW i \in DOMAIN r2, NEW j \in DOMAIN r2, i # j,
                      r2[i].role = "user", r2[j].role = "user"
               PROVE  r2[i].ids \cap r2[j].ids = {}
    BY DEF RowsOnce
  <2>1. CASE i \in 1..Len(r) /\ j \in 1..Len(r)
    BY <1>1, <2>1 DEF RowsOnce
  <2>2. CASE i = Len(r) + 1 /\ j \in 1..Len(r)
    BY <1>1, <1>2, <2>2 DEF Avoids
  <2>3. CASE j = Len(r) + 1 /\ i \in 1..Len(r)
    BY <1>1, <1>2, <2>3 DEF Avoids
  <2> QED BY <1>1, <2>1, <2>2, <2>3
<1>4. ASSUME NEW V, Avoids(r, V), V \cap U = {} PROVE Avoids(r2, V)
  BY <1>1, <1>2, <1>4 DEF Avoids
<1>5. ASSUME NEW n \in Nat, Heard(r, n), U \subseteq 1..n PROVE Heard(r2, n)
  <2> SUFFICES ASSUME NEW i \in DOMAIN r2, r2[i].role = "user"
               PROVE  r2[i].ids \subseteq 1..n
    BY DEF Heard
  <2>1. CASE i \in 1..Len(r)
    BY <1>1, <1>5, <2>1 DEF Heard
  <2>2. CASE i = Len(r) + 1
    BY <1>1, <1>2, <1>5, <2>2
  <2> QED BY <1>1, <2>1, <2>2
<1> QED BY <1>3, <1>4, <1>5 DEF r2

\* The agent's rows do not matter.
LEMMA AssistantAppended ==
    ASSUME NEW r \in Seq(Row), NEW s
    PROVE  /\ RowsOnce(r) => RowsOnce(Append(r, AssistantRow(s)))
           /\ \A V : Avoids(r, V) => Avoids(Append(r, AssistantRow(s)), V)
           /\ \A n \in Nat : Heard(r, n) => Heard(Append(r, AssistantRow(s)), n)
<1> DEFINE r2 == Append(r, AssistantRow(s))
<1>1. /\ DOMAIN r2 = 1 .. Len(r) + 1 /\ DOMAIN r = 1..Len(r) /\ Len(r) \in Nat
      /\ \A i \in 1..Len(r) : r2[i] = r[i]
      /\ r2[Len(r) + 1] = AssistantRow(s)
  OBVIOUS
<1>2. AssistantRow(s).role # "user"
  BY DEF AssistantRow
<1> HIDE DEF r2
<1>3. \A i \in DOMAIN r2 : r2[i].role = "user" => i \in 1..Len(r)
  BY <1>1, <1>2
<1>4. RowsOnce(r) => RowsOnce(r2)
  BY <1>1, <1>3 DEF RowsOnce
<1>5. \A V : Avoids(r, V) => Avoids(r2, V)
  BY <1>1, <1>3 DEF Avoids
<1>6. \A n \in Nat : Heard(r, n) => Heard(r2, n)
  BY <1>1, <1>3 DEF Heard
<1> QED BY <1>4, <1>5, <1>6 DEF r2

\* pop_and_merge_user: what is popped goes to the turn that merges it.
LEMMA PopMerges ==
    ASSUME rows \in Seq(Row), NEW U, RowsOnce(rows), Avoids(rows, U)
    PROVE  /\ PoppedRows \in Seq(Row) /\ Thins(rows, PoppedRows)
           /\ Avoids(PoppedRows, MergedUtts(U))
           /\ \A V : Avoids(rows, V) /\ V \cap U = {} => V \cap MergedUtts(U) = {}
           /\ \A n \in Nat : Heard(rows, n) /\ U \subseteq 1..n => MergedUtts(U) \subseteq 1..n
<1>1. CASE ~LastIsUser
  <2>1. PoppedRows = rows /\ MergedUtts(U) = U
    BY <1>1 DEF PoppedRows, MergedUtts
  <2>2. SubSeq(rows, 1, Len(rows)) = rows
    OBVIOUS
  <2>a. Len(rows) \in 0..Len(rows)
    OBVIOUS
  <2>3. Thins(rows, rows)
    BY <2>2, <2>a, PrefixThins
  <2> QED BY <2>1, <2>3
<1>2. CASE LastIsUser
  <2> DEFINE last == Len(rows)
             r2 == SubSeq(rows, 1, last - 1)
  <2>1. PoppedRows = r2 /\ MergedUtts(U) = U \cup rows[last].ids
    BY <1>2 DEF PoppedRows, MergedUtts
  <2>2. last \in Nat \ {0} /\ last \in DOMAIN rows /\ rows[last].role = "user"
    BY <1>2 DEF LastIsUser
  <2>3. r2 \in Seq(Row) /\ Thins(rows, r2)
    BY <2>2, PrefixThins
  <2>4. /\ DOMAIN r2 = 1 .. last - 1
        /\ \A i \in 1 .. last - 1 : r2[i] = rows[i] /\ i \in DOMAIN rows /\ i # last
    BY <2>2
  <2> HIDE DEF r2, last
  <2>5. Avoids(r2, rows[last].ids)
    BY <2>2, <2>4 DEF RowsOnce, Avoids
  <2>6. Avoids(r2, U)
    BY <2>3, ThinRows
  <2>7. Avoids(r2, U \cup rows[last].ids)
    BY <2>5, <2>6 DEF Avoids
  <2>8. \A V : Avoids(rows, V) => V \cap rows[last].ids = {}
    BY <2>2 DEF Avoids
  <2>9. \A n \in Nat : Heard(rows, n) => rows[last].ids \subseteq 1..n
    BY <2>2 DEF Heard
  <2> QED BY <2>1, <2>3, <2>7, <2>8, <2>9
<1> QED BY <1>1, <1>2

\* No utterance is added to the caller's rows, and none is said twice.
Milder(r1, r2) ==
    /\ RowsOnce(r1) => RowsOnce(r2)
    /\ \A U : Avoids(r1, U) => Avoids(r2, U)
    /\ \A n \in Nat : Heard(r1, n) => Heard(r2, n)

\* Doing nothing to the rows is mild,
LEMMA MilderSame == \A r : Milder(r, r)
BY DEF Milder

\* and so is leaving rows out,
LEMMA MilderThins == \A r1, r2 : Thins(r1, r2) => Milder(r1, r2)
BY ThinRows DEF Milder

\* adding one of the agent's,
LEMMA MilderAppend ==
    \A s : \A r \in Seq(Row) : Milder(r, Append(r, AssistantRow(s)))
BY AssistantAppended DEF Milder

\* recording what was spoken,
LEMMA CommitMilder ==
    ASSUME HistoryOK, NEW s, NEW from, Commit(s, from)
    PROVE  Milder(rows, rows')
BY MilderSame, MilderAppend DEF Commit, HistoryOK

\* and correcting what was not heard.
LEMMA SyncMilder ==
    ASSUME HistoryOK, SyncHistory
    PROVE  Milder(rows, rows')
<1>1. CASE rows' = rows
  BY <1>1, MilderSame
<1>2. ASSUME NEW s, rows' = Append(rows, AssistantRow(s)) PROVE Milder(rows, rows')
  BY <1>2, MilderAppend DEF HistoryOK
<1>3. ASSUME NEW s, NEW at \in RowsOf(s), Removes(at) PROVE Milder(rows, rows')
  <2>1. rows \in Seq(Row) /\ at \in 1..Len(rows)
    BY DEF HistoryOK, RowsOf
  <2>2. PICK next \in at + 1 .. Len(rows) + 1 :
          rows' = SubSeq(rows, 1, at - 1) \o SubSeq(rows, next, Len(rows))
    BY <1>3 DEF Removes
  <2>3. Thins(rows, rows')
    BY <2>1, <2>2, RemovingThins
  <2> QED BY <2>3, MilderThins
<1> QED BY <1>1, <1>2, <1>3 DEF SyncHistory

\* Nothing is heard, and the handlers carry no more than they did.
LEMMA NothingHeard ==
    ASSUME TypeOK, UInv, Milder(rows, rows'), curr' = curr,
           \A h \in Handlers : hctx'[h].utts \subseteq hctx[h].utts
    PROVE  UInv'
<1>1. curr \in Nat
  BY DEF TypeOK, GateOK
<1>2. RowsOnce(rows') /\ Heard(rows', curr)
  BY <1>1 DEF UInv, Milder
<1>3. ASSUME NEW h \in Handlers PROVE Avoids(rows', hctx'[h].utts)
  <2>1. Avoids(rows', hctx[h].utts)
    BY DEF UInv, Carried, Milder
  <2> QED BY <2>1 DEF Avoids
<1>4. ASSUME NEW h \in Handlers PROVE hctx'[h].utts \subseteq 1..curr
  BY DEF UInv, Carried
<1>5. CarriedApart'
  BY DEF UInv, CarriedApart
<1>6. Carried'
  BY <1>3, <1>4 DEF Carried
<1>7. RowsOnce(rows)' /\ Heard(rows, curr)'
  BY <1>2
<1> QED BY <1>5, <1>6, <1>7 DEF UInv

\* A handler takes up what was just said.
LEMMA Arrived ==
    ASSUME TypeOK, UInv, Milder(rows, rows'), curr' = curr + 1, NEW h \in Handlers,
           hctx'[h].utts = {curr + 1},
           \A g \in Handlers \ {h} : hctx'[g].utts = hctx[g].utts
    PROVE  UInv'
<1>1. curr \in Nat /\ ~(curr + 1 \in 1..curr) /\ 1..curr \subseteq 1 .. curr + 1
      /\ curr + 1 \in 1 .. curr + 1
  BY DEF TypeOK, GateOK
<1>2. RowsOnce(rows') /\ Heard(rows', curr)
  BY <1>1 DEF UInv, Milder
<1>3. Heard(rows', curr + 1) /\ Avoids(rows', {curr + 1})
  BY <1>1, <1>2 DEF Heard, Avoids
<1>4. \A g \in Handlers \ {h} : /\ Avoids(rows', hctx[g].utts)
                                /\ hctx[g].utts \subseteq 1..curr
  BY DEF UInv, Carried, Milder
<1>5. Carried'
  <2>1. ASSUME NEW g \in Handlers
        PROVE  Avoids(rows', hctx'[g].utts) /\ hctx'[g].utts \subseteq 1 .. curr + 1
    <3>1. CASE g = h
      BY <1>1, <1>3, <3>1
    <3>2. CASE g # h
      BY <1>1, <1>4, <3>2
    <3> QED BY <3>1, <3>2
  <2> QED BY <2>1 DEF Carried
<1>6. CarriedApart'
  <2> SUFFICES ASSUME NEW f \in Handlers, NEW g \in Handlers, f # g
               PROVE  hctx'[f].utts \cap hctx'[g].utts = {}
    BY DEF CarriedApart
  <2>1. CASE f = h
    BY <1>1, <1>4, <2>1
  <2>2. CASE g = h
    BY <1>1, <1>4, <2>2
  <2>3. CASE f # h /\ g # h
    BY <2>3 DEF UInv, CarriedApart
  <2> QED BY <2>1, <2>2, <2>3
<1>7. RowsOnce(rows)' /\ Heard(rows, curr)'
  BY <1>2, <1>3
<1> QED BY <1>5, <1>6, <1>7 DEF UInv

\* A handler puts what it carries, merged or not, into a row of its own.
LEMMA Responded ==
    ASSUME TypeOK, UInv, curr' = curr, NEW h \in Handlers, NEW r0 \in Seq(Row), NEW U,
           Milder(rows, r0), Avoids(r0, U), U \subseteq 1..curr,
           \A g \in Handlers \ {h} : hctx[g].utts \cap U = {},
           rows' = Append(r0, UserRow(U)),
           hctx' = [hctx EXCEPT ![h] = NoTurn]
    PROVE  UInv'
<1>1. curr \in Nat /\ DOMAIN hctx = Handlers /\ NoTurn.utts = {}
  BY DEF TypeOK, GateOK, HandlersOK, NoTurn
<1>2. RowsOnce(r0) /\ Heard(r0, curr)
  BY <1>1 DEF UInv, Milder
<1>3. RowsOnce(rows') /\ Heard(rows', curr)
  BY <1>1, <1>2, UserAppended
<1>4. hctx'[h].utts = {} /\ \A g \in Handlers \ {h} : hctx'[g].utts = hctx[g].utts
  <2>1. hctx \in [Handlers -> FinalTurn \cup {NoTurn, InterimTurn("bargein"),
                                              InterimTurn("continuation")}]
    BY DEF TypeOK, HandlersOK
  <2> QED BY <1>1, <2>1
<1>5. ASSUME NEW g \in Handlers PROVE Avoids(rows', hctx'[g].utts)
  <2>1. CASE g = h
    BY <1>4, <2>1 DEF Avoids
  <2>2. CASE g # h
    <3>1. Avoids(r0, hctx[g].utts)
      BY DEF UInv, Carried, Milder
    <3>2. hctx[g].utts \cap U = {} /\ hctx'[g].utts = hctx[g].utts
      BY <1>4, <2>2
    <3> QED BY <1>2, <3>1, <3>2, UserAppended
  <2> QED BY <2>1, <2>2
<1>6. \A g \in Handlers : hctx'[g].utts \subseteq hctx[g].utts
  BY <1>4
<1>7. Carried' /\ CarriedApart'
  BY <1>5, <1>6 DEF UInv, Carried, CarriedApart
<1>8. RowsOnce(rows)' /\ Heard(rows, curr)'
  BY <1>3
<1> QED BY <1>7, <1>8 DEF UInv

\* An eager turn puts what was just said into a row at once.
LEMMA Speculated ==
    ASSUME TypeOK, UInv, curr' = curr + 1, rows' = Append(rows, UserRow({curr + 1})),
           hctx' = hctx
    PROVE  UInv'
<1>1. /\ curr \in Nat /\ ~(curr + 1 \in 1..curr) /\ 1..curr \subseteq 1 .. curr + 1
      /\ {curr + 1} \subseteq 1 .. curr + 1 /\ curr + 1 \in Nat /\ rows \in Seq(Row)
  BY DEF TypeOK, GateOK, HistoryOK
<1>2. RowsOnce(rows) /\ Heard(rows, curr + 1) /\ Avoids(rows, {curr + 1})
  BY <1>1 DEF UInv, Heard, Avoids
<1>3. RowsOnce(rows') /\ Heard(rows', curr + 1)
  BY <1>1, <1>2, UserAppended
<1>4. ASSUME NEW h \in Handlers
      PROVE  Avoids(rows', hctx[h].utts) /\ hctx[h].utts \subseteq 1 .. curr + 1
  <2>1. Avoids(rows, hctx[h].utts) /\ hctx[h].utts \subseteq 1..curr
    BY DEF UInv, Carried
  <2>2. hctx[h].utts \cap {curr + 1} = {}
    BY <1>1, <2>1
  <2> QED BY <1>1, <1>2, <2>1, <2>2, UserAppended
<1>5. Carried' /\ CarriedApart'
  BY <1>4 DEF UInv, Carried, CarriedApart
<1>6. RowsOnce(rows)' /\ Heard(rows, curr)'
  BY <1>3
<1> QED BY <1>5, <1>6 DEF UInv

-----------------------------------------------------------------------------
(* The actions.                                                            *)

\* What the transcriber and the keypad report.
LEMMA UtterCaller ==
    ASSUME TypeOK, UInv, Caller
    PROVE  UInv'
<1>0. /\ HistoryOK /\ rows \in Seq(Row) /\ DOMAIN hctx = Handlers
      /\ Transcriber \in Handlers
      /\ NoTurn.utts = {} /\ \A k : InterimTurn(k).utts = {}
  <2>1. HistoryOK /\ HandlersOK
    BY DEF TypeOK
  <2>2. rows \in Seq(Row) /\ DOMAIN hctx = Handlers
    BY <2>1 DEF HistoryOK, HandlersOK
  <2>3. NoTurn.utts = {} /\ \A k : InterimTurn(k).utts = {}
    BY DEF NoTurn, InterimTurn
  <2>4. Transcriber \in Handlers
    BY PipelineAssumption
  <2> QED BY <2>1, <2>2, <2>3, <2>4
<1>1. ASSUME NEW h \in Handlers, FinalArrives(h) PROVE UInv'
  <2>1. Milder(rows, rows')
    <3>1. rows' = rows \/ rows' = PoppedRows
      BY <1>1 DEF FinalArrives
    <3>2. RowsOnce(rows) /\ Avoids(rows, {}) /\ Thins(rows, PoppedRows)
      <4>1. RowsOnce(rows) /\ Avoids(rows, {})
        BY DEF UInv, Avoids
      <4> QED BY <1>0, <4>1, PopMerges
    <3> QED BY <3>1, <3>2, MilderSame, MilderThins
  <2>2. curr' = curr + 1 /\ hctx' = [hctx EXCEPT ![h] =
            [kind |-> "final", seq |-> curr + 1, utts |-> {curr + 1}]]
    BY <1>1 DEF FinalArrives
  <2>3. hctx'[h].utts = {curr + 1} /\ \A g \in Handlers \ {h} : hctx'[g].utts = hctx[g].utts
    BY <1>0, <2>2
  <2> QED BY <2>1, <2>2, <2>3, Arrived
<1>2. CASE SpeechEnded \/ FinalConfirmsEager
  <2>1. rows' = rows /\ curr' = curr /\ hctx' = hctx
    BY <1>2 DEF SpeechEnded, FinalConfirmsEager, history, handlers
  <2> QED BY <2>1, MilderSame, NothingHeard
<1>3. CASE BargeIn \/ CallerContinues
  <2>1. /\ rows' = rows /\ curr' = curr
        /\ \/ hctx' = hctx
           \/ \E k : hctx' = [hctx EXCEPT ![Transcriber] = InterimTurn(k)]
    BY <1>3 DEF BargeIn, CallerContinues, CleanupStart, history, handlers
  <2>2. \A h \in Handlers : hctx'[h].utts \subseteq hctx[h].utts
    BY <1>0, <2>1
  <2> QED BY <2>1, <2>2, MilderSame, NothingHeard
<1>4. CASE EagerEndOfTurn
  <2>1. curr' = curr + 1 /\ rows' = Append(rows, UserRow({curr + 1})) /\ hctx' = hctx
    BY <1>4 DEF EagerEndOfTurn, handlers
  <2> QED BY <2>1, Speculated
<1>5. CASE TurnResumed
  <2>1. /\ curr' = curr /\ hctx' = hctx
        /\ rows' = IF Len(rows) > eagerMark THEN SubSeq(rows, 1, eagerMark) ELSE rows
    BY <1>5 DEF TurnResumed, gate, handlers
  <2>2. eagerMark \in Nat
    BY DEF TypeOK, TasksOK
  <2>3. Milder(rows, rows')
    <3>1. CASE Len(rows) > eagerMark
      <4>1. eagerMark \in 0..Len(rows)
        BY <1>0, <2>2, <3>1
      <4> QED BY <1>0, <2>1, <3>1, <4>1, PrefixThins, MilderThins
    <3>2. CASE ~(Len(rows) > eagerMark)
      BY <2>1, <3>2, MilderSame
    <3> QED BY <3>1, <3>2
  <2> QED BY <2>1, <2>3, NothingHeard
<1> QED BY <1>1, <1>2, <1>3, <1>4, <1>5 DEF Caller

\* What Respond does to the rows and to what its handler carries.
LEMMA RespondRows ==
    \A h, turn, o, ids0, gen0, ref0, r0 :
        Respond(h, turn, o, ids0, gen0, ref0, r0)
            => rows' = Append(r0, UserRow(turn.utts)) /\ hctx' = [hctx EXCEPT ![h] = NoTurn]
BY DEF Respond

\* A handler's own steps: popping, merging, cleaning up and appending.
LEMMA UtterHandler ==
    ASSUME TypeOK, UInv, NEW h \in Handlers, Handler(h)
    PROVE  UInv'
<1>0. /\ HistoryOK /\ rows \in Seq(Row) /\ DOMAIN hctx = Handlers
      /\ hctx \in [Handlers -> FinalTurn \cup {NoTurn, InterimTurn("bargein"),
                                               InterimTurn("continuation")}]
      /\ curr \in Nat
      /\ NoTurn.utts = {} /\ \A k : InterimTurn(k).utts = {}
  BY DEF TypeOK, HistoryOK, HandlersOK, GateOK, NoTurn, InterimTurn
<1>1. /\ RowsOnce(rows) /\ Heard(rows, curr)
      /\ Avoids(rows, hctx[h].utts) /\ hctx[h].utts \subseteq 1..curr
      /\ \A g \in Handlers \ {h} : /\ hctx[g].utts \cap hctx[h].utts = {}
                                   /\ Avoids(rows, hctx[g].utts)
  BY DEF UInv, Carried, CarriedApart
<1>2. /\ PoppedRows \in Seq(Row) /\ Milder(rows, PoppedRows)
      /\ Avoids(PoppedRows, MergedUtts(hctx[h].utts))
      /\ MergedUtts(hctx[h].utts) \subseteq 1..curr
      /\ \A g \in Handlers \ {h} : hctx[g].utts \cap MergedUtts(hctx[h].utts) = {}
  BY <1>0, <1>1, PopMerges, MilderThins
<1>3. hpc[h] = "check" \/ hctx[h].kind = "final" => hctx[h] \in FinalTurn
  BY <1>0 DEF TypeOK, HandlersOK, NoTurn, InterimTurn
<1>4. CASE FinalRetired(h) \/ CleanupEndsInterim(h)
  <2>1. rows' = rows /\ curr' = curr /\ hctx' = [hctx EXCEPT ![h] = NoTurn]
    BY <1>4 DEF FinalRetired, CleanupEndsInterim, gate, history
  <2>2. \A g \in Handlers : hctx'[g].utts \subseteq hctx[g].utts
    BY <1>0, <2>1
  <2> QED BY <2>1, <2>2, MilderSame, NothingHeard
<1>5. CASE FinalAccepted(h)
  <2>1. Respond(h, hctx[h], FALSE, ids, gen, llmRef, rows) /\ curr' = curr
    BY <1>5 DEF FinalAccepted
  <2>2. rows' = Append(rows, UserRow(hctx[h].utts)) /\ hctx' = [hctx EXCEPT ![h] = NoTurn]
    BY <2>1, RespondRows, Zenon
  <2> QED BY <1>0, <1>1, <2>1, <2>2, MilderSame, Responded
<1>6. CASE FinalSettles(h)
  <2> DEFINE turn == [hctx[h] EXCEPT !.utts = MergedUtts(@)]
  <2>1. Respond(h, turn, TRUE, ids \cup {hctx[h].seq}, gen, llmRef, PoppedRows) /\ curr' = curr
    BY <1>6 DEF FinalSettles
  <2>2. turn.utts = MergedUtts(hctx[h].utts)
    BY <1>3, <1>6 DEF FinalSettles, FinalTurn
  <2> HIDE DEF turn
  <2>3. rows' = Append(PoppedRows, UserRow(turn.utts)) /\ hctx' = [hctx EXCEPT ![h] = NoTurn]
    BY <2>1, RespondRows, Zenon
  <2> QED BY <1>2, <2>1, <2>2, <2>3, Responded
<1>7. CASE CleanupEndsFinal(h)
  <2>1. /\ Respond(h, hctx[h], TRUE, ids \cup {hctx[h].seq}, Cancelled({llmRef, eagerRef}), 0, rows)
        /\ curr' = curr
    BY <1>7 DEF CleanupEndsFinal
  <2>2. rows' = Append(rows, UserRow(hctx[h].utts)) /\ hctx' = [hctx EXCEPT ![h] = NoTurn]
    BY <2>1, RespondRows, Zenon
  <2> QED BY <1>0, <1>1, <2>1, <2>2, MilderSame, Responded
<1>8. CASE FinalOverlaps(h)
  <2> DEFINE turn == [hctx[h] EXCEPT !.utts = MergedUtts(@)]
  <2>1. rows' = PoppedRows /\ hctx' = [hctx EXCEPT ![h] = turn] /\ curr' = curr
    BY <1>8 DEF FinalOverlaps, CleanupStart, gate
  <2>2. turn.utts = MergedUtts(hctx[h].utts)
    BY <1>3, <1>8 DEF FinalOverlaps, FinalTurn
  <2> HIDE DEF turn
  <2>3. /\ hctx'[h].utts = MergedUtts(hctx[h].utts)
        /\ \A g \in Handlers \ {h} : hctx'[g].utts = hctx[g].utts
    BY <1>0, <2>1, <2>2
  <2>4. RowsOnce(rows') /\ Heard(rows', curr)
    BY <1>0, <1>1, <1>2, <2>1 DEF Milder
  <2>5. ASSUME NEW g \in Handlers
        PROVE  Avoids(rows', hctx'[g].utts) /\ hctx'[g].utts \subseteq 1..curr
    <3>1. CASE g = h
      BY <1>2, <2>1, <2>3, <3>1
    <3>2. CASE g # h
      BY <1>2, <2>1, <2>3, <3>2 DEF UInv, Carried, Milder
    <3> QED BY <3>1, <3>2
  <2>6. ASSUME NEW f \in Handlers, NEW g \in Handlers, f # g
        PROVE  hctx'[f].utts \cap hctx'[g].utts = {}
    <3>1. CASE f = h
      BY <1>2, <2>3, <2>6, <3>1
    <3>2. CASE g = h
      BY <1>2, <2>3, <2>6, <3>2
    <3>3. CASE f # h /\ g # h
      BY <2>3, <2>6, <3>3 DEF UInv, CarriedApart
    <3> QED BY <3>1, <3>2, <3>3
  <2>7. Carried' /\ CarriedApart'
    BY <2>1, <2>5, <2>6 DEF Carried, CarriedApart
  <2>8. RowsOnce(rows)' /\ Heard(rows, curr)'
    BY <2>1, <2>4
  <2> QED BY <2>7, <2>8 DEF UInv
<1>9. CASE CleanupCleared(h)
  <2>1. rows' = rows /\ curr' = curr /\ hctx' = hctx
    BY <1>9 DEF CleanupCleared, gate, history
  <2> QED BY <2>1, MilderSame, NothingHeard
<1>10. CASE CleanupInvalidates(h)
  <2>1. SyncHistory /\ curr' = curr /\ hctx' = hctx
    BY <1>10 DEF CleanupInvalidates
  <2> QED BY <1>0, <2>1, SyncMilder, NothingHeard
<1> QED BY <1>4, <1>5, <1>6, <1>7, <1>8, <1>9, <1>10 DEF Handler

\* Everything else leaves utterances alone.
LEMMA UtterRest ==
    ASSUME TypeOK, UInv,
           \/ SettleFires \/ Output \/ Carrier
           \/ \E s \in Seqs : Generation(s) \/ Synthesis(s)
    PROVE  UInv'
<1>1. HistoryOK /\ rows \in Seq(Row)
  BY DEF TypeOK, HistoryOK
<1>2. CASE SettleFires
  <2>1. rows' = rows /\ curr' = curr /\ hctx' = hctx
    BY <1>2 DEF SettleFires
  <2> QED BY <2>1, MilderSame, NothingHeard
<1>3. CASE Carrier
  <2>1. rows' = rows /\ curr' = curr /\ hctx' = hctx
    BY <1>3 DEF Carrier, PreMarkAck, PostMarkAck, gate, handlers, history
  <2> QED BY <2>1, MilderSame, NothingHeard
<1>4. CASE Output
  <2>1. curr' = curr /\ hctx' = hctx
    BY <1>4 DEF Output, OutputSend, OutputSent, OutputBlock, OutputForwarded,
                OutputReleasesGate, gate, handlers
  <2>2. Milder(rows, rows')
    <3>1. CASE OutputSend
      BY <1>1, <3>1, CommitMilder DEF OutputSend
    <3>2. CASE ~OutputSend
      BY <1>4, <3>2, MilderSame DEF Output, OutputSent, OutputBlock, OutputForwarded,
                                    OutputReleasesGate, history
    <3> QED BY <3>1, <3>2
  <2> QED BY <2>1, <2>2, NothingHeard
<1>5. ASSUME NEW s \in Seqs, Synthesis(s) PROVE UInv'
  <2>1. rows' = rows /\ curr' = curr /\ hctx' = hctx
    BY <1>5 DEF Synthesis, SynthFrame, SynthFinal, Listen, gate, handlers, history
  <2> QED BY <2>1, MilderSame, NothingHeard
<1>6. ASSUME NEW s \in Seqs, Generation(s) PROVE UInv'
  <2>1. curr' = curr /\ hctx' = hctx
    BY <1>6 DEF Generation, LlmStart, LlmChunk, LlmFlush, LlmEmpty, LlmStore, LlmDone,
                gate, handlers
  <2>2. Milder(rows, rows')
    <3>1. CASE LlmStore(s)
      BY <1>1, <3>1, CommitMilder, MilderSame DEF LlmStore, Stage
    <3>2. CASE ~LlmStore(s)
      BY <1>6, <3>2, MilderSame DEF Generation, LlmStart, LlmChunk, LlmFlush, LlmEmpty,
                                    LlmDone, history
    <3> QED BY <3>1, <3>2
  <2> QED BY <2>1, <2>2, NothingHeard
<1> QED BY <1>2, <1>3, <1>4, <1>5, <1>6

\* No utterance of the caller is in two rows of the prompt, whichever handler
\* pops, merges and appends it, and whatever is trimmed or retracted meanwhile.
THEOREM UtteranceOnceCorrect == Spec => []UtteranceOnce
<1>1. Init => UInv
  <2> SUFFICES ASSUME Init PROVE UInv
    OBVIOUS
  <2>1. rows = <<>> /\ DOMAIN rows = {} /\ \A h \in Handlers : hctx[h].utts = {}
    BY DEF Init, NoTurn
  <2> QED BY <2>1 DEF UInv, RowsOnce, Heard, Carried, CarriedApart, Avoids
<1>2. TypeOK /\ UInv /\ [Next]_vars => UInv'
  <2> SUFFICES ASSUME TypeOK, UInv, [Next]_vars PROVE UInv'
    OBVIOUS
  <2>1. CASE Next
    BY <2>1, UtterCaller, UtterHandler, UtterRest DEF Next
  <2>2. CASE UNCHANGED vars
    <3>1. rows' = rows /\ curr' = curr /\ hctx' = hctx
      BY <2>2 DEF vars, gate, handlers, history
    <3> QED BY <3>1, MilderSame, NothingHeard
  <2> QED BY <2>1, <2>2
<1>3. UInv => UtteranceOnce
  BY DEF UInv, RowsOnce, UtteranceOnce, Owed
<1> QED BY <1>1, <1>2, <1>3, TypeCorrect, PTL DEF Spec

---------------------------------------------------------------------------
(***************************************************************************)
(* The bounds of MCPipelineSafety. Its settle bound is TurnPipeline with   *)
(* smaller constants, of which every step is one of TurnPipeline's; its    *)
(* barge bound leaves the DTMF collector idle. So what is proved above     *)
(* holds in them, as the run states it.                                    *)
(***************************************************************************)

LEMMA SettleHandlerStep ==
    ASSUME NEW h, Settle!Handler(h)
    PROVE  Handler(h)
<1> USE DEF Settle!Seqs, Seqs, Settle!NoTurn, NoTurn, Settle!NoFrame, NoFrame, Settle!LiveState, LiveState,
            Settle!gate, gate, Settle!flags, flags, Settle!handlers, handlers, Settle!tasks, tasks,
            Settle!synthesis, synthesis, Settle!output, output, Settle!carrier, carrier,
            Settle!history, history, Settle!ghosts, ghosts, Settle!Live, Live, Settle!LlmLive, LlmLive,
            Settle!ArmedSettle, ArmedSettle, Settle!Cancelled, Cancelled, Settle!LastIsUser, LastIsUser,
            Settle!MergedUtts, MergedUtts, Settle!PoppedRows, PoppedRows, Settle!UserRow, UserRow,
            Settle!AssistantRow, AssistantRow, Settle!Kickoff, Kickoff, Settle!Respond, Respond,
            Settle!Inflight, Inflight
<1>1. Settle!FinalRetired(h) => FinalRetired(h)
  BY DEF Settle!FinalRetired, FinalRetired
<1>2. Settle!FinalAccepted(h) => FinalAccepted(h)
  BY DEF Settle!FinalAccepted, FinalAccepted
<1>3. Settle!FinalSettles(h) => FinalSettles(h)
  BY DEF Settle!FinalSettles, FinalSettles
<1>4. Settle!FinalOverlaps(h) => FinalOverlaps(h)
  BY DEF Settle!FinalOverlaps, FinalOverlaps, Settle!CleanupStart, CleanupStart
<1>5. Settle!CleanupCleared(h) => CleanupCleared(h)
  BY DEF Settle!CleanupCleared, CleanupCleared
<1> USE DEF Settle!SynthDrops, SynthDrops
<1>6. Settle!CleanupInvalidates(h) => CleanupInvalidates(h)
  BY DEF Settle!CleanupInvalidates, CleanupInvalidates, Settle!SyncHistory, SyncHistory,
         Settle!TrimTargets, TrimTargets, Settle!RowsOf, RowsOf, Settle!Removes, Removes
<1> USE DEF Settle!CancelDownstream, CancelDownstream
<1>7. Settle!CleanupEndsInterim(h) => CleanupEndsInterim(h)
  BY DEF Settle!CleanupEndsInterim, CleanupEndsInterim
<1>8. Settle!CleanupEndsFinal(h) => CleanupEndsFinal(h)
  BY DEF Settle!CleanupEndsFinal, CleanupEndsFinal
<1> QED BY <1>1, <1>2, <1>3, <1>4, <1>5, <1>6, <1>7, <1>8 DEF Settle!Handler, Handler

\* Its callers are heard in finals only.
LEMMA SettleCallerStep ==
    ASSUME TypeOK, Settle!Caller
    PROVE  Caller
<1> USE DEF Settle!NoTurn, NoTurn, Settle!LiveState, LiveState,
            Settle!gate, gate, Settle!flags, flags, Settle!handlers, handlers, Settle!tasks, tasks,
            Settle!synthesis, synthesis, Settle!output, output, Settle!carrier, carrier,
            Settle!history, history, Settle!ghosts, ghosts, Settle!Live, Live, Settle!LlmLive, LlmLive,
            Settle!ArmedSettle, ArmedSettle, Settle!Cancelled, Cancelled, Settle!Seqs, Seqs
<1>1. ~Settle!BargeIn /\ ~Settle!CallerContinues
  <2>1. interims \in Nat
    BY DEF TypeOK, GhostsOK
  <2> QED BY <2>1 DEF Settle!BargeIn, Settle!CallerContinues
<1>2. ASSUME NEW h \in Handlers, Settle!FinalArrives(h) PROVE FinalArrives(h)
  BY <1>2 DEF Settle!FinalArrives, FinalArrives, Settle!LastIsUser, LastIsUser, Settle!PoppedRows, PoppedRows
<1>3. Settle!SpeechEnded => SpeechEnded
  BY DEF Settle!SpeechEnded, SpeechEnded
<1>4. Settle!EagerEndOfTurn => EagerEndOfTurn
  BY DEF Settle!EagerEndOfTurn, EagerEndOfTurn, Settle!UserRow, UserRow
<1>5. Settle!TurnResumed => TurnResumed
  BY DEF Settle!TurnResumed, TurnResumed
<1>6. Settle!FinalConfirmsEager => FinalConfirmsEager
  BY DEF Settle!FinalConfirmsEager, FinalConfirmsEager
<1> QED BY <1>1, <1>2, <1>3, <1>4, <1>5, <1>6 DEF Settle!Caller, Caller

LEMMA SettleResponseStep ==
    ASSUME TypeOK, NEW s \in Seqs, Settle!Generation(s) \/ Settle!Synthesis(s)
    PROVE  Generation(s) \/ Synthesis(s)
<1> USE DEF Settle!gate, gate, Settle!flags, flags, Settle!handlers, handlers, Settle!tasks, tasks,
            Settle!synthesis, synthesis, Settle!output, output, Settle!carrier, carrier,
            Settle!history, history, Settle!ghosts, ghosts
<1>1. Settle!LlmStart(s) => LlmStart(s)
  BY DEF Settle!LlmStart, LlmStart
<1>2. Settle!LlmChunk(s) => LlmChunk(s)
  BY DEF Settle!LlmChunk, LlmChunk
<1>3. Settle!LlmFlush(s) => LlmFlush(s)
  BY DEF Settle!LlmFlush, LlmFlush
<1>4. Settle!LlmEmpty(s) => LlmEmpty(s)
  BY DEF Settle!LlmEmpty, LlmEmpty
<1>5. Settle!LlmStore(s) => LlmStore(s)
  BY DEF Settle!LlmStore, LlmStore, Settle!Stage, Stage, Settle!Commit, Commit,
         Settle!AssistantRow, AssistantRow
<1>6. Settle!LlmDone(s) => LlmDone(s)
  BY DEF Settle!LlmDone, LlmDone
<1>7. ~Settle!SynthFrame(s)
  <2>1. emitted[s] \in 0..MaxFrames /\ MaxFrames \in Nat
    BY DEF TypeOK, SynthesisOK
  <2>2. ~(emitted[s] < 0)
    BY <2>1
  <2> QED BY <2>2 DEF Settle!SynthFrame
<1>8. Settle!SynthFinal(s) => SynthFinal(s)
  BY DEF Settle!SynthFinal, SynthFinal, Settle!Listen, Listen
<1> QED BY <1>1, <1>2, <1>3, <1>4, <1>5, <1>6, <1>7, <1>8
        DEF Settle!Generation, Generation, Settle!Synthesis, Synthesis

LEMMA SettleOutputStep ==
    ASSUME Settle!SettleFires \/ Settle!Output \/ Settle!Carrier
    PROVE  SettleFires \/ Output \/ Carrier
<1> USE DEF Settle!gate, gate, Settle!flags, flags, Settle!handlers, handlers, Settle!tasks, tasks,
            Settle!synthesis, synthesis, Settle!output, output, Settle!carrier, carrier,
            Settle!history, history, Settle!ghosts, ghosts, Settle!NoFrame, NoFrame,
            Settle!Judging, Judging, Settle!RuledDuplicate, RuledDuplicate
<1>1. Settle!SettleFires => SettleFires
  BY DEF Settle!SettleFires, SettleFires, Settle!ArmedSettle, ArmedSettle, Settle!NoTurn, NoTurn,
         Settle!Kickoff, Kickoff, Settle!LiveState, LiveState, Settle!Seqs, Seqs
<1>2. Settle!OutputSend => OutputSend
  BY DEF Settle!OutputSend, OutputSend, Settle!Commit, Commit, Settle!AssistantRow, AssistantRow
<1>3. Settle!OutputSent => OutputSent
  BY DEF Settle!OutputSent, OutputSent
<1>4. Settle!OutputBlock => OutputBlock
  BY DEF Settle!OutputBlock, OutputBlock, Settle!MayDuplicate, MayDuplicate
<1>5. Settle!OutputForwarded => OutputForwarded
  BY DEF Settle!OutputForwarded, OutputForwarded
<1>6. Settle!OutputReleasesGate => OutputReleasesGate
  BY DEF Settle!OutputReleasesGate, OutputReleasesGate
<1>7. Settle!Carrier => Carrier
  BY DEF Settle!Carrier, Carrier, Settle!PreMarkAck, PreMarkAck, Settle!PostMarkAck, PostMarkAck
<1> QED BY <1>1, <1>2, <1>3, <1>4, <1>5, <1>6, <1>7 DEF Settle!Output, Output

\* A smaller bound only takes steps away.
LEMMA SmallerBound == TypeOK /\ Settle!Next => Next
BY SettleHandlerStep, SettleCallerStep, SettleResponseStep, SettleOutputStep
   DEF Settle!Next, Next, Settle!Seqs, Seqs

\* The invariants of the two bounds.
SafetyInv ==
    /\ bound \in {"barge", "settle", "eager"}
    /\ bound \in {"barge", "settle"} => TypeOK /\ HeldByTask
    /\ bound = "barge" => OthersIdle /\ OrderInv

LEMMA SafetyInits ==
    ASSUME SafetyInit
    PROVE  SafetyInv
<1>1. Init
  BY DEF SafetyInit
<1>2. TypeOK
  BY <1>1, TypeInit
<1>3. HeldByTask /\ OthersIdle
  BY <1>1 DEF Init, HeldByTask, Live, LiveState, OthersIdle
<1> QED BY <1>1, <1>2, <1>3, OrderInit DEF SafetyInv, SafetyInit

\* What the run's steps are in the two bounds.
LEMMA SafetySteps ==
    ASSUME Handlers = {Transcriber, dtmf}, SafetyInv, [SafetyNext]_<<vars, bound>>
    PROVE  /\ bound' = bound
           /\ bound \in {"barge", "settle"} => [Next]_vars
           /\ bound = "barge" => OthersIdle'
<1>1. bound' = bound
  BY DEF SafetyNext
<1>2. CASE UNCHANGED <<vars, bound>>
  BY <1>2 DEF SafetyInv, OthersIdle, vars, handlers
<1>3. CASE bound = "barge" /\ Next /\ hpc'[dtmf] = "idle"
  BY <1>1, <1>3 DEF OthersIdle
<1>4. CASE bound = "settle" /\ Settle!Next
  BY <1>1, <1>4, SmallerBound DEF SafetyInv
<1>5. CASE bound = "eager"
  BY <1>1, <1>5
<1> QED BY <1>2, <1>3, <1>4, <1>5 DEF SafetyNext

LEMMA SafetyStep ==
    ASSUME Handlers = {Transcriber, dtmf}, Eager = FALSE, SafetyInv, [SafetyNext]_<<vars, bound>>
    PROVE  SafetyInv'
<1>1. bound \in {"barge", "settle"} => TypeOK' /\ HeldByTask'
  BY SafetySteps, TypeStep, HeldStep DEF SafetyInv
<1>2. bound = "barge" => OthersIdle' /\ OrderInv'
  BY SafetySteps, OrderStep DEF SafetyInv
<1> QED BY <1>1, <1>2, SafetySteps DEF SafetyInv

LEMMA SafetyInvariant ==
    ASSUME Handlers = {Transcriber, dtmf}, Eager = FALSE
    PROVE  SafetySpec => []SafetyInv
<1>1. SafetyInit => SafetyInv
  BY SafetyInits
<1>2. SafetyInv /\ [SafetyNext]_<<vars, bound>> => SafetyInv'
  BY SafetyStep
<1> QED BY <1>1, <1>2, PTL DEF SafetySpec

\* As the run states it: without eager turns a barge-in finds every generation that
\* runs, also when finals of the DTMF collector start generations.
THEOREM NoOrphanWithoutEagerCorrect ==
    ASSUME Handlers = {Transcriber, dtmf}, Eager = FALSE
    PROVE  SafetySpec => []NoOrphanWithoutEager
<1>1. SafetyInv => NoOrphanWithoutEager
  BY DEF SafetyInv, NoOrphanWithoutEager, HeldByTask, NoOrphanGeneration
<1> QED BY <1>1, SafetyInvariant, PTL

\* As the run states it: with the transcriber's handler alone, audio never goes back to
\* an older turn after a newer one was heard.
THEOREM NeverBackToOlderTurnCorrect ==
    ASSUME Handlers = {Transcriber, dtmf}, Eager = FALSE
    PROVE  SafetySpec => NeverBackToOlderTurn
<1>1. SafetyInv /\ [SafetyNext]_<<vars, bound>>
        => [bound = "barge" => AudioMovesOn]_<<sending, sent, bound>>
  <2> SUFFICES ASSUME SafetyInv, [SafetyNext]_<<vars, bound>>, bound = "barge",
                      <<sending, sent, bound>>' # <<sending, sent, bound>>
               PROVE  AudioMovesOn
    OBVIOUS
  <2>1. [Next]_vars /\ bound' = bound
    BY SafetySteps
  <2>2. [AudioMovesOn]_<<sending, sent>>
    BY <2>1, SendMovesOn DEF SafetyInv
  <2> QED BY <2>1, <2>2
<1> QED BY <1>1, SafetyInvariant, PTL DEF SafetySpec, NeverBackToOlderTurn
=============================================================================
