----------------------- MODULE HangupLifecycle_proofs -----------------------
(***************************************************************************)
(* Theorems of HangupLifecycle for any number of turns and any             *)
(* configuration of the call, in three parts: when a goodbye can be called *)
(* off, how often the input handler is told to hang up, and the types with *)
(* what a step of the call may never do.                                   *)
(***************************************************************************)
EXTENDS HangupLifecycle, FiniteSetTheorems, TLAPS

PcOK == pc \in [Task -> Step]

\* A teardown is detached only by a turn that is over, and once. So the turn
\* of a goodbye that was called off, which is over too, cannot detach one.
OwnTeardown ==
    \A t \in Turns :
        /\ pc[Turn(t)] # "over" => pc[Detached(t)] = "none"
        /\ t \in rescued => pc[Turn(t)] = "over" /\ pc[Detached(t)] \in Dormant

IInv == PcOK /\ rescued \subseteq Turns /\ OwnTeardown /\ WindowOnlyInGoodbye

\* What most steps leave alone.
TurnsStayOver ==
    \A t \in Turns :
        /\ pc[Turn(t)] = "over" => pc'[Turn(t)] = "over"
        /\ pc[Detached(t)] \in Dormant => pc'[Detached(t)] = pc[Detached(t)]

GoodbyesGoOn == \A t \in Turns : pc[Turn(t)] \in Farewell => pc'[Turn(t)] \in Farewell

NoTurn == {Watchdog, Voicemail, Observer, Component, Speech, Keypad}

\* The tasks of the model are distinct.
LEMMA Tasks ==
    /\ \A t \in Turns : Turn(t) \in Task /\ Detached(t) \in Task
    /\ \A t, u \in Turns : Turn(t) # Detached(u)
    /\ \A t, u \in Turns : t # u => Turn(t) # Turn(u) /\ Detached(t) # Detached(u)
    /\ {Watchdog, Voicemail, Observer, Component, Speech, Keypad} \subseteq Task
    /\ \A t \in Turns, q \in {Watchdog, Voicemail, Observer, Component, Speech, Keypad} :
          Turn(t) # q /\ Detached(t) # q
<1>1. \A t \in Turns : Turn(t) \in Task /\ Detached(t) \in Task
  BY DEF Task, Turn, Detached
<1>2. \A t, u : Turn(t) # Detached(u)
  BY DEF Turn, Detached
<1>3. \A t, u : t # u => Turn(t) # Turn(u) /\ Detached(t) # Detached(u)
  BY DEF Turn, Detached
<1>4. {Watchdog, Voicemail, Observer, Component, Speech, Keypad} \subseteq Task
  BY DEF Task
<1>5. \A t : \A q \in {Watchdog, Voicemail, Observer, Component, Speech, Keypad} :
          Turn(t) # q /\ Detached(t) # q
  BY DEF Turn, Detached, Watchdog, Voicemail, Observer, Component, Speech, Keypad
<1> QED BY <1>1, <1>2, <1>3, <1>4, <1>5

\* Names that are not those of a dormant, or of a saying-goodbye, task.
LEMMA Steps ==
    /\ "none" \in Dormant /\ "idle" \in Dormant /\ "over" \in Dormant
    /\ Dormant \cap (Farewell \cup HangingUp \cup Ending) = {}
    /\ Farewell \cap (HangingUp \cup Ending) = {}
    /\ {"new", "running", "asking", "watching", "prompting", "checking", "interrupting",
        "replacing"} \cap (Dormant \cup Farewell) = {}
    /\ Dormant \cup Farewell \cup HangingUp \cup Ending \subseteq Step
    /\ {"new", "running", "asking", "watching", "prompting", "checking", "interrupting",
        "replacing"} \subseteq Step
BY DEF Dormant, Farewell, HangingUp, Ending, Step

\* A step that leaves the turns and their goodbyes alone keeps the invariant.
LEMMA Frame ==
    ASSUME IInv, PcOK', TurnsStayOver, rescued' = rescued,
           window' => window /\ GoodbyesGoOn
    PROVE  IInv'
<1>1. OwnTeardown'
  BY Steps DEF IInv, OwnTeardown, TurnsStayOver
<1>2. WindowOnlyInGoodbye'
  BY DEF IInv, WindowOnlyInGoodbye, GoodbyesGoOn
<1> QED BY <1>1, <1>2 DEF IInv

\* One task moves: it was under way, or is not a task that hangs up for a turn.
LEMMA OneMoves ==
    ASSUME IInv, NEW p \in Task, NEW s \in Step, Goes(p, s),
           pc[p] \notin Dormant \/ p \in NoTurn,
           rescued' = rescued,
           window' => window /\ (pc[p] \in Farewell => s \in Farewell)
    PROVE  IInv'
<1>1. PcOK'
  BY DEF IInv, PcOK, Goes
<1>2. TurnsStayOver
  BY Tasks, Steps DEF IInv, PcOK, Goes, TurnsStayOver, NoTurn
<1>3. window' => GoodbyesGoOn
  BY Tasks DEF IInv, PcOK, Goes, GoodbyesGoOn
<1> QED BY <1>1, <1>2, <1>3, Frame

\* Tasks are cancelled, and one of those left moves.
LEMMA ManyCancelled ==
    ASSUME IInv, NEW S \in SUBSET Task, NEW p \in Task, NEW s \in Step,
           pc' = [Cancelled(S) EXCEPT ![p] = s],
           pc[p] \notin Dormant \/ p \in NoTurn,
           pc[p] \notin Farewell \/ p \in NoTurn,
           rescued' = rescued,
           window' => window /\ \A t \in Turns : Turn(t) \in S => pc[Turn(t)] \notin Farewell
    PROVE  IInv'
<1>1. PcOK'
  BY Steps DEF IInv, PcOK, Cancelled
<1>2. TurnsStayOver
  BY Tasks, Steps DEF IInv, PcOK, TurnsStayOver, NoTurn, Cancelled, Live
<1>3. window' => GoodbyesGoOn
  BY Tasks DEF IInv, PcOK, GoodbyesGoOn, Cancelled, NoTurn
<1> QED BY <1>1, <1>2, <1>3, Frame

\* __process_end_of_conversation moves the task it runs in.
LEMMA EndMoves ==
    ASSUME NEW p \in Task, End(p)
    PROVE  \E s \in {"over", "waiting"} : Goes(p, s)
BY DEF End, Returns

\* process_call_hangup does so too, and closes the window if it goes ahead.
LEMMA HangUpMoves ==
    ASSUME NEW p \in Task, NEW m, HangUp(p, m)
    PROVE  (\E s \in {"over", "waiting", "draining"} : Goes(p, s)) /\ (window' => window)
BY EndMoves DEF HangUp, Returns

\* A call is called off by a task that is not the turn saying goodbye.
LEMMA CallOffKeeps ==
    ASSUME IInv, NEW p \in Task, NEW s \in Step \ Farewell, CallOff(p, s),
           pc[p] \in HangingUp \/ p \in NoTurn
    PROVE  IInv'
<1>1. CASE ended
  <2>1. Goes(p, s) /\ rescued' = rescued /\ ~window'
    BY <1>1 DEF CallOff
  <2> QED BY <2>1, OneMoves, Steps
<1>2. CASE ~ended
  <2> DEFINE dying == (LlmTask \cup {Detached(t) : t \in {hangupRef} \ {0}}) \ {p}
             farewell == {t \in Turns : Turn(t) \in dying /\ pc[Turn(t)] \in Farewell}
  <2>1. PICK resumed \in SUBSET {t \in farewell : pc[Turn(t)] = "playout"} :
          pc' = [q \in Task |-> CASE q = p -> s
                                  [] q \in {Detached(t) : t \in resumed} -> Armed(called_off')
                                  [] OTHER -> Cancelled(dying)[q]]
    BY <1>2 DEF CallOff
  <2>2. rescued' = rescued \cup farewell /\ ~window'
    BY <1>2 DEF CallOff
  <2>3. \A t \in farewell : pc[Detached(t)] = "none" /\ Detached(t) # p /\ Turn(t) # p
    BY Tasks, Steps DEF IInv, OwnTeardown, NoTurn
  <2>4. called_off' = TRUE
    BY <1>2 DEF CallOff
  <2>5. Armed(called_off') = "none"
    BY <2>4 DEF Armed
  <2>6. \A q \in Task : pc'[q] = IF q = p THEN s
                                  ELSE IF q \in dying /\ Live(q) THEN "over" ELSE pc[q]
    <3> SUFFICES ASSUME NEW q \in Task
                 PROVE  pc'[q] = IF q = p THEN s
                                 ELSE IF q \in dying /\ Live(q) THEN "over" ELSE pc[q]
      OBVIOUS
    <3>1. CASE q = p
      BY <2>1, <2>3, <3>1
    <3>2. CASE q # p /\ q \in {Detached(t) : t \in resumed}
      BY <2>1, <2>3, <2>5, <3>2, Steps DEF Live
    <3>3. CASE q # p /\ q \notin {Detached(t) : t \in resumed}
      BY <2>1, <3>3 DEF Cancelled
    <3> QED BY <3>1, <3>2, <3>3
  <2>7. PcOK'
    BY <2>1, <2>6, Steps DEF IInv, PcOK
  <2> HIDE DEF dying
  <2>8. \A t \in Turns : pc'[Turn(t)] # "over" => pc'[Detached(t)] = "none"
    BY <2>6, Tasks, Steps DEF IInv, OwnTeardown, Live, NoTurn
  <2>9. \A t \in rescued : t \in Turns => pc'[Turn(t)] = "over" /\ pc'[Detached(t)] \in Dormant
    BY <2>6, Tasks, Steps DEF IInv, OwnTeardown, Live, NoTurn
  <2>10. \A t \in farewell : pc'[Turn(t)] = "over" /\ pc'[Detached(t)] \in Dormant
    BY <2>3, <2>6, Tasks, Steps DEF Live
  <2>11. OwnTeardown'
    BY <2>2, <2>8, <2>9, <2>10 DEF OwnTeardown
  <2> QED BY <2>2, <2>7, <2>11 DEF IInv, WindowOnlyInGoodbye
<1> QED BY <1>1, <1>2

\* __cleanup_downstream_tasks begins: it calls a goodbye off or only suspends.
LEMMA CleanupKeeps ==
    ASSUME IInv, NEW p \in Task, NEW s \in Step \ Farewell, StartCleanup(p, s),
           pc[p] \in HangingUp \/ p \in NoTurn
    PROVE  IInv'
<1>1. CASE window
  BY <1>1, CallOffKeeps DEF StartCleanup
<1>2. CASE ~window
  <2>1. Goes(p, s) /\ rescued' = rescued /\ ~window'
    BY <1>2 DEF StartCleanup
  <2> QED BY <2>1, OneMoves, Steps
<1> QED BY <1>1, <1>2

\* A speaker's cleanup is over: the generation it found is cancelled, and a
\* new turn may start, which is none of those that are over.
LEMMA CleanupEndsKeeps ==
    ASSUME IInv, NEW h \in Handler, CleanupEnds(h)
    PROVE  IInv'
<1> DEFINE S == Killed(h)
<1>1. h \in NoTurn /\ h \in Task /\ h \notin S
  BY Tasks DEF Handler, NoTurn, Killed
<1>2. window' => window /\ \A t \in Turns : Turn(t) \in S => pc[Turn(t)] \notin Farewell
  BY DEF CleanupEnds, WindowAfter
<1>3. rescued' = rescued
  BY DEF CleanupEnds
<1>4. \/ pc' = [Cancelled(S) EXCEPT ![h] = "idle"]
      \/ \E t \in Turns : /\ Unused(t)
                          /\ pc' = [[Cancelled(S) EXCEPT ![h] = "idle"] EXCEPT ![Turn(t)] = "new"]
  BY DEF CleanupEnds
<1>5. IInv /\ pc \in [Task -> Step] /\ "idle" \in Step /\ "new" \in Step
  BY Steps DEF IInv, PcOK
<1> HIDE DEF S
<1>6. CASE pc' = [Cancelled(S) EXCEPT ![h] = "idle"]
  <2>1. PcOK'
    BY <1>1, <1>5, <1>6, Steps DEF PcOK, Cancelled
  <2>2. TurnsStayOver
    BY <1>1, <1>5, <1>6, Tasks, Steps DEF TurnsStayOver, Cancelled, Live, NoTurn
  <2>3. window' => GoodbyesGoOn
    BY <1>1, <1>2, <1>5, <1>6, Tasks DEF GoodbyesGoOn, Cancelled, NoTurn
  <2> QED BY <1>2, <1>3, <2>1, <2>2, <2>3, Frame
<1>7. ASSUME NEW t \in Turns, Unused(t),
             pc' = [[Cancelled(S) EXCEPT ![h] = "idle"] EXCEPT ![Turn(t)] = "new"]
      PROVE  IInv'
  <2>1. PcOK'
    BY <1>1, <1>5, <1>7, Steps DEF PcOK, Cancelled
  <2>2. pc[Turn(t)] = "none"
    BY <1>7 DEF Unused
  <2>3. TurnsStayOver
    BY <1>1, <1>5, <1>7, <2>2, Tasks, Steps DEF TurnsStayOver, Cancelled, Live, NoTurn
  <2>4. window' => GoodbyesGoOn
    BY <1>1, <1>2, <1>5, <1>7, <2>2, Tasks, Steps DEF GoodbyesGoOn, Cancelled, NoTurn
  <2> QED BY <1>2, <1>3, <2>1, <2>3, <2>4, Frame
<1> QED BY <1>4, <1>6, <1>7

\* A turn is started where there was none.
LEMMA StartKeeps ==
    ASSUME IInv, NEW t \in Turns, NEW p \in NoTurn, NEW s \in Step,
           pc[Turn(t)] = "none",
           pc' = [[pc EXCEPT ![Turn(t)] = "new"] EXCEPT ![p] = s],
           rescued' = rescued, window' = window
    PROVE  IInv'
<1>1. p \in Task /\ Turn(t) \in Task /\ p # Turn(t)
  BY Tasks DEF NoTurn
<1>2. PcOK'
  BY <1>1, Steps DEF IInv, PcOK
<1>3. TurnsStayOver
  BY <1>1, Tasks, Steps DEF IInv, PcOK, TurnsStayOver, NoTurn
<1>4. GoodbyesGoOn
  BY <1>1, Tasks, Steps DEF IInv, PcOK, GoodbyesGoOn, NoTurn
<1> QED BY <1>2, <1>3, <1>4, Frame

\* What a procedure does in the task that runs it.
LEMMA ProcedureKeeps ==
    ASSUME IInv, NEW p \in Task, Procedure(p)
    PROVE  IInv'
<1>1. CASE HangupDrained(p)
  <2>1. StartCleanup(p, "clearing") /\ pc[p] \in HangingUp
    BY <1>1 DEF HangupDrained, HangingUp
  <2>2. "clearing" \in Step \ Farewell
    BY DEF Step, Farewell, HangingUp
  <2> QED BY <2>1, <2>2, CleanupKeeps
<1>2. CASE HangupSpeaks(p)
  <2>1. /\ pc' = [Cancelled(Killed(p) \cap Task) EXCEPT ![p] = "over"]
        /\ pc[p] \in HangingUp /\ rescued' = rescued
    BY <1>2 DEF HangupSpeaks, HangingUp, Cancelled
  <2>2. window' => window /\ \A t \in Turns : Turn(t) \in Killed(p) => pc[Turn(t)] \notin Farewell
    BY <1>2 DEF HangupSpeaks, WindowAfter
  <2> QED BY <2>1, <2>2, ManyCancelled, Steps
<1>3. CASE EndPolls(p)
  <2>1. /\ Goes(p, "polling") /\ pc[p] \in Ending
        /\ rescued' = rescued /\ window' = window
    BY <1>3 DEF EndPolls, Ending, decision, ghosts
  <2>2. "polling" \in Step
    BY DEF Step, Ending
  <2> QED BY <2>1, <2>2, OneMoves, Steps
<1>4. CASE EndCommits(p)
  <2>1. /\ pc' = [Cancelled((LlmTask \ {p}) \cap Task) EXCEPT ![p] = "stopping"]
        /\ pc[p] \in Ending /\ rescued' = rescued
    BY <1>4 DEF EndCommits, Ending, Cancelled
  <2>2. window' => window /\ \A t \in Turns : Turn(t) \in LlmTask \ {p} => pc[Turn(t)] \notin Farewell
    BY <1>4 DEF EndCommits, WindowAfter
  <2>3. "stopping" \in Step
    BY DEF Step, Ending
  <2> QED BY <2>1, <2>2, <2>3, ManyCancelled, Steps
<1>5. CASE EndStops(p)
  <2>1. /\ pc' = [Cancelled({Voicemail}) EXCEPT ![p] = "over"]
        /\ pc[p] \in Ending /\ rescued' = rescued /\ window' = window
    BY <1>5 DEF EndStops, Ending, decision, ghosts
  <2>2. {Voicemail} \in SUBSET Task /\ \A t \in Turns : Turn(t) \notin {Voicemail}
    BY Tasks
  <2> QED BY <2>1, <2>2, ManyCancelled, Steps
<1> QED BY <1>1, <1>2, <1>3, <1>4, <1>5 DEF Procedure

\* The steps of a turn. Only the end_call branch says goodbye and detaches.
LEMMA TurnKeeps ==
    ASSUME IInv, NEW t \in Turns, TurnStep(t)
    PROVE  IInv'
<1>0. Turn(t) \in Task /\ Detached(t) \in Task
  BY Tasks
<1>1. CASE TurnStarts(t)
  <2>1. /\ Goes(Turn(t), "running") /\ pc[Turn(t)] = "new"
        /\ rescued' = rescued /\ window' = window
    BY <1>1 DEF TurnStarts, decision, ghosts
  <2> QED BY <1>0, <2>1, OneMoves, Steps
<1>2. CASE TurnReplies(t)
  <2>1. /\ \E s \in {"over", "asking"} : Goes(Turn(t), s)
        /\ pc[Turn(t)] \in {"new", "running"}
        /\ rescued' = rescued /\ window' = window
    BY <1>2 DEF TurnReplies, Returns, decision, ghosts
  <2> QED BY <1>0, <2>1, OneMoves, Steps
<1>3. CASE TurnHangsUp(t)
  <2>1. /\ \E s \in {"over", "waiting", "draining"} : Goes(Turn(t), s)
        /\ window' => window
    BY <1>0, <1>3, HangUpMoves DEF TurnHangsUp, Returns
  <2>2. pc[Turn(t)] = "asking" /\ rescued' = rescued
    BY <1>3 DEF TurnHangsUp, ghosts
  <2>3. {"waiting", "draining"} \subseteq Step
    BY DEF Step, Ending, HangingUp
  <2> QED BY <1>0, <2>1, <2>2, <2>3, OneMoves, Steps
<1>4. CASE TurnGoesOn(t)
  <2>1. /\ Goes(Turn(t), "over") /\ pc[Turn(t)] = "asking"
        /\ rescued' = rescued /\ window' = window
    BY <1>4 DEF TurnGoesOn, Returns, decision, ghosts
  <2> QED BY <1>0, <2>1, OneMoves, Steps
<1>5. CASE TurnCallsEnd(t)
  <2>1. /\ pc[Turn(t)] = "running" /\ rescued' = rescued
        /\ \E s \in Farewell : Goes(Turn(t), s)
    BY <1>5 DEF TurnCallsEnd, Farewell, ghosts
  <2>2. PICK s \in Farewell : Goes(Turn(t), s)
    BY <2>1
  <2>3. pc' = [pc EXCEPT ![Turn(t)] = s]
    BY <2>2 DEF Goes
  <2>4. PcOK' /\ TurnsStayOver
    BY <1>0, <2>1, <2>3, Tasks, Steps DEF IInv, PcOK, TurnsStayOver
  <2>5. OwnTeardown'
    BY <2>1, <2>4, Steps DEF IInv, OwnTeardown, TurnsStayOver
  <2>6. pc'[Turn(t)] \in Farewell
    BY <1>0, <2>3 DEF IInv, PcOK
  <2> QED BY <2>1, <2>4, <2>5, <2>6 DEF IInv, WindowOnlyInGoodbye
<1>6. CASE TurnSaysGoodbye(t)
  <2>1. /\ Goes(Turn(t), "playout") /\ pc[Turn(t)] = "goodbye"
        /\ rescued' = rescued /\ window' = window
    BY <1>6 DEF TurnSaysGoodbye, ghosts
  <2>2. "playout" \in Farewell /\ "goodbye" \in Farewell
    BY DEF Farewell
  <2> QED BY <1>0, <2>1, <2>2, OneMoves, Steps
<1>7. CASE TurnPlayed(t)
  <2>1. /\ pc' = [pc EXCEPT ![Turn(t)] = "over", ![Detached(t)] = Armed(called_off)]
        /\ pc[Turn(t)] = "playout" /\ rescued' = rescued /\ ~window'
    BY <1>7 DEF TurnPlayed, ghosts
  <2>2. Armed(called_off) \in Step
    BY Steps DEF Armed
  <2>3. PcOK'
    BY <1>0, <2>1, <2>2, Steps DEF IInv, PcOK
  <2>4. t \notin rescued
    BY <2>1 DEF IInv, OwnTeardown
  <2>5. \A u \in Turns \ {t} : pc'[Turn(u)] = pc[Turn(u)] /\ pc'[Detached(u)] = pc[Detached(u)]
    BY <2>1, Tasks DEF IInv, PcOK
  <2>6. pc'[Turn(t)] = "over"
    BY <1>0, <2>1, Tasks DEF IInv, PcOK
  <2>7. OwnTeardown'
    BY <2>1, <2>4, <2>5, <2>6 DEF IInv, OwnTeardown
  <2> QED BY <2>1, <2>3, <2>7 DEF IInv, WindowOnlyInGoodbye
<1>8. CASE TurnFails(t)
  <2>1. End(Turn(t)) /\ window' = WindowAfter({Turn(t)})
    BY <1>8 DEF TurnFails
  <2>2. \E s \in {"over", "waiting"} : Goes(Turn(t), s)
    BY <1>0, <2>1, EndMoves
  <2>3. window' => window /\ pc[Turn(t)] \notin Farewell
    BY <2>1 DEF WindowAfter
  <2>4. pc[Turn(t)] \in {"running", "asking"} \cup Farewell /\ rescued' = rescued
    BY <1>8 DEF TurnFails, ghosts
  <2>5. "waiting" \in Step
    BY DEF Step, Ending
  <2> QED BY <1>0, <2>2, <2>3, <2>4, <2>5, OneMoves, Steps
<1> QED BY <1>1, <1>2, <1>3, <1>4, <1>5, <1>6, <1>7, <1>8 DEF TurnStep

\* The caller: what is said and dialled, and the voicemail check it starts.
LEMMA CallerKeeps ==
    ASSUME IInv,
           \/ BargeIn
           \/ \E h \in Handler : Overlaps(h) \/ \E t \in Turns : Speaks(h, t)
           \/ VoicemailStarts \/ VoicemailFound \/ VoicemailNot
    PROVE  IInv'
<1>0. NoTurn \subseteq Task /\ Handler \subseteq NoTurn /\ Voicemail \in NoTurn
  BY Tasks DEF NoTurn, Handler
<1>1. CASE BargeIn
  <2>1. StartCleanup(Speech, "interrupting")
    BY <1>1 DEF BargeIn
  <2>2. Speech \in Task /\ Speech \in NoTurn
    BY <1>0 DEF NoTurn
  <2> QED BY <2>1, <2>2, CleanupKeeps, Steps
<1>2. ASSUME NEW h \in Handler, Overlaps(h)
      PROVE  IInv'
  <2>1. StartCleanup(h, "replacing")
    BY <1>2 DEF Overlaps
  <2> QED BY <1>0, <2>1, CleanupKeeps, Steps
<1>3. ASSUME NEW h \in Handler, NEW t \in Turns, Speaks(h, t)
      PROVE  IInv'
  <2>1. /\ pc' = [pc EXCEPT ![Turn(t)] = "new"]
        /\ pc[Turn(t)] = "none" /\ rescued' = rescued /\ window' = window
    BY <1>3 DEF Speaks, Unused, decision, ghosts
  <2>2. h \in Task /\ Turn(t) \in Task /\ h # Turn(t)
    BY <1>0, Tasks DEF NoTurn
  <2>3. /\ pc[h] \in Step
        /\ pc' = [[pc EXCEPT ![Turn(t)] = "new"] EXCEPT ![h] = pc[h]]
    BY <2>1, <2>2 DEF IInv, PcOK
  <2> QED BY <1>0, <2>1, <2>3, StartKeeps
<1>4. CASE VoicemailStarts
  <2>1. Goes(Voicemail, "checking") /\ rescued' = rescued /\ window' = window
    BY <1>4 DEF VoicemailStarts, decision, ghosts
  <2>2. ~(pc[Voicemail] \in Farewell)
    BY <1>4, Steps DEF VoicemailStarts
  <2> QED BY <1>0, <2>1, <2>2, OneMoves, Steps
<1>5. CASE VoicemailFound
  <2>1. HangUp(Voicemail, FALSE) /\ pc[Voicemail] = "checking" /\ rescued' = rescued
    BY <1>5 DEF VoicemailFound, ghosts
  <2>2. /\ \E s \in {"over", "waiting", "draining"} : Goes(Voicemail, s)
        /\ window' => window
    BY <1>0, <2>1, HangUpMoves
  <2>3. {"waiting", "draining"} \subseteq Step
    BY DEF Step, Ending, HangingUp
  <2> QED BY <1>0, <2>1, <2>2, <2>3, OneMoves, Steps
<1>6. CASE VoicemailNot
  <2>1. /\ Goes(Voicemail, "over") /\ pc[Voicemail] = "checking"
        /\ rescued' = rescued /\ window' = window
    BY <1>6 DEF VoicemailNot, decision, ghosts
  <2> QED BY <1>0, <2>1, OneMoves, Steps
<1> QED BY <1>1, <1>2, <1>3, <1>4, <1>5, <1>6

\* The watchdog, and what else can end the call.
LEMMA WatchdogKeeps ==
    ASSUME IInv,
           \/ CapReached \/ DeadlinePasses \/ WatchdogStops \/ Inactive \/ PromptEnds
           \/ \E t \in Turns : Prompts(t)
    PROVE  IInv'
<1>0. Watchdog \in Task /\ Watchdog \in NoTurn
  BY Tasks DEF NoTurn
<1>1. CASE CapReached \/ DeadlinePasses
  <2>1. /\ End(Watchdog) /\ pc[Watchdog] = "watching"
        /\ rescued' = rescued /\ window' = window
    BY <1>1 DEF CapReached, DeadlinePasses, decision, ghosts
  <2>2. \E s \in {"over", "waiting"} : Goes(Watchdog, s)
    BY <1>0, <2>1, EndMoves
  <2>3. "waiting" \in Step
    BY DEF Step, Ending
  <2> QED BY <1>0, <2>1, <2>2, <2>3, OneMoves, Steps
<1>2. CASE WatchdogStops
  <2>1. /\ Goes(Watchdog, "over") /\ pc[Watchdog] = "watching"
        /\ rescued' = rescued /\ window' = window
    BY <1>2 DEF WatchdogStops, decision, ghosts
  <2> QED BY <1>0, <2>1, OneMoves, Steps
<1>3. CASE Inactive
  <2>1. /\ HangUp(Watchdog, text /\ ~detected) /\ pc[Watchdog] = "watching"
        /\ rescued' = rescued
    BY <1>3 DEF Inactive, ghosts
  <2>2. /\ \E s \in {"over", "waiting", "draining"} : Goes(Watchdog, s)
        /\ window' => window
    BY <1>0, <2>1, HangUpMoves
  <2>3. {"waiting", "draining"} \subseteq Step
    BY DEF Step, Ending, HangingUp
  <2> QED BY <1>0, <2>1, <2>2, <2>3, OneMoves, Steps
<1>4. CASE PromptEnds
  <2>1. /\ \E s \in {"over", "watching"} : Goes(Watchdog, s)
        /\ pc[Watchdog] = "prompting" /\ rescued' = rescued /\ window' = window
    BY <1>4 DEF PromptEnds, decision, ghosts
  <2> QED BY <1>0, <2>1, OneMoves, Steps
<1>5. ASSUME NEW t \in Turns, Prompts(t)
      PROVE  IInv'
  <2>1. /\ pc' = [[pc EXCEPT ![Turn(t)] = "new"] EXCEPT ![Watchdog] = "prompting"]
        /\ pc[Turn(t)] = "none" /\ rescued' = rescued /\ window' = window
    BY <1>5 DEF Prompts, Unused, decision, ghosts
  <2> QED BY <1>0, <2>1, StartKeeps, Steps
<1> QED BY <1>1, <1>2, <1>3, <1>4, <1>5

\* Failures, the goodbye's mark, the detached task and the end of the run.
LEMMA EndingKeeps ==
    ASSUME IInv,
           \/ ComponentFails \/ GoodbyeAcked \/ GoodbyeLost \/ Observes
           \/ CallerLeaves \/ RunCloses
           \/ \E t \in Turns : DetachedStarts(t)
    PROVE  IInv'
<1>0. Component \in Task \cap NoTurn /\ Observer \in Task \cap NoTurn
  BY Tasks DEF NoTurn
<1>1. ASSUME NEW p \in {Component, Observer}, End(p), pc[p] \notin Farewell,
             rescued' = rescued, window' = window
      PROVE  IInv'
  <2>1. \E s \in {"over", "waiting"} : Goes(p, s)
    BY <1>0, <1>1, EndMoves
  <2>2. "waiting" \in Step
    BY DEF Step, Ending
  <2> QED BY <1>0, <1>1, <2>1, <2>2, OneMoves, Steps
<1>2. CASE ComponentFails
  <2>1. /\ End(Component) /\ pc[Component] = "idle"
        /\ rescued' = rescued /\ window' = window
    BY <1>2 DEF ComponentFails, decision, ghosts
  <2> QED BY <1>1, <2>1, Steps
<1>3. CASE Observes
  <2>1. /\ End(Observer) /\ pc[Observer] = "new"
        /\ rescued' = rescued /\ window' = window
    BY <1>3 DEF Observes, decision, ghosts
  <2> QED BY <1>1, <2>1, Steps
<1>4. CASE GoodbyeAcked
  <2>1. /\ pc' = pc \/ pc' = [pc EXCEPT ![Observer] = "new"]
        /\ rescued' = rescued /\ window' = window
    BY <1>4 DEF GoodbyeAcked, decision, ghosts
  <2>2. PcOK'
    BY <2>1, Steps DEF IInv, PcOK
  <2>3. TurnsStayOver /\ GoodbyesGoOn
    BY <1>0, <2>1, Tasks DEF IInv, PcOK, TurnsStayOver, GoodbyesGoOn
  <2> QED BY <2>1, <2>2, <2>3, Frame
<1>5. CASE GoodbyeLost \/ CallerLeaves
  <2>1. pc' = pc /\ rescued' = rescued /\ window' = window
    BY <1>5 DEF GoodbyeLost, CallerLeaves, decision, ghosts
  <2>2. PcOK' /\ TurnsStayOver /\ GoodbyesGoOn
    BY <2>1 DEF IInv, PcOK, TurnsStayOver, GoodbyesGoOn
  <2> QED BY <2>1, <2>2, Frame
<1>6. CASE RunCloses
  <2> DEFINE held == LlmTask \cup {Watchdog, Component} \cup Handler
  <2>1. pc' = Cancelled(held) /\ rescued' = rescued
    BY <1>6 DEF RunCloses, ghosts
  <2>2. window' => window /\ \A t \in Turns : Turn(t) \in held => pc[Turn(t)] \notin Farewell
    BY <1>6 DEF RunCloses, WindowAfter
  <2> HIDE DEF held
  <2>3. PcOK'
    BY <2>1, Steps DEF IInv, PcOK, Cancelled
  <2>4. TurnsStayOver
    BY <2>1, Tasks, Steps DEF IInv, PcOK, TurnsStayOver, Cancelled, Live
  <2>5. window' => GoodbyesGoOn
    BY <2>1, <2>2, Tasks DEF IInv, PcOK, GoodbyesGoOn, Cancelled
  <2> QED BY <2>1, <2>2, <2>3, <2>4, <2>5, Frame
<1>7. ASSUME NEW t \in Turns, DetachedStarts(t)
      PROVE  IInv'
  <2>1. /\ HangUp(Detached(t), text /\ ~detected) /\ pc[Detached(t)] = "new"
        /\ rescued' = rescued
    BY <1>7 DEF DetachedStarts, ghosts
  <2>2. Detached(t) \in Task
    BY Tasks
  <2>3. /\ \E s \in {"over", "waiting", "draining"} : Goes(Detached(t), s)
        /\ window' => window
    BY <2>1, <2>2, HangUpMoves
  <2>4. {"waiting", "draining"} \subseteq Step
    BY DEF Step, Ending, HangingUp
  <2> QED BY <2>1, <2>2, <2>3, <2>4, OneMoves, Steps
<1> QED BY <1>2, <1>3, <1>4, <1>5, <1>6, <1>7

\* IInv holds initially and every action keeps it.
LEMMA Invariance == Spec => []IInv
<1>1. Init => IInv
  <2> SUFFICES ASSUME Init PROVE IInv
    OBVIOUS
  <2>1. pc = [p \in Task |-> CASE p = Watchdog -> "watching"
                              [] p \in {Voicemail, Component, Speech, Keypad} -> "idle"
                              [] OTHER -> "none"]
    BY DEF Init
  <2>2. \A p \in Task : pc[p] \in {"watching", "idle", "none"}
    BY <2>1
  <2>3. PcOK
    BY <2>1, <2>2, Steps DEF PcOK
  <2>4. \A t \in Turns : pc[Detached(t)] = "none"
    BY <2>1, Tasks
  <2>5. rescued = {} /\ ~window
    BY DEF Init
  <2> QED BY <2>3, <2>4, <2>5 DEF IInv, OwnTeardown, WindowOnlyInGoodbye
<1>2. IInv /\ [Next]_vars => IInv'
  <2> SUFFICES ASSUME IInv, [Next]_vars PROVE IInv'
    OBVIOUS
  <2>1. CASE Next
    BY <2>1, ProcedureKeeps, TurnKeeps, CleanupEndsKeeps, CallerKeeps, WatchdogKeeps,
       EndingKeeps DEF Next
  <2>2. CASE UNCHANGED vars
    <3>1. pc' = pc /\ rescued' = rescued /\ window' = window
      BY <2>2 DEF vars, decision, ghosts
    <3>2. PcOK' /\ TurnsStayOver /\ GoodbyesGoOn
      BY <3>1 DEF IInv, PcOK, TurnsStayOver, GoodbyesGoOn
    <3> QED BY <3>1, <3>2, Frame
  <2> QED BY <2>1, <2>2
<1> QED BY <1>1, <1>2, PTL DEF Spec

\* A goodbye the caller called off (_cancel_pending_hangup) never tears the
\* call down, in any call of any configuration.
THEOREM RescuedStaysOnTheLineCorrect == Spec => []RescuedStaysOnTheLine
<1>1. IInv => RescuedStaysOnTheLine
  BY DEF IInv, OwnTeardown, RescuedStaysOnTheLine
<1> QED BY <1>1, Invariance, PTL

\* _hangup_interruptible_window is open only while end_call says a goodbye.
THEOREM WindowOnlyInGoodbyeCorrect == Spec => []WindowOnlyInGoodbye
<1>1. IInv => WindowOnlyInGoodbye
  BY DEF IInv
<1> QED BY <1>1, Invariance, PTL

---------------------------------------------------------------------------
(***************************************************************************)
(* The input handler of a call is told to hang up at most once for the     *)
(* call and once more for every goodbye the caller called off, for any     *)
(* number of turns. The argument counts the tasks between the guard of     *)
(* __process_end_of_conversation and stop_handler: the guard lets one      *)
(* through, and only _cancel_pending_hangup lifts it again. That it does   *)
(* so for a goodbye, which is then one more called off, holds because      *)
(* self.llm_task is the only turn under way.                               *)
(***************************************************************************)

\* The tasks past the guard of __process_end_of_conversation that have yet to
\* call stop_handler.
Committing == {p \in Task : pc[p] \in {"waiting", "polling"}}

\* The guard is shut.
Owed == IF ending \/ ended THEN 1 ELSE 0

Counted ==
    /\ stops \in Nat
    /\ stops + Cardinality(Committing) <= Owed + Cardinality(rescued)

\* Until the conversation is ended, a turn under way is the one of self.llm_task.
TurnHeld == ~ended => \A t \in Turns : Live(Turn(t)) => llmRef = t

StoppingEnds == \A p \in Task : pc[p] = "stopping" => ended

SInv == TurnHeld /\ StoppingEnds /\ Counted

\* A task under way, or one that neither is a turn nor detached by one.
Moves(p) == p \in Task /\ (Live(p) \/ \A t \in Turns : p # Turn(t) /\ p # Detached(t))

-----------------------------------------------------------------------------
(* Counting.                                                               *)

LEMMA FiniteTasks == IsFiniteSet(Task) /\ IsFiniteSet(Turns)
<1>1. IsFiniteSet(Turns)
  BY LifecycleAssumption, FS_Interval DEF Turns
<1>2. IsFiniteSet({"turn", "detached"})
  <2>1. {"turn", "detached"} = {"turn"} \cup {"detached"}
    OBVIOUS
  <2>2. IsFiniteSet({"turn"}) /\ IsFiniteSet({"detached"})
    BY FS_Singleton
  <2>3. IsFiniteSet({"turn"} \cup {"detached"})
    BY <2>2, FS_Union, Zenon
  <2> QED BY <2>1, <2>3
<1>3. IsFiniteSet({"turn", "detached"} \X Turns)
  BY <1>1, <1>2, FS_Product
<1>4. IsFiniteSet({Watchdog, Voicemail, Observer, Component, Speech, Keypad})
  <2> DEFINE A == {Watchdog} \cup {Voicemail}
             B == {Observer} \cup {Component}
             C == {Speech} \cup {Keypad}
  <2>1. IsFiniteSet(A) /\ IsFiniteSet(B) /\ IsFiniteSet(C)
    BY FS_Singleton, FS_Union
  <2>2. {Watchdog, Voicemail, Observer, Component, Speech, Keypad} = (A \cup B) \cup C
    OBVIOUS
  <2> HIDE DEF A, B, C
  <2>3. IsFiniteSet(A \cup B)
    BY <2>1, FS_Union
  <2>4. IsFiniteSet((A \cup B) \cup C)
    BY <2>1, <2>3, FS_Union
  <2> QED BY <2>2, <2>4, Zenon
<1>5. IsFiniteSet(Task)
  BY <1>3, <1>4, FS_Union DEF Task
<1> QED BY <1>1, <1>5

LEMMA Cardinals ==
    ASSUME IInv
    PROVE  /\ IsFiniteSet(Committing) /\ Cardinality(Committing) \in Nat
           /\ IsFiniteSet(rescued) /\ Cardinality(rescued) \in Nat
           /\ Owed \in 0..1
<1>1. Committing \in SUBSET Task /\ rescued \in SUBSET Turns
  BY DEF IInv, Committing
<1>2. IsFiniteSet(Committing) /\ IsFiniteSet(rescued)
  BY <1>1, FiniteTasks, FS_Subset
<1> QED BY <1>2, FS_CardinalityType DEF Owed

\* Nobody passes the guard, and it is not lifted.
LEMMA CountKept ==
    ASSUME IInv, IInv', Counted, Committing' \subseteq Committing,
           stops' = stops, rescued' = rescued,
           ending \/ ended => ending' \/ ended'
    PROVE  Counted'
<1>1. Committing' \in SUBSET Committing
  OBVIOUS
<1>2. Cardinality(Committing') <= Cardinality(Committing)
  BY <1>1, Cardinals, FS_Subset
<1>3. Cardinality(Committing') \in Nat /\ Cardinality(Committing) \in Nat
  <2>1. IsFiniteSet(Committing')
    BY <1>1, Cardinals, FS_Subset
  <2> QED BY <2>1, Cardinals, FS_CardinalityType
<1>4. Owed \in 0..1 /\ Owed' \in 0..1 /\ Owed <= Owed'
  BY DEF Owed
<1>5. Cardinality(rescued) \in Nat
  BY Cardinals
<1> HIDE DEF Committing, Owed
<1> QED BY <1>2, <1>3, <1>4, <1>5 DEF Counted

\* A task passes the guard and shuts it.
LEMMA CountPassed ==
    ASSUME IInv, IInv', Counted, NEW p, Committing' \subseteq Committing \cup {p},
           stops' = stops, rescued' = rescued,
           ~ending, ~ended, ending'
    PROVE  Counted'
<1>1. Committing' \in SUBSET (Committing \cup {p})
  OBVIOUS
<1>2. /\ IsFiniteSet(Committing \cup {p})
      /\ Cardinality(Committing \cup {p}) <= Cardinality(Committing) + 1
      /\ Cardinality(Committing \cup {p}) \in Nat
  <2>1. IsFiniteSet(Committing) /\ Cardinality(Committing) \in Nat
    BY Cardinals
  <2>2. /\ IsFiniteSet(Committing \cup {p})
        /\ Cardinality(Committing \cup {p}) =
              IF p \in Committing THEN Cardinality(Committing) ELSE Cardinality(Committing) + 1
    BY <2>1, FS_AddElement, Zenon
  <2> QED BY <2>1, <2>2
<1>3. IsFiniteSet(Committing') /\ Cardinality(Committing') <= Cardinality(Committing \cup {p})
  BY <1>1, <1>2, FS_Subset
<1>4. Cardinality(Committing') \in Nat /\ Cardinality(Committing) \in Nat
  BY <1>3, Cardinals, FS_CardinalityType
<1>5. Owed = 0 /\ Owed' = 1
  BY DEF Owed
<1>6. Cardinality(rescued) \in Nat
  BY Cardinals
<1>7. Cardinality(Committing') <= Cardinality(Committing) + 1
  BY <1>2, <1>3, <1>4
<1> QED BY <1>4, <1>5, <1>6, <1>7 DEF Counted

\* A task past the guard calls stop_handler.
LEMMA CountStopped ==
    ASSUME IInv, IInv', Counted, NEW p \in Committing,
           Committing' \subseteq Committing \ {p},
           stops' = stops + 1, rescued' = rescued, ended'
    PROVE  Counted'
<1>1. Committing' \in SUBSET (Committing \ {p})
  OBVIOUS
<1>2. /\ IsFiniteSet(Committing \ {p})
      /\ Cardinality(Committing \ {p}) = Cardinality(Committing) - 1
  BY Cardinals, FS_RemoveElement
<1>3. IsFiniteSet(Committing') /\ Cardinality(Committing') <= Cardinality(Committing \ {p})
  BY <1>1, <1>2, FS_Subset
<1>4. Cardinality(Committing') \in Nat /\ Cardinality(Committing) \in Nat
  BY <1>3, Cardinals, FS_CardinalityType
<1>5. Owed \in 0..1 /\ Owed' = 1
  BY DEF Owed
<1>6. Cardinality(rescued) \in Nat
  BY Cardinals
<1> QED BY <1>2, <1>3, <1>4, <1>5, <1>6 DEF Counted

\* The guard is lifted for a goodbye that is called off.
LEMMA CountLifted ==
    ASSUME IInv, IInv', Counted, Committing' \subseteq Committing,
           stops' = stops, rescued \subseteq rescued',
           NEW t \in rescued', t \notin rescued
    PROVE  Counted'
<1>1. Committing' \in SUBSET Committing /\ rescued \cup {t} \in SUBSET rescued'
  OBVIOUS
<1>2. Cardinality(Committing') <= Cardinality(Committing)
  BY <1>1, Cardinals, FS_Subset
<1>3. /\ IsFiniteSet(Committing') /\ IsFiniteSet(rescued')
      /\ IsFiniteSet(rescued \cup {t})
  <2>1. rescued' \in SUBSET Turns
    BY DEF IInv
  <2> QED BY <1>1, <2>1, FiniteTasks, Cardinals, FS_Subset
<1>4. /\ Cardinality(Committing') \in Nat /\ Cardinality(Committing) \in Nat
      /\ Cardinality(rescued') \in Nat /\ Cardinality(rescued) \in Nat
  BY <1>3, Cardinals, FS_CardinalityType
<1>5. Cardinality(rescued) + 1 <= Cardinality(rescued')
  <2>1. Cardinality(rescued \cup {t}) = Cardinality(rescued) + 1
    BY Cardinals, FS_AddElement
  <2>2. Cardinality(rescued \cup {t}) <= Cardinality(rescued')
    BY <1>1, <1>3, FS_Subset
  <2> QED BY <2>1, <2>2
<1>6. Owed \in 0..1 /\ Owed' \in 0..1
  BY DEF Owed
<1> QED BY <1>2, <1>4, <1>5, <1>6 DEF Counted

-----------------------------------------------------------------------------
(* Steps.                                                                  *)

\* One task goes on, and the guard is left alone.
LEMMA GoesOn ==
    ASSUME IInv, IInv', SInv, NEW p, Moves(p), NEW s, Goes(p, s),
           s \notin {"waiting", "stopping"},
           s = "polling" => pc[p] = "waiting",
           \/ llmRef' = llmRef
           \/ llmRef' = 0 /\ s \in Dormant /\ \E t \in Turns : p = Turn(t),
           ended' = ended, ending' = ending, stops' = stops, rescued' = rescued
    PROVE  SInv'
<1>1. \A q \in Task : pc'[q] = IF q = p THEN s ELSE pc[q]
  BY DEF IInv, PcOK, Goes, Moves
<1>2. TurnHeld'
  BY <1>1, Tasks DEF SInv, TurnHeld, Live, Moves
<1>3. StoppingEnds'
  BY <1>1 DEF SInv, StoppingEnds
<1>4. Committing' \subseteq Committing
  BY <1>1 DEF Committing
<1>5. Counted'
  BY <1>4, CountKept DEF SInv
<1> QED BY <1>2, <1>3, <1>5 DEF SInv

\* __process_end_of_conversation returns, or passes its guard.
LEMMA Ends ==
    ASSUME IInv, IInv', SInv, NEW p, Moves(p), End(p),
           ended' = ended, stops' = stops, rescued' = rescued
    PROVE  SInv'
<1>1. CASE ending \/ ended
  <2>1. /\ Goes(p, "over") /\ ending' = ending
        /\ llmRef' = IF p[1] = "turn" THEN 0 ELSE llmRef
    BY <1>1 DEF End, Returns
  <2>2. p[1] = "turn" => \E t \in Turns : p = Turn(t)
    <3>1. p \in Task
      BY DEF Moves
    <3> QED BY <3>1 DEF Task, Turn, Watchdog, Voicemail, Observer, Component, Speech, Keypad
  <2>3. "over" \in Dormant
    BY Steps
  <2> QED BY <2>1, <2>2, <2>3, GoesOn
<1>2. CASE ~(ending \/ ended)
  <2>1. ending' /\ Goes(p, "waiting") /\ llmRef' = llmRef
    BY <1>2 DEF End
  <2>2. \A q \in Task : pc'[q] = IF q = p THEN "waiting" ELSE pc[q]
    BY <2>1 DEF IInv, PcOK, Goes, Moves
  <2>3. TurnHeld'
    BY <2>1, <2>2, Tasks DEF SInv, TurnHeld, Live, Moves
  <2>4. StoppingEnds'
    BY <2>2 DEF SInv, StoppingEnds
  <2>5. Committing' \subseteq Committing \cup {p}
    BY <2>2 DEF Committing
  <2>6. Counted'
    BY <1>2, <2>1, <2>5, CountPassed DEF SInv
  <2> QED BY <2>3, <2>4, <2>6 DEF SInv
<1> QED BY <1>1, <1>2

\* process_call_hangup returns, tears the call down or has a message to say.
LEMMA HangsUp ==
    ASSUME IInv, IInv', SInv, NEW p, Moves(p), NEW m, HangUp(p, m),
           ended' = ended, stops' = stops, rescued' = rescued
    PROVE  SInv'
<1>1. CASE processing \/ ended
  <2>1. /\ Goes(p, "over") /\ ending' = ending
        /\ llmRef' = IF p[1] = "turn" THEN 0 ELSE llmRef
    BY <1>1 DEF HangUp, Returns
  <2>2. p[1] = "turn" => \E t \in Turns : p = Turn(t)
    <3>1. p \in Task
      BY DEF Moves
    <3> QED BY <3>1 DEF Task, Turn, Watchdog, Voicemail, Observer, Component, Speech, Keypad
  <2>3. "over" \in Dormant
    BY Steps
  <2> QED BY <2>1, <2>2, <2>3, GoesOn
<1>2. CASE ~(processing \/ ended) /\ m
  <2>1. Goes(p, "draining") /\ llmRef' = llmRef /\ ending' = ending
    BY <1>2 DEF HangUp
  <2> QED BY <2>1, GoesOn
<1>3. CASE ~(processing \/ ended) /\ ~m
  <2>1. End(p)
    BY <1>3 DEF HangUp
  <2> QED BY <2>1, Ends
<1> QED BY <1>1, <1>2, <1>3

\* The generation is cancelled with other tasks, and p ends or waits anew.
LEMMA CancelsTurn ==
    ASSUME IInv, IInv', SInv, NEW S, NEW p, Moves(p), NEW s,
           pc' = [Cancelled(S) EXCEPT ![p] = s],
           LlmTask \subseteq S \cup {p}, s \in Dormant,
           ended' = ended, ending' = ending, stops' = stops, rescued' = rescued
    PROVE  SInv'
<1>1. \A q \in Task : pc'[q] = IF q = p THEN s
                                ELSE IF q \in S /\ Live(q) THEN "over" ELSE pc[q]
  BY DEF IInv, PcOK, Cancelled, Moves
<1>2. TurnHeld'
  <2> SUFFICES ASSUME ~ended, NEW t \in Turns, Live(Turn(t))' PROVE FALSE
    BY DEF TurnHeld
  <2>1. Turn(t) \in Task /\ t # 0
    BY Tasks DEF Turns
  <2>2. Turn(t) # p /\ Live(Turn(t)) /\ Turn(t) \notin S
    BY <1>1, <2>1, Steps DEF Live
  <2>3. llmRef = t
    BY <2>2 DEF SInv, TurnHeld
  <2>4. Turn(t) \in LlmTask
    BY <2>1, <2>3 DEF LlmTask
  <2> QED BY <2>2, <2>4
<1>3. StoppingEnds'
  BY <1>1, Steps DEF SInv, StoppingEnds, Dormant
<1>4. Committing' \subseteq Committing
  BY <1>1, Steps DEF Committing, Dormant
<1>5. Counted'
  BY <1>4, CountKept DEF SInv
<1> QED BY <1>2, <1>3, <1>5 DEF SInv

\* A turn is started where none is under way.
LEMMA Starts ==
    ASSUME IInv, IInv', SInv, NEW t \in Turns, NEW P,
           \A q \in Task : pc'[q] = IF q = Turn(t) THEN "new" ELSE P[q],
           \A q \in Task : P[q] \in {"waiting", "polling", "stopping"} => P[q] = pc[q],
           \A u \in Turns : ended \/ P[Turn(u)] \in Dormant,
           llmRef' = t,
           ended' = ended, ending' = ending, stops' = stops, rescued' = rescued
    PROVE  SInv'
<1>1. TurnHeld'
  BY Tasks DEF TurnHeld, Live
<1>2. StoppingEnds'
  BY DEF SInv, StoppingEnds
<1>3. Committing' \subseteq Committing
  BY DEF Committing
<1>4. Counted'
  BY <1>3, CountKept DEF SInv
<1> QED BY <1>1, <1>2, <1>4 DEF SInv

\* The window is open: the goodbye it is open for belongs to self.llm_task,
\* which is cancelled with it. Nothing is lifted once the call is ended.
LEMMA CallsOff ==
    ASSUME IInv, IInv', SInv, NEW p, Moves(p), NEW s,
           s \in {"clearing", "interrupting", "replacing"},
           window, pc[p] \notin Farewell, CallOff(p, s),
           ended' = ended, stops' = stops
    PROVE  SInv'
<1>1. CASE ended
  <2>1. Goes(p, s) /\ ending' = ending /\ llmRef' = llmRef /\ rescued' = rescued
    BY <1>1 DEF CallOff
  <2> QED BY <2>1, GoesOn
<1>2. CASE ~ended
  <2> DEFINE dying == (LlmTask \cup {Detached(t) : t \in {hangupRef} \ {0}}) \ {p}
             farewell == {t \in Turns : Turn(t) \in dying /\ pc[Turn(t)] \in Farewell}
  <2>1. PICK resumed \in SUBSET {t \in farewell : pc[Turn(t)] = "playout"} :
          pc' = [q \in Task |-> CASE q = p -> s
                                  [] q \in {Detached(t) : t \in resumed} -> Armed(called_off')
                                  [] OTHER -> Cancelled(dying)[q]]
    BY <1>2 DEF CallOff
  <2>2. /\ rescued' = rescued \cup farewell
        /\ llmRef' = IF \E q \in LlmTask \ {p} : Live(q) THEN 0 ELSE llmRef
    BY <1>2 DEF CallOff
  <2>3. PICK g \in Turns : pc[Turn(g)] \in Farewell
    BY DEF IInv, WindowOnlyInGoodbye
  <2>4. Live(Turn(g)) /\ Turn(g) # p /\ Turn(g) \in Task /\ g # 0
    BY <2>3, Tasks, Steps DEF Live, Turns
  <2>5. llmRef = g /\ LlmTask = {Turn(g)}
    BY <1>2, <2>4 DEF SInv, TurnHeld, LlmTask
  <2>6. g \in farewell /\ g \notin rescued
    BY <2>3, <2>4, <2>5, Steps DEF IInv, OwnTeardown
  <2>7. called_off' = TRUE
    BY <1>2 DEF CallOff
  <2>8. Armed(called_off') = "none"
    BY <2>7 DEF Armed
  <2>9. \A q \in Task : pc'[q] = IF q = p THEN s
                                 ELSE IF q \in {Detached(t) : t \in resumed} THEN "none"
                                 ELSE IF q \in dying /\ Live(q) THEN "over" ELSE pc[q]
    <3> HIDE DEF dying
    <3> SUFFICES ASSUME NEW q \in Task
                 PROVE  pc'[q] = IF q = p THEN s
                                 ELSE IF q \in {Detached(t) : t \in resumed} THEN "none"
                                 ELSE IF q \in dying /\ Live(q) THEN "over" ELSE pc[q]
      OBVIOUS
    <3>0. \A t \in resumed : p # Detached(t)
      <4>1. \A t \in resumed : pc[Detached(t)] = "none"
        BY Steps DEF IInv, OwnTeardown
      <4> QED BY <4>1, Steps DEF Moves, Live
    <3>1. CASE q = p
      BY <2>1, <3>0, <3>1
    <3>2. CASE q # p /\ q \in {Detached(t) : t \in resumed}
      BY <2>1, <2>8, <3>2
    <3>3. CASE q # p /\ q \notin {Detached(t) : t \in resumed}
      BY <2>1, <3>3 DEF Cancelled
    <3> QED BY <3>1, <3>2, <3>3
  <2>10. \A t \in Turns : Turn(t) \notin {Detached(u) : u \in resumed}
    BY Tasks
  <2>11. \A t \in Turns : ~Live(Turn(t))' \/ Turn(t) = p
    <3> SUFFICES ASSUME NEW t \in Turns, Live(Turn(t))', Turn(t) # p PROVE FALSE
      OBVIOUS
    <3>1. Turn(t) \in Task
      BY Tasks
    <3>2. Live(Turn(t)) /\ Turn(t) \notin dying
      BY <2>9, <2>10, <3>1, Steps DEF Live
    <3>3. llmRef = t
      BY <1>2, <3>2 DEF SInv, TurnHeld
    <3> QED BY <2>4, <2>5, <3>2, <3>3
  <2>12. ~\E t \in Turns : p = Turn(t)
    BY <1>2, <2>4, <2>5 DEF SInv, TurnHeld, Moves
  <2>13. TurnHeld'
    BY <2>11, <2>12 DEF TurnHeld
  <2>14. StoppingEnds'
    BY <2>9 DEF SInv, StoppingEnds
  <2>15. Committing' \subseteq Committing
    BY <2>9 DEF Committing
  <2>16. Counted'
    BY <2>2, <2>6, <2>15, CountLifted DEF SInv
  <2> QED BY <2>13, <2>14, <2>16 DEF SInv
<1> QED BY <1>1, <1>2

\* __cleanup_downstream_tasks up to its first await.
LEMMA CleansUp ==
    ASSUME IInv, IInv', SInv, NEW p, Moves(p), NEW s,
           s \in {"clearing", "interrupting", "replacing"},
           pc[p] \notin Farewell, StartCleanup(p, s),
           ended' = ended, stops' = stops
    PROVE  SInv'
<1>1. CASE window
  BY <1>1, CallsOff DEF StartCleanup
<1>2. CASE ~window
  <2>1. Goes(p, s) /\ ending' = ending /\ llmRef' = llmRef /\ rescued' = rescued
    BY <1>2 DEF StartCleanup
  <2> QED BY <2>1, GoesOn
<1> QED BY <1>1, <1>2

-----------------------------------------------------------------------------
(* The actions.                                                            *)

LEMMA Movers ==
    /\ \A p \in NoTurn : Moves(p)
    /\ \A p \in Task : pc[p] \notin Dormant => Moves(p)
BY Tasks DEF Moves, NoTurn, Live

LEMMA ProcedureCounts ==
    ASSUME IInv, IInv', SInv, NEW p \in Task, Procedure(p)
    PROVE  SInv'
<1>1. CASE HangupDrained(p)
  <2>1. StartCleanup(p, "clearing") /\ pc[p] = "draining" /\ ended' = ended /\ stops' = stops
    BY <1>1 DEF HangupDrained
  <2>2. pc[p] \notin Dormant /\ pc[p] \notin Farewell
    BY <2>1 DEF Dormant, Farewell
  <2> QED BY <2>1, <2>2, Movers, CleansUp
<1>2. CASE HangupSpeaks(p)
  <2>1. /\ pc' = [Cancelled(Killed(p)) EXCEPT ![p] = "over"] /\ pc[p] = "clearing"
        /\ ended' = ended /\ ending' = ending /\ stops' = stops /\ rescued' = rescued
    BY <1>2 DEF HangupSpeaks
  <2>2. LlmTask \subseteq Killed(p) \cup {p}
    BY DEF Killed
  <2>3. pc[p] \notin Dormant /\ "over" \in Dormant
    BY <2>1 DEF Dormant
  <2> QED BY <2>1, <2>2, <2>3, Movers, CancelsTurn
<1>3. CASE EndPolls(p)
  <2>1. /\ Goes(p, "polling") /\ pc[p] = "waiting" /\ llmRef' = llmRef
        /\ ended' = ended /\ ending' = ending /\ stops' = stops /\ rescued' = rescued
    BY <1>3 DEF EndPolls, refs, teardown, ghosts
  <2>2. pc[p] \notin Dormant
    BY <2>1 DEF Dormant
  <2> QED BY <2>1, <2>2, Movers, GoesOn
<1>4. CASE EndCommits(p)
  <2>1. /\ pc' = [Cancelled(LlmTask \ {p}) EXCEPT ![p] = "stopping"]
        /\ pc[p] \in {"waiting", "polling"}
        /\ ended' /\ stops' = stops + 1 /\ rescued' = rescued
    BY <1>4 DEF EndCommits
  <2>2. \A q \in Task : pc'[q] = IF q = p THEN "stopping"
                                 ELSE IF q \in LlmTask /\ Live(q) THEN "over" ELSE pc[q]
    BY <2>1 DEF IInv, PcOK, Cancelled
  <2>3. TurnHeld' /\ StoppingEnds'
    BY <2>1 DEF TurnHeld, StoppingEnds
  <2>4. p \in Committing /\ Committing' \subseteq Committing \ {p}
    BY <2>1, <2>2 DEF Committing
  <2>5. Counted'
    BY <2>1, <2>4, CountStopped DEF SInv
  <2> QED BY <2>3, <2>5 DEF SInv
<1>5. CASE EndStops(p)
  <2>1. /\ pc' = [Cancelled({Voicemail}) EXCEPT ![p] = "over"] /\ pc[p] = "stopping"
        /\ ended' = ended /\ ending' = ending /\ stops' = stops /\ rescued' = rescued
    BY <1>5 DEF EndStops, teardown, ghosts
  <2>2. \A q \in Task : pc'[q] = "over" \/ pc'[q] = pc[q]
    BY <2>1 DEF IInv, PcOK, Cancelled
  <2>3. ended'
    BY <2>1 DEF SInv, StoppingEnds
  <2>4. TurnHeld' /\ StoppingEnds'
    BY <2>3 DEF TurnHeld, StoppingEnds
  <2>5. Committing' \subseteq Committing
    BY <2>2 DEF Committing
  <2>6. Counted'
    BY <2>1, <2>5, CountKept DEF SInv
  <2> QED BY <2>4, <2>6 DEF SInv
<1> QED BY <1>1, <1>2, <1>3, <1>4, <1>5 DEF Procedure

LEMMA TurnCounts ==
    ASSUME IInv, IInv', SInv, NEW t \in Turns, TurnStep(t)
    PROVE  SInv'
<1>0. Turn(t) \in Task /\ \E u \in Turns : Turn(t) = Turn(u)
  BY Tasks
<1>1. pc[Turn(t)] \in {"new", "running", "asking"} \cup Farewell
  BY DEF TurnStep, TurnStarts, TurnReplies, TurnHangsUp, TurnGoesOn, TurnCallsEnd,
         TurnSaysGoodbye, TurnPlayed, TurnFails, Farewell
<1>2. Moves(Turn(t))
  BY <1>0, <1>1, Movers, Steps
<1>3. stops' = stops /\ rescued' = rescued /\ ended' = ended
  BY DEF TurnStep, TurnStarts, TurnReplies, TurnHangsUp, TurnGoesOn, TurnCallsEnd,
         TurnSaysGoodbye, TurnPlayed, TurnFails, teardown, ghosts
<1>4. Dormant = {"none", "idle", "over"}
  BY DEF Dormant
<1>5. CASE TurnStarts(t)
  <2>1. Goes(Turn(t), "running") /\ llmRef' = llmRef /\ ending' = ending
    BY <1>5 DEF TurnStarts, refs, teardown
  <2> QED BY <1>2, <1>3, <2>1, GoesOn
<1>6. CASE TurnReplies(t) \/ TurnGoesOn(t)
  <2>1. /\ ending' = ending
        /\ \/ Goes(Turn(t), "over") /\ (llmRef' = llmRef \/ llmRef' = 0)
           \/ Goes(Turn(t), "asking") /\ llmRef' = llmRef
    BY <1>6 DEF TurnReplies, TurnGoesOn, Returns, teardown
  <2> QED BY <1>0, <1>2, <1>3, <1>4, <2>1, GoesOn
<1>7. CASE TurnHangsUp(t)
  <2>1. CASE triggered \/ ended
    <3>1. /\ Goes(Turn(t), "over") /\ (llmRef' = llmRef \/ llmRef' = 0)
          /\ ending' = ending
      BY <1>7, <2>1 DEF TurnHangsUp, Returns
    <3> QED BY <1>0, <1>2, <1>3, <1>4, <3>1, GoesOn
  <2>2. CASE ~(triggered \/ ended)
    <3>1. HangUp(Turn(t), text /\ ~detected)
      BY <1>7, <2>2 DEF TurnHangsUp
    <3> QED BY <1>2, <1>3, <3>1, HangsUp
  <2> QED BY <2>1, <2>2
<1>8. CASE TurnCallsEnd(t) \/ TurnSaysGoodbye(t)
  <2>1. /\ \E s \in Farewell : Goes(Turn(t), s)
        /\ llmRef' = llmRef /\ ending' = ending
    BY <1>8 DEF TurnCallsEnd, TurnSaysGoodbye, Farewell, refs, teardown
  <2>2. "waiting" \notin Farewell /\ "stopping" \notin Farewell /\ "polling" \notin Farewell
    BY DEF Farewell
  <2> QED BY <1>2, <1>3, <2>1, <2>2, GoesOn
<1>9. CASE TurnPlayed(t)
  <2>1. /\ pc' = [pc EXCEPT ![Turn(t)] = "over", ![Detached(t)] = Armed(called_off)]
        /\ ending' = ending /\ llmRef' = 0 /\ Live(Turn(t))
    BY <1>9 DEF TurnPlayed, teardown, Live, Dormant
  <2>2. Armed(called_off) \in {"none", "new"}
    BY DEF Armed
  <2>3. \A q \in Task : q # Turn(t) /\ q # Detached(t) => pc'[q] = pc[q]
    BY <2>1 DEF IInv, PcOK
  <2>4. Detached(t) \in Task /\ Turn(t) # Detached(t)
    BY Tasks
  <2>5. pc'[Turn(t)] = "over" /\ pc'[Detached(t)] \in {"none", "new"}
    BY <1>0, <2>1, <2>2, <2>4 DEF IInv, PcOK
  <2>6. TurnHeld'
    <3> SUFFICES ASSUME ~ended, NEW u \in Turns, Live(Turn(u))' PROVE FALSE
      BY <1>3 DEF TurnHeld
    <3>1. u # t
      BY <1>4, <2>5 DEF Live
    <3>2. Turn(u) # Turn(t) /\ Turn(u) # Detached(t) /\ Turn(u) \in Task
      BY <3>1, Tasks
    <3>3. Live(Turn(u))
      BY <2>3, <3>2 DEF Live
    <3> QED BY <2>1, <3>1, <3>3 DEF SInv, TurnHeld
  <2>7. StoppingEnds'
    BY <1>3, <2>3, <2>5 DEF SInv, StoppingEnds
  <2>8. Committing' \subseteq Committing
    BY <2>3, <2>5 DEF Committing
  <2>9. Counted'
    BY <1>3, <2>1, <2>8, CountKept DEF SInv
  <2> QED BY <2>6, <2>7, <2>9 DEF SInv
<1>10. CASE TurnFails(t)
  <2>1. End(Turn(t))
    BY <1>10 DEF TurnFails
  <2> QED BY <1>2, <1>3, <2>1, Ends
<1> QED BY <1>5, <1>6, <1>7, <1>8, <1>9, <1>10 DEF TurnStep

LEMMA CallerCounts ==
    ASSUME IInv, IInv', SInv,
           \/ BargeIn
           \/ \E h \in Handler : \/ Overlaps(h) \/ CleanupEnds(h)
                                 \/ \E t \in Turns : Speaks(h, t)
           \/ VoicemailStarts \/ VoicemailFound \/ VoicemailNot
    PROVE  SInv'
<1>0. \A p \in Handler \cup {Voicemail} : p \in Task /\ Moves(p)
  BY Tasks, Movers DEF NoTurn, Handler
<1>1. CASE BargeIn
  <2>1. /\ StartCleanup(Speech, "interrupting") /\ pc[Speech] \notin Farewell
        /\ ended' = ended /\ stops' = stops
    BY <1>1 DEF BargeIn, Farewell
  <2>2. Speech \in Handler
    BY DEF Handler
  <2> QED BY <1>0, <2>1, <2>2, CleansUp
<1>2. ASSUME NEW h \in Handler, Overlaps(h)
      PROVE  SInv'
  <2>1. /\ StartCleanup(h, "replacing") /\ pc[h] \notin Farewell
        /\ ended' = ended /\ stops' = stops
    BY <1>2 DEF Overlaps, Farewell
  <2> QED BY <1>0, <1>2, <2>1, CleansUp
<1>3. ASSUME NEW h \in Handler, NEW t \in Turns, Speaks(h, t)
      PROVE  SInv'
  <2>1. /\ \A q \in Task : pc'[q] = IF q = Turn(t) THEN "new" ELSE pc[q]
        /\ \A u \in Turns : pc[Turn(u)] \in Dormant
        /\ llmRef' = t /\ ended' = ended /\ ending' = ending
        /\ stops' = stops /\ rescued' = rescued
    BY <1>3 DEF Speaks, Live, IInv, PcOK, teardown, ghosts
  <2> QED BY <2>1, Starts
<1>4. ASSUME NEW h \in Handler, CleanupEnds(h)
      PROVE  SInv'
  <2> DEFINE killed == [Cancelled(Killed(h)) EXCEPT ![h] = "idle"]
  <2>1. /\ ended' = ended /\ ending' = ending /\ stops' = stops /\ rescued' = rescued
        /\ \/ pc' = killed
           \/ \E t \in Turns : pc' = [killed EXCEPT ![Turn(t)] = "new"] /\ llmRef' = t
    BY <1>4 DEF CleanupEnds, teardown
  <2>2. h \in Task /\ Moves(h)
    BY <1>0, <1>4
  <2>3. LlmTask \subseteq Killed(h) \cup {h}
    BY DEF Killed
  <2>4. CASE pc' = killed
    BY <2>1, <2>2, <2>3, <2>4, Steps, CancelsTurn
  <2>5. ASSUME NEW t \in Turns, pc' = [killed EXCEPT ![Turn(t)] = "new"], llmRef' = t
        PROVE  SInv'
    <3>1. \A q \in Task : killed[q] = IF q = h THEN "idle"
                                      ELSE IF q \in Killed(h) /\ Live(q) THEN "over"
                                      ELSE pc[q]
      BY <2>2 DEF Cancelled
    <3>2. \A q \in Task : pc'[q] = IF q = Turn(t) THEN "new" ELSE killed[q]
      BY <2>2, <2>5 DEF Cancelled
    <3>3. \A q \in Task : killed[q] \in {"waiting", "polling", "stopping"}
                             => killed[q] = pc[q]
      BY <3>1
    <3>4. ASSUME NEW u \in Turns, ~ended PROVE killed[Turn(u)] \in Dormant
      <4>1. Turn(u) \in Task /\ u # 0 /\ Turn(u) # h
        BY <1>4, Tasks DEF Turns, Handler
      <4>2. CASE Live(Turn(u))
        <5>1. Turn(u) \in LlmTask
          BY <3>4, <4>1, <4>2 DEF SInv, TurnHeld, LlmTask
        <5> QED BY <2>3, <3>1, <4>1, <4>2, <5>1, Steps
      <4>3. CASE ~Live(Turn(u))
        BY <3>1, <4>1, <4>3 DEF Live
      <4> QED BY <4>2, <4>3
    <3> HIDE DEF killed
    <3> QED BY <2>1, <2>5, <3>2, <3>3, <3>4, Starts
  <2> QED BY <2>1, <2>4, <2>5
<1>5. CASE VoicemailStarts
  <2>1. /\ Goes(Voicemail, "checking") /\ llmRef' = llmRef /\ ended' = ended
        /\ ending' = ending /\ stops' = stops /\ rescued' = rescued
    BY <1>5 DEF VoicemailStarts, refs, teardown, ghosts
  <2> QED BY <1>0, <2>1, GoesOn
<1>6. CASE VoicemailFound
  <2>1. /\ HangUp(Voicemail, FALSE) /\ ended' = ended
        /\ stops' = stops /\ rescued' = rescued
    BY <1>6 DEF VoicemailFound, ghosts
  <2> QED BY <1>0, <2>1, HangsUp
<1>7. CASE VoicemailNot
  <2>1. /\ Goes(Voicemail, "over") /\ llmRef' = llmRef /\ ended' = ended
        /\ ending' = ending /\ stops' = stops /\ rescued' = rescued
    BY <1>7 DEF VoicemailNot, refs, teardown, ghosts
  <2> QED BY <1>0, <2>1, GoesOn
<1> QED BY <1>1, <1>2, <1>3, <1>4, <1>5, <1>6, <1>7

LEMMA WatchdogCounts ==
    ASSUME IInv, IInv', SInv,
           \/ CapReached \/ DeadlinePasses \/ WatchdogStops \/ Inactive \/ PromptEnds
           \/ \E t \in Turns : Prompts(t)
    PROVE  SInv'
<1>0. Watchdog \in Task /\ Moves(Watchdog)
  BY Tasks, Movers DEF NoTurn
<1>1. CASE CapReached \/ DeadlinePasses
  <2>1. End(Watchdog) /\ ended' = ended /\ stops' = stops /\ rescued' = rescued
    BY <1>1 DEF CapReached, DeadlinePasses, ghosts
  <2> QED BY <1>0, <2>1, Ends
<1>2. CASE WatchdogStops \/ PromptEnds
  <2>1. /\ \E s \in {"over", "watching"} : Goes(Watchdog, s)
        /\ llmRef' = llmRef /\ ended' = ended
        /\ ending' = ending /\ stops' = stops /\ rescued' = rescued
    BY <1>2 DEF WatchdogStops, PromptEnds, refs, teardown, ghosts
  <2> QED BY <1>0, <2>1, GoesOn
<1>3. CASE Inactive
  <2>1. /\ HangUp(Watchdog, text /\ ~detected) /\ ended' = ended
        /\ stops' = stops /\ rescued' = rescued
    BY <1>3 DEF Inactive, ghosts
  <2> QED BY <1>0, <2>1, HangsUp
<1>4. ASSUME NEW t \in Turns, Prompts(t)
      PROVE  SInv'
  <2> DEFINE P == [pc EXCEPT ![Watchdog] = "prompting"]
  <2>1. /\ pc' = [pc EXCEPT ![Turn(t)] = "new", ![Watchdog] = "prompting"]
        /\ \A u \in Turns : pc[Turn(u)] \in Dormant
        /\ llmRef' = t /\ ended' = ended /\ ending' = ending
        /\ stops' = stops /\ rescued' = rescued
    BY <1>4 DEF Prompts, Live, teardown, ghosts
  <2>2. \A u \in Turns : Turn(u) \in Task /\ Turn(u) # Watchdog
    BY Tasks
  <2>3. \A q \in Task : pc'[q] = IF q = Turn(t) THEN "new" ELSE P[q]
    BY <1>0, <2>1, <2>2 DEF IInv, PcOK
  <2>4. \A q \in Task : P[q] \in {"waiting", "polling", "stopping"} => P[q] = pc[q]
    BY DEF IInv, PcOK
  <2>5. \A u \in Turns : P[Turn(u)] \in Dormant
    BY <2>1, <2>2 DEF IInv, PcOK
  <2> HIDE DEF P
  <2> QED BY <2>1, <2>3, <2>4, <2>5, Starts
<1> QED BY <1>1, <1>2, <1>3, <1>4

LEMMA EndingCounts ==
    ASSUME IInv, IInv', SInv,
           \/ ComponentFails \/ GoodbyeAcked \/ GoodbyeLost \/ Observes
           \/ CallerLeaves \/ RunCloses
           \/ \E t \in Turns : DetachedStarts(t)
    PROVE  SInv'
<1>0. \A p \in {Component, Observer} : p \in Task /\ Moves(p)
  BY Tasks, Movers DEF NoTurn
<1>1. CASE ComponentFails
  <2>1. End(Component) /\ ended' = ended /\ stops' = stops /\ rescued' = rescued
    BY <1>1 DEF ComponentFails, ghosts
  <2> QED BY <1>0, <2>1, Ends
<1>2. CASE Observes
  <2>1. End(Observer) /\ ended' = ended /\ stops' = stops /\ rescued' = rescued
    BY <1>2 DEF Observes, ghosts
  <2> QED BY <1>0, <2>1, Ends
<1>3. CASE GoodbyeAcked \/ GoodbyeLost \/ CallerLeaves
  <2>1. /\ pc' = pc \/ Goes(Observer, "new")
        /\ llmRef' = llmRef /\ ended' = ended
        /\ ending' = ending /\ stops' = stops /\ rescued' = rescued
    BY <1>3 DEF GoodbyeAcked, GoodbyeLost, CallerLeaves, Goes, refs, teardown, ghosts
  <2>2. CASE pc' = pc
    <3>1. TurnHeld' /\ StoppingEnds' /\ Committing' \subseteq Committing
      BY <2>1, <2>2 DEF SInv, TurnHeld, StoppingEnds, Committing, Live
    <3>2. Counted'
      BY <2>1, <3>1, CountKept DEF SInv
    <3> QED BY <3>1, <3>2 DEF SInv
  <2>3. CASE Goes(Observer, "new")
    BY <1>0, <2>1, <2>3, GoesOn
  <2> QED BY <2>1, <2>2, <2>3
<1>4. CASE RunCloses
  <2>1. /\ \E held : pc' = Cancelled(held)
        /\ ended' /\ ending' = ending /\ stops' = stops /\ rescued' = rescued
    BY <1>4 DEF RunCloses, ghosts
  <2>2. \A q \in Task : pc'[q] = "over" \/ pc'[q] = pc[q]
    BY <2>1 DEF Cancelled
  <2>3. TurnHeld' /\ StoppingEnds'
    BY <2>1 DEF TurnHeld, StoppingEnds
  <2>4. Committing' \subseteq Committing
    BY <2>2 DEF Committing
  <2>5. Counted'
    BY <2>1, <2>4, CountKept DEF SInv
  <2> QED BY <2>3, <2>5 DEF SInv
<1>5. ASSUME NEW t \in Turns, DetachedStarts(t)
      PROVE  SInv'
  <2>1. /\ HangUp(Detached(t), text /\ ~detected) /\ pc[Detached(t)] = "new"
        /\ ended' = ended /\ stops' = stops /\ rescued' = rescued
    BY <1>5 DEF DetachedStarts, ghosts
  <2>2. Moves(Detached(t))
    BY <2>1, Tasks, Movers, Steps
  <2> QED BY <2>1, <2>2, HangsUp
<1> QED BY <1>1, <1>2, <1>3, <1>4, <1>5

\* The count holds initially and every action keeps it, whatever else IInv says.
LEMMA CountInvariance == Spec => []SInv
<1>1. Init /\ IInv => SInv
  <2> SUFFICES ASSUME Init, IInv PROVE SInv
    OBVIOUS
  <2>1. pc = [p \in Task |-> CASE p = Watchdog -> "watching"
                              [] p \in {Voicemail, Component, Speech, Keypad} -> "idle"
                              [] OTHER -> "none"]
    BY DEF Init
  <2>2. \A p \in Task : pc[p] \in {"watching", "idle", "none"}
    BY <2>1
  <2>3. StoppingEnds /\ Committing = {}
    BY <2>2 DEF StoppingEnds, Committing
  <2>4. \A t \in Turns : pc[Turn(t)] = "none"
    BY <2>1, Tasks
  <2>5. TurnHeld
    BY <2>4, Steps DEF TurnHeld, Live
  <2>6. stops = 0 /\ rescued = {} /\ Owed = 0
    BY DEF Init, Owed
  <2>7. Counted
    BY <2>3, <2>6, FS_EmptySet DEF Counted
  <2> QED BY <2>3, <2>5, <2>7 DEF SInv
<1>2. IInv /\ IInv' /\ SInv /\ [Next]_vars => SInv'
  <2> SUFFICES ASSUME IInv, IInv', SInv, [Next]_vars PROVE SInv'
    OBVIOUS
  <2>1. CASE Next
    BY <2>1, ProcedureCounts, TurnCounts, CallerCounts, WatchdogCounts, EndingCounts DEF Next
  <2>2. CASE UNCHANGED vars
    <3>1. /\ pc' = pc /\ llmRef' = llmRef /\ ended' = ended /\ ending' = ending
          /\ stops' = stops /\ rescued' = rescued
      BY <2>2 DEF vars, refs, teardown, ghosts
    <3>2. TurnHeld' /\ StoppingEnds' /\ Committing' \subseteq Committing
      BY <3>1 DEF SInv, TurnHeld, StoppingEnds, Committing, Live
    <3>3. Counted'
      BY <3>1, <3>2, CountKept DEF SInv
    <3> QED BY <3>2, <3>3 DEF SInv
  <2> QED BY <2>1, <2>2
<1> QED BY <1>1, <1>2, Invariance, PTL DEF Spec

\* stop_handler is called once, and once more for each goodbye that
\* _cancel_pending_hangup called off, whoever decides to end the call.
THEOREM StoppedOnceCorrect == Spec => []StoppedOnce
<1>1. IInv /\ SInv => StoppedOnce
  <2> SUFFICES ASSUME IInv, SInv PROVE StoppedOnce
    OBVIOUS
  <2>1. /\ Cardinality(Committing) \in Nat /\ Cardinality(rescued) \in Nat
        /\ Owed \in 0..1
    BY Cardinals
  <2> HIDE DEF Committing, Owed
  <2> QED BY <2>1 DEF SInv, Counted, StoppedOnce
<1> QED BY <1>1, Invariance, CountInvariance, PTL

---------------------------------------------------------------------------
(***************************************************************************)
(* The types of a call's variables, and what a step of the call may never  *)
(* do, for any number of turns and any configuration:                      *)
(*   - cancel a task that has called stop_handler, which would leave the   *)
(*     sockets open: such a turn has left self.llm_task, and a goodbye is  *)
(*     called off only while nobody is there;                              *)
(*   - end the conversation on a goodbye that is still to be played:       *)
(*     hangup_processing lets one task prepare one until the observer has  *)
(*     seen its mark, unless a goodbye was called off.                     *)
(***************************************************************************)

\* What TypeOK says beyond the invariants already established.
Refs ==
    /\ conf \in Confs
    /\ llmRef \in 0..MaxTurns /\ hangupRef \in 0..MaxTurns /\ prompted \in 0..MaxTurns
    /\ raised \subseteq Turns
    /\ pc[Watchdog] = "prompting" => prompted # 0
    /\ run \in {"live", "leaving", "closed"}
    /\ cut \subseteq Task

-----------------------------------------------------------------------------
(* The flags stay Boolean: what the procedures and the cleanup assign, then *)
(* every action.                                                           *)

LEMMA EndFlags == ASSUME FlagsOK, NEW p, End(p) PROVE ending' \in BOOLEAN
BY DEF End, FlagsOK

LEMMA HangUpFlags ==
    ASSUME FlagsOK, NEW p, NEW m \in BOOLEAN, HangUp(p, m)
    PROVE  {triggered', window', processing', ending', queued', stamped'} \subseteq BOOLEAN
BY EndFlags DEF HangUp, FlagsOK

LEMMA CleanupFlags ==
    ASSUME FlagsOK, NEW p, NEW s, StartCleanup(p, s)
    PROVE  {triggered', endCall', window', called_off', processing', ending', queued',
            stamped'} \subseteq BOOLEAN
BY DEF StartCleanup, CallOff, FlagsOK

LEMMA FlagsKept == FlagsOK /\ conf \in Confs /\ [Next]_vars => FlagsOK'
<1> SUFFICES ASSUME FlagsOK, conf \in Confs, [Next]_vars PROVE FlagsOK'
  OBVIOUS
<1>0. (text /\ ~detected) \in BOOLEAN /\ FALSE \in BOOLEAN /\ conf.interruptible \in BOOLEAN
  BY LifecycleAssumption DEF FlagsOK, Conf
<1>1. CASE UNCHANGED vars
  BY <1>1 DEF vars, decision, teardown, signals, ghosts, FlagsOK
<1>2. ASSUME NEW p \in Task, HangupDrained(p) PROVE FlagsOK'
  BY <1>2, CleanupFlags DEF HangupDrained, FlagsOK, signals
<1>3. ASSUME NEW p \in Task, HangupSpeaks(p) PROVE FlagsOK'
  <2>1. {window', lost', goodbye'} \subseteq BOOLEAN
    BY <1>3 DEF HangupSpeaks, WindowAfter, DropsAudio, FlagsOK
  <2> QED BY <1>3, <2>1 DEF HangupSpeaks, FlagsOK
<1>4. ASSUME NEW p \in Task, EndCommits(p) PROVE FlagsOK'
  BY <1>4 DEF EndCommits, FlagsOK, WindowAfter, signals
<1>5. ASSUME NEW p \in Task, EndPolls(p) \/ EndStops(p) PROVE FlagsOK'
  BY <1>5 DEF EndPolls, EndStops, FlagsOK, decision, teardown, signals, ghosts
<1>6. ASSUME NEW t \in Turns, TurnStarts(t) \/ TurnReplies(t) \/ TurnGoesOn(t) PROVE FlagsOK'
  BY <1>6 DEF TurnStarts, TurnReplies, TurnGoesOn, FlagsOK, decision, teardown, signals, ghosts
<1>7. ASSUME NEW t \in Turns, TurnHangsUp(t) PROVE FlagsOK'
  BY <1>0, <1>7, HangUpFlags DEF TurnHangsUp, FlagsOK, signals, ghosts
<1>8. ASSUME NEW t \in Turns, TurnCallsEnd(t) \/ TurnSaysGoodbye(t) PROVE FlagsOK'
  BY <1>0, <1>8 DEF TurnCallsEnd, TurnSaysGoodbye, FlagsOK, teardown, signals, ghosts
<1>9. ASSUME NEW t \in Turns, TurnPlayed(t) PROVE FlagsOK'
  BY <1>9 DEF TurnPlayed, FlagsOK, teardown, signals, ghosts
<1>10. ASSUME NEW t \in Turns, TurnFails(t) PROVE FlagsOK'
  BY <1>10, EndFlags DEF TurnFails, WindowAfter, FlagsOK, signals, ghosts
<1>11. CASE BargeIn \/ \E h \in Handler : Overlaps(h)
  BY <1>11, CleanupFlags DEF BargeIn, Overlaps, FlagsOK, signals
<1>12. ASSUME NEW h \in Handler, CleanupEnds(h) PROVE FlagsOK'
  <2>1. {window', lost', goodbye'} \subseteq BOOLEAN
    BY <1>12 DEF CleanupEnds, WindowAfter, DropsAudio, FlagsOK
  <2> QED BY <1>12, <2>1 DEF CleanupEnds, FlagsOK, teardown
<1>13. ASSUME NEW h \in Handler, NEW t \in Turns, Speaks(h, t) PROVE FlagsOK'
  BY <1>13 DEF Speaks, FlagsOK, decision, teardown, signals, ghosts
<1>14. CASE VoicemailStarts \/ VoicemailNot
  BY <1>14 DEF VoicemailStarts, VoicemailNot, FlagsOK, decision, teardown, signals, ghosts
<1>15. CASE VoicemailFound
  BY <1>0, <1>15, HangUpFlags DEF VoicemailFound, FlagsOK, ghosts
<1>16. CASE CapReached \/ DeadlinePasses \/ ComponentFails \/ Observes
  BY <1>16, EndFlags DEF CapReached, DeadlinePasses, ComponentFails, Observes, FlagsOK,
                         decision, signals, ghosts
<1>17. CASE WatchdogStops \/ PromptEnds \/ CallerLeaves
  BY <1>17 DEF WatchdogStops, PromptEnds, CallerLeaves, FlagsOK, decision, teardown,
               signals, ghosts
<1>18. CASE Inactive
  BY <1>0, <1>18, HangUpFlags DEF Inactive, FlagsOK, signals, ghosts
<1>19. ASSUME NEW t \in Turns, Prompts(t) PROVE FlagsOK'
  BY <1>19 DEF Prompts, FlagsOK, decision, teardown, signals, ghosts
<1>20. CASE GoodbyeAcked \/ GoodbyeLost
  BY <1>20 DEF GoodbyeAcked, GoodbyeLost, FlagsOK, decision, teardown, ghosts
<1>21. CASE RunCloses
  BY <1>21 DEF RunCloses, WindowAfter, FlagsOK, signals, ghosts
<1>22. ASSUME NEW t \in Turns, DetachedStarts(t) PROVE FlagsOK'
  BY <1>0, <1>22, HangUpFlags DEF DetachedStarts, FlagsOK, signals, ghosts
<1>23. CASE Next
  <2>1. CASE \E p \in Task : Procedure(p)
    BY <2>1, <1>2, <1>3, <1>4, <1>5 DEF Procedure
  <2>2. CASE \E t \in Turns : TurnStep(t) \/ DetachedStarts(t) \/ Prompts(t)
    BY <2>2, <1>6, <1>7, <1>8, <1>9, <1>10, <1>19, <1>22 DEF TurnStep
  <2>3. CASE \/ \E h \in Handler : \/ Overlaps(h) \/ CleanupEnds(h)
                                   \/ \E t \in Turns : Speaks(h, t)
             \/ BargeIn
    BY <2>3, <1>11, <1>12, <1>13
  <2> QED BY <1>23, <2>1, <2>2, <2>3, <1>14, <1>15, <1>16, <1>17, <1>18, <1>20, <1>21 DEF Next
<1> QED BY <1>1, <1>23

-----------------------------------------------------------------------------
(* The references.                                                         *)

\* Only Prompts makes the watchdog wait for a turn.
NotPrompting == pc'[Watchdog] = "prompting" => pc[Watchdog] = "prompting"

LEMMA GoesNotPrompting ==
    ASSUME PcOK, NEW p \in Task, NEW s, s # "prompting", Goes(p, s)
    PROVE  NotPrompting
BY Tasks DEF PcOK, Goes, NotPrompting

LEMMA ReturnsRefs ==
    ASSUME PcOK, Refs, NEW p \in Task, Returns(p)
    PROVE  NotPrompting /\ llmRef' \in 0..MaxTurns
BY LifecycleAssumption, GoesNotPrompting DEF Returns, Refs

LEMMA EndRefs ==
    ASSUME PcOK, Refs, NEW p \in Task, End(p)
    PROVE  NotPrompting /\ llmRef' \in 0..MaxTurns
BY ReturnsRefs, GoesNotPrompting DEF End, Refs

LEMMA HangUpRefs ==
    ASSUME PcOK, Refs, NEW p \in Task, NEW m, HangUp(p, m)
    PROVE  NotPrompting /\ llmRef' \in 0..MaxTurns
BY ReturnsRefs, EndRefs, GoesNotPrompting DEF HangUp, Refs

LEMMA CleanupRefs ==
    ASSUME PcOK, Refs, NEW p \in Task, NEW s, s # "prompting", StartCleanup(p, s)
    PROVE  NotPrompting /\ llmRef' \in 0..MaxTurns /\ hangupRef' \in 0..MaxTurns
<1>1. CASE ~window
  BY <1>1, GoesNotPrompting DEF StartCleanup, Refs
<1>2. CASE window /\ ended
  BY <1>2, GoesNotPrompting DEF StartCleanup, CallOff, Refs
<1>3. CASE window /\ ~ended
  <2> DEFINE dying == (LlmTask \cup {Detached(t) : t \in {hangupRef} \ {0}}) \ {p}
             farewell == {t \in Turns : Turn(t) \in dying /\ pc[Turn(t)] \in Farewell}
  <2>1. CallOff(p, s)
    BY <1>3 DEF StartCleanup
  <2>2. PICK resumed \in SUBSET {t \in farewell : pc[Turn(t)] = "playout"} :
          pc' = [q \in Task |-> CASE q = p -> s
                                  [] q \in {Detached(t) : t \in resumed} -> Armed(called_off')
                                  [] OTHER -> Cancelled(dying)[q]]
    BY <1>3, <2>1 DEF CallOff
  <2>3. llmRef' \in {0, llmRef} /\ hangupRef' = 0
    BY <1>3, <2>1 DEF CallOff
  <2>4. Watchdog \in Task /\ Watchdog \notin {Detached(t) : t \in resumed}
    BY Tasks
  <2>5. NotPrompting
    <3>1. CASE Watchdog = p
      <4>1. pc'[Watchdog] = s
        BY <2>2, <2>4, <3>1
      <4> QED BY <4>1 DEF NotPrompting
    <3>2. CASE Watchdog # p
      <4>1. pc'[Watchdog] = Cancelled(dying)[Watchdog]
        BY <2>2, <2>4, <3>2
      <4>2. Cancelled(dying)[Watchdog] \in {"over", pc[Watchdog]}
        BY <2>4 DEF Cancelled
      <4> QED BY <4>1, <4>2 DEF NotPrompting
    <3> QED BY <3>1, <3>2
  <2> QED BY <2>3, <2>5, LifecycleAssumption DEF Refs
<1> QED BY <1>1, <1>2, <1>3

LEMMA CutRefs ==
    ASSUME Refs, NEW p
    PROVE  LlmTask \subseteq Task /\ CutBy(Killed(p)) \subseteq Task
BY Tasks DEF Refs, LlmTask, Killed, CutBy, Turns

\* Everything but the watchdog's wait.
Others ==
    /\ conf' = conf /\ prompted' = prompted /\ raised' \subseteq Turns
    /\ llmRef' \in 0..MaxTurns /\ hangupRef' \in 0..MaxTurns
    /\ run' \in {"live", "leaving", "closed"} /\ cut' \subseteq Task

LEMMA RefsKept == IInv /\ Refs /\ [Next]_vars => Refs'
<1> SUFFICES ASSUME IInv, Refs, [Next]_vars PROVE Refs'
  OBVIOUS
<1>0. PcOK /\ 0 \in 0..MaxTurns /\ (\A t \in Turns : t \in 0..MaxTurns /\ t # 0)
  BY LifecycleAssumption DEF IInv, Turns
<1>a. NotPrompting /\ Others => Refs'
  BY DEF NotPrompting, Others, Refs
<1>1. CASE UNCHANGED vars
  BY <1>1 DEF vars, refs, watch, ghosts, Refs
<1>2. ASSUME NEW p \in Task, HangupDrained(p) PROVE Refs'
  <2>1. StartCleanup(p, "clearing")
    BY <1>2 DEF HangupDrained
  <2>2. NotPrompting /\ llmRef' \in 0..MaxTurns /\ hangupRef' \in 0..MaxTurns
    BY <1>0, <2>1, CleanupRefs
  <2> QED BY <1>a, <1>2, <2>2 DEF HangupDrained, Others, Refs, watch
<1>3. ASSUME NEW p \in Task, HangupSpeaks(p) PROVE Refs'
  <2>1. NotPrompting
    BY <1>0, <1>3, Tasks DEF HangupSpeaks, Cancelled, PcOK, NotPrompting
  <2> QED BY <1>0, <1>a, <1>3, <2>1, CutRefs DEF HangupSpeaks, Others, Refs, watch
<1>4. ASSUME NEW p \in Task, EndCommits(p) PROVE Refs'
  <2>1. NotPrompting
    BY <1>0, <1>4, Tasks DEF EndCommits, Cancelled, PcOK, NotPrompting
  <2> QED BY <1>0, <1>a, <1>4, <2>1 DEF EndCommits, Others, Refs, watch
<1>5. ASSUME NEW p \in Task, EndPolls(p) \/ EndStops(p) PROVE Refs'
  <2>1. NotPrompting
    BY <1>0, <1>5, Tasks DEF EndPolls, EndStops, Goes, Cancelled, PcOK, NotPrompting
  <2> QED BY <1>0, <1>a, <1>5, <2>1 DEF EndPolls, EndStops, Others, Refs, refs, watch, ghosts
<1>6. ASSUME NEW t \in Turns, TurnStarts(t) \/ TurnReplies(t) \/ TurnGoesOn(t) PROVE Refs'
  <2>1. Turn(t) \in Task
    BY Tasks
  <2>2. NotPrompting /\ llmRef' \in 0..MaxTurns
    BY <1>0, <1>6, <2>1, ReturnsRefs, GoesNotPrompting
       DEF TurnStarts, TurnReplies, TurnGoesOn, refs, Refs
  <2> QED BY <1>a, <1>6, <2>2
          DEF TurnStarts, TurnReplies, TurnGoesOn, Others, Refs, refs, watch, ghosts
<1>7. ASSUME NEW t \in Turns, TurnHangsUp(t) PROVE Refs'
  <2>1. Turn(t) \in Task
    BY Tasks
  <2>2. NotPrompting /\ llmRef' \in 0..MaxTurns
    BY <1>0, <1>7, <2>1, ReturnsRefs, HangUpRefs DEF TurnHangsUp
  <2> QED BY <1>a, <1>7, <2>2 DEF TurnHangsUp, Others, Refs, watch, ghosts
<1>8. ASSUME NEW t \in Turns, TurnCallsEnd(t) \/ TurnSaysGoodbye(t) PROVE Refs'
  <2>1. Turn(t) \in Task
    BY Tasks
  <2>2. NotPrompting
    BY <1>0, <1>8, <2>1, GoesNotPrompting DEF TurnCallsEnd, TurnSaysGoodbye
  <2> QED BY <1>a, <1>8, <2>2
          DEF TurnCallsEnd, TurnSaysGoodbye, Others, Refs, refs, watch, ghosts
<1>9. ASSUME NEW t \in Turns, TurnPlayed(t) PROVE Refs'
  <2>1. Armed(called_off) # "prompting"
    BY DEF Armed
  <2>2. NotPrompting
    BY <1>0, <1>9, <2>1, Tasks DEF TurnPlayed, PcOK, NotPrompting
  <2> QED BY <1>0, <1>a, <1>9, <2>2 DEF TurnPlayed, Others, Refs, watch, ghosts
<1>10. ASSUME NEW t \in Turns, TurnFails(t) PROVE Refs'
  <2>1. Turn(t) \in Task
    BY Tasks
  <2>2. NotPrompting /\ llmRef' \in 0..MaxTurns
    BY <1>0, <1>10, <2>1, EndRefs DEF TurnFails
  <2> QED BY <1>a, <1>10, <2>2 DEF TurnFails, Others, Refs, ghosts
<1>11. CASE BargeIn \/ \E h \in Handler : Overlaps(h)
  <2>1. PICK h \in Handler, s \in {"interrupting", "replacing"} : StartCleanup(h, s)
    BY <1>11 DEF BargeIn, Overlaps, Handler
  <2>2. h \in Task
    BY Tasks DEF Handler
  <2>3. NotPrompting /\ llmRef' \in 0..MaxTurns /\ hangupRef' \in 0..MaxTurns
    BY <1>0, <2>1, <2>2, CleanupRefs
  <2> QED BY <1>a, <1>11, <2>3 DEF BargeIn, Overlaps, Others, Refs, watch
<1>12. ASSUME NEW h \in Handler, CleanupEnds(h) PROVE Refs'
  <2> DEFINE killed == [Cancelled(Killed(h)) EXCEPT ![h] = "idle"]
  <2>1. \/ pc' = killed /\ llmRef' = 0
        \/ \E t \in Turns : pc' = [killed EXCEPT ![Turn(t)] = "new"] /\ llmRef' = t
    BY <1>12 DEF CleanupEnds
  <2>2. Watchdog \in Task /\ (killed[Watchdog] = "prompting" => pc[Watchdog] = "prompting")
    BY Tasks DEF Cancelled
  <2>3. \A t \in Turns : Turn(t) # Watchdog
    BY Tasks
  <2>4. \A t \in Turns : [killed EXCEPT ![Turn(t)] = "new"][Watchdog] = killed[Watchdog]
    BY <2>2, <2>3 DEF Cancelled
  <2> HIDE DEF killed
  <2>5. NotPrompting
    <3>1. CASE pc' = killed
      BY <2>2, <3>1 DEF NotPrompting
    <3>2. ASSUME NEW t \in Turns, pc' = [killed EXCEPT ![Turn(t)] = "new"]
          PROVE  NotPrompting
      BY <2>2, <2>4, <3>2 DEF NotPrompting
    <3> QED BY <2>1, <3>1, <3>2
  <2>6. llmRef' \in 0..MaxTurns
    BY <1>0, <2>1
  <2> QED BY <1>a, <1>12, <2>5, <2>6, CutRefs DEF CleanupEnds, Others, Refs, watch
<1>13. ASSUME NEW h \in Handler, NEW t \in Turns, Speaks(h, t) PROVE Refs'
  <2>1. NotPrompting
    BY <1>0, <1>13, Tasks DEF Speaks, PcOK, NotPrompting
  <2> QED BY <1>0, <1>a, <1>13, <2>1 DEF Speaks, Others, Refs, watch, ghosts
<1>14. CASE VoicemailStarts \/ VoicemailNot
  <2>1. NotPrompting
    BY <1>0, <1>14, Tasks, GoesNotPrompting DEF VoicemailStarts, VoicemailNot
  <2> QED BY <1>a, <1>14, <2>1 DEF VoicemailStarts, VoicemailNot, Others, Refs, refs, watch, ghosts
<1>15. CASE VoicemailFound
  <2>1. NotPrompting /\ llmRef' \in 0..MaxTurns
    BY <1>0, <1>15, Tasks, HangUpRefs DEF VoicemailFound
  <2> QED BY <1>a, <1>15, <2>1 DEF VoicemailFound, Others, Refs, watch, ghosts
<1>16. CASE CapReached \/ DeadlinePasses \/ ComponentFails \/ Observes
  <2>1. NotPrompting /\ llmRef' \in 0..MaxTurns
    BY <1>0, <1>16, Tasks, EndRefs DEF CapReached, DeadlinePasses, ComponentFails, Observes
  <2> QED BY <1>a, <1>16, <2>1
          DEF CapReached, DeadlinePasses, ComponentFails, Observes, Others, Refs, watch, ghosts
<1>17. CASE WatchdogStops \/ PromptEnds
  <2>1. \E s \in {"over", "watching"} : Goes(Watchdog, s)
    BY <1>17 DEF WatchdogStops, PromptEnds
  <2>2. NotPrompting
    BY <1>0, <2>1, Tasks, GoesNotPrompting
  <2> QED BY <1>a, <1>17, <2>2 DEF WatchdogStops, PromptEnds, Others, Refs, refs, watch, ghosts
<1>18. CASE Inactive
  <2>1. NotPrompting /\ llmRef' \in 0..MaxTurns
    BY <1>0, <1>18, Tasks, HangUpRefs DEF Inactive
  <2> QED BY <1>a, <1>18, <2>1 DEF Inactive, Others, Refs, watch, ghosts
<1>19. ASSUME NEW t \in Turns, Prompts(t) PROVE Refs'
  BY <1>0, <1>19 DEF Prompts, Refs, ghosts
<1>20. CASE GoodbyeAcked \/ GoodbyeLost \/ CallerLeaves
  <2>1. pc' = pc \/ pc' = [pc EXCEPT ![Observer] = "new"]
    BY <1>20 DEF GoodbyeAcked, GoodbyeLost, CallerLeaves
  <2>2. NotPrompting
    BY <1>0, <2>1, Tasks DEF PcOK, NotPrompting
  <2> QED BY <1>a, <1>20, <2>2
          DEF GoodbyeAcked, GoodbyeLost, CallerLeaves, Others, Refs, refs, watch, ghosts
<1>21. CASE RunCloses
  <2>1. NotPrompting
    BY <1>0, <1>21, Tasks DEF RunCloses, Cancelled, NotPrompting
  <2> QED BY <1>0, <1>a, <1>21, <2>1 DEF RunCloses, Others, Refs, watch, ghosts
<1>22. ASSUME NEW t \in Turns, DetachedStarts(t) PROVE Refs'
  <2>1. NotPrompting /\ llmRef' \in 0..MaxTurns
    BY <1>0, <1>22, Tasks, HangUpRefs DEF DetachedStarts
  <2> QED BY <1>a, <1>22, <2>1 DEF DetachedStarts, Others, Refs, watch, ghosts
<1>23. CASE Next
  <2>1. CASE \E p \in Task : Procedure(p)
    BY <2>1, <1>2, <1>3, <1>4, <1>5 DEF Procedure
  <2>2. CASE \E t \in Turns : TurnStep(t) \/ DetachedStarts(t) \/ Prompts(t)
    BY <2>2, <1>6, <1>7, <1>8, <1>9, <1>10, <1>19, <1>22 DEF TurnStep
  <2>3. CASE \/ \E h \in Handler : \/ Overlaps(h) \/ CleanupEnds(h)
                                   \/ \E t \in Turns : Speaks(h, t)
             \/ BargeIn
    BY <2>3, <1>11, <1>12, <1>13
  <2> QED BY <1>23, <2>1, <2>2, <2>3, <1>14, <1>15, <1>16, <1>17, <1>18, <1>20, <1>21 DEF Next
<1> QED BY <1>1, <1>23

-----------------------------------------------------------------------------
(* A committed disconnect.                                                 *)

\* A turn that committed the disconnect has left self.llm_task.
StoppingFree == \A q \in LlmTask : pc[q] # "stopping"

\* The observer of the goodbye is notified once.
ObserverOnce == ~observed => pc[Observer] = "none"

\* Who is past stop_handler stays so, the voicemail check apart.
SameStops == \A q \in Task \ {Voicemail} : pc'[q] = "stopping" <=> pc[q] = "stopping"

\* What a step does to the tasks past stop_handler.
Finishes ==
    /\ StoppingFree'
    /\ \A p \in Task \ {Voicemail} :
          pc[p] = "stopping" /\ pc'[p] # "stopping" => run' # "live"

\* self.llm_task is left alone, cleared or given a new turn.
Takes ==
    \/ llmRef' \in {0, llmRef}
    \/ \E t \in Turns : llmRef' = t /\ pc'[Turn(t)] = "new"

LEMMA StopsStay ==
    ASSUME IInv, Refs, StoppingFree, SameStops, Takes
    PROVE  Finishes
<1>1. LlmTask \subseteq Task \ {Voicemail}
  BY Tasks DEF LlmTask, Refs, Turns
<1>2. CASE llmRef' = 0
  BY <1>2 DEF StoppingFree, SameStops, Finishes, LlmTask
<1>3. CASE llmRef' = llmRef
  BY <1>1, <1>3 DEF StoppingFree, SameStops, Finishes, LlmTask
<1>4. CASE \E t \in Turns : llmRef' = t /\ pc'[Turn(t)] = "new"
  BY <1>4 DEF StoppingFree, SameStops, Finishes, LlmTask
<1> QED BY <1>2, <1>3, <1>4 DEF Takes

LEMMA GoesStays ==
    ASSUME IInv, NEW p \in Task, NEW s, Goes(p, s), pc[p] # "stopping", s # "stopping"
    PROVE  SameStops
BY DEF IInv, PcOK, Goes, SameStops

LEMMA EndStays ==
    ASSUME IInv, NEW p \in Task, End(p), pc[p] # "stopping"
    PROVE  SameStops /\ Takes
BY GoesStays DEF End, Returns, Takes

LEMMA HangUpStays ==
    ASSUME IInv, NEW p \in Task, NEW m, HangUp(p, m), pc[p] # "stopping"
    PROVE  SameStops /\ Takes
BY GoesStays, EndStays DEF HangUp, Returns, Takes

\* Cancelling self.llm_task cancels nobody past stop_handler.
LEMMA CancelsStay ==
    ASSUME IInv, StoppingFree, NEW S, S \subseteq LlmTask \cup {Voicemail}, NEW p \in Task,
           NEW s, pc[p] = "stopping" <=> s = "stopping",
           pc' = [Cancelled(S) EXCEPT ![p] = s]
    PROVE  SameStops
<1>1. \A q \in Task : pc'[q] = IF q = p THEN s
                                ELSE IF q \in S /\ Live(q) THEN "over" ELSE pc[q]
  BY DEF IInv, PcOK, Cancelled
<1>2. \A q \in S \ {Voicemail} : pc[q] # "stopping"
  BY DEF StoppingFree
<1> QED BY <1>1, <1>2 DEF SameStops

\* A call is called off only while nobody is past stop_handler.
LEMMA CleanupStays ==
    ASSUME IInv, SInv, NEW p \in Task, NEW s, StartCleanup(p, s),
           pc[p] # "stopping", s # "stopping"
    PROVE  SameStops /\ Takes
<1>1. CASE ~window
  BY <1>1, GoesStays DEF StartCleanup, Takes
<1>2. CASE window /\ ended
  BY <1>2, GoesStays DEF StartCleanup, CallOff, Takes
<1>3. CASE window /\ ~ended
  <2> DEFINE dying == (LlmTask \cup {Detached(t) : t \in {hangupRef} \ {0}}) \ {p}
             farewell == {t \in Turns : Turn(t) \in dying /\ pc[Turn(t)] \in Farewell}
  <2>1. CallOff(p, s)
    BY <1>3 DEF StartCleanup
  <2>2. PICK resumed \in SUBSET {t \in farewell : pc[Turn(t)] = "playout"} :
          pc' = [q \in Task |-> CASE q = p -> s
                                  [] q \in {Detached(t) : t \in resumed} -> Armed(called_off')
                                  [] OTHER -> Cancelled(dying)[q]]
    BY <1>3, <2>1 DEF CallOff
  <2>3. llmRef' \in {0, llmRef} /\ called_off'
    BY <1>3, <2>1 DEF CallOff
  <2>4. Armed(called_off') # "stopping"
    BY DEF Armed
  <2>5. \A q \in Task : pc[q] # "stopping"
    BY <1>3 DEF SInv, StoppingEnds
  <2>6. \A q \in Task : Cancelled(dying)[q] # "stopping"
    BY <2>5 DEF Cancelled
  <2> HIDE DEF dying
  <2>7. ASSUME NEW q \in Task PROVE pc'[q] # "stopping"
    <3> DEFINE detached == {Detached(t) : t \in resumed}
               other == Cancelled(dying)[q]
    <3>1. pc'[q] = CASE q = p -> s [] q \in detached -> Armed(called_off') [] OTHER -> other
      BY <2>2
    <3>2. other # "stopping"
      BY <2>6
    <3> HIDE DEF detached, other
    <3> QED BY <2>4, <3>1, <3>2
  <2> QED BY <2>3, <2>5, <2>7 DEF SameStops, Takes
<1> QED BY <1>1, <1>2, <1>3

LEMMA DisconnectStep ==
    ASSUME IInv, SInv, Refs, StoppingFree, ObserverOnce, [Next]_vars
    PROVE  Finishes
<1>0. ASSUME SameStops, Takes PROVE Finishes
  BY <1>0, StopsStay
<1>1. CASE UNCHANGED vars
  <2>1. SameStops /\ Takes
    BY <1>1 DEF vars, refs, SameStops, Takes
  <2> QED BY <1>0, <2>1
<1>2. ASSUME NEW p \in Task, HangupDrained(p) PROVE Finishes
  <2>1. SameStops /\ Takes
    BY <1>2, CleanupStays DEF HangupDrained
  <2> QED BY <1>0, <2>1
<1>3. ASSUME NEW p \in Task, HangupSpeaks(p) PROVE Finishes
  <2>1. SameStops /\ Takes
    BY <1>3, CancelsStay DEF HangupSpeaks, Killed, Takes
  <2> QED BY <1>0, <2>1
<1>4. ASSUME NEW p \in Task, EndCommits(p) PROVE Finishes
  <2>1. pc'  = [Cancelled(LlmTask \ {p}) EXCEPT ![p] = "stopping"] /\ llmRef' = 0
    BY <1>4 DEF EndCommits
  <2>2. \A q \in Task : pc'[q] = IF q = p THEN "stopping"
                                 ELSE IF q \in LlmTask /\ Live(q) THEN "over" ELSE pc[q]
    BY <2>1 DEF IInv, PcOK, Cancelled
  <2>3. \A q \in Task : pc[q] = "stopping" => pc'[q] = "stopping"
    BY <2>2 DEF StoppingFree
  <2>4. LlmTask' = {}
    BY <2>1 DEF LlmTask
  <2> QED BY <2>3, <2>4 DEF Finishes, StoppingFree
<1>5. ASSUME NEW p \in Task, EndPolls(p) PROVE Finishes
  <2>1. SameStops /\ Takes
    BY <1>5, GoesStays DEF EndPolls, Takes, refs
  <2> QED BY <1>0, <2>1
<1>6. ASSUME NEW p \in Task, EndStops(p) PROVE Finishes
  <2>1. /\ pc' = [Cancelled({Voicemail}) EXCEPT ![p] = "over"]
        /\ llmRef' \in {0, llmRef} /\ run' # "live"
    BY <1>6 DEF EndStops
  <2>2. \A q \in Task : pc'[q] = "stopping" => pc[q] = "stopping"
    BY <2>1 DEF IInv, PcOK, Cancelled
  <2>3. LlmTask' \subseteq LlmTask /\ LlmTask \subseteq Task
    BY <2>1, Tasks DEF LlmTask, Refs, Turns
  <2> QED BY <2>1, <2>2, <2>3 DEF Finishes, StoppingFree
<1>7. ASSUME NEW t \in Turns, TurnStep(t) PROVE Finishes
  <2>0. Turn(t) \in Task
    BY Tasks
  <2>1. CASE TurnStarts(t) \/ TurnReplies(t) \/ TurnGoesOn(t) \/ TurnCallsEnd(t) \/ TurnSaysGoodbye(t)
    <3>1. /\ \E s \in {"running", "over", "asking", "playout", "goodbye"} : Goes(Turn(t), s)
          /\ pc[Turn(t)] # "stopping" /\ llmRef' \in {0, llmRef}
      BY <2>1 DEF TurnStarts, TurnReplies, TurnGoesOn, TurnCallsEnd, TurnSaysGoodbye, Returns, refs
    <3> QED BY <1>0, <2>0, <3>1, GoesStays DEF Takes
  <2>2. CASE TurnHangsUp(t)
    <3>1. SameStops /\ Takes
      BY <2>0, <2>2, GoesStays, HangUpStays DEF TurnHangsUp, Returns, Takes
    <3> QED BY <1>0, <3>1
  <2>3. CASE TurnPlayed(t)
    <3>1. Armed(called_off) # "stopping"
      BY DEF Armed
    <3>2. pc[Detached(t)] # "stopping" /\ pc[Turn(t)] # "stopping"
      BY <2>3 DEF TurnPlayed, IInv, OwnTeardown
    <3>3. SameStops /\ Takes
      BY <2>3, <3>1, <3>2, Tasks DEF TurnPlayed, IInv, PcOK, SameStops, Takes
    <3> QED BY <1>0, <3>3
  <2>4. CASE TurnFails(t)
    <3>1. pc[Turn(t)] # "stopping" /\ End(Turn(t))
      BY <2>4 DEF TurnFails, Farewell
    <3> QED BY <1>0, <2>0, <3>1, EndStays
  <2> QED BY <1>7, <2>1, <2>2, <2>3, <2>4 DEF TurnStep
<1>8. CASE BargeIn \/ \E h \in Handler : Overlaps(h)
  <2>1. PICK h \in Handler, s \in {"interrupting", "replacing"} :
            StartCleanup(h, s) /\ pc[h] = "idle"
    BY <1>8 DEF BargeIn, Overlaps, Handler
  <2>2. h \in Task
    BY Tasks DEF Handler
  <2> QED BY <1>0, <2>1, <2>2, CleanupStays
<1>9. ASSUME NEW h \in Handler, CleanupEnds(h) PROVE Finishes
  <2> DEFINE killed == [Cancelled(Killed(h)) EXCEPT ![h] = "idle"]
  <2>0. h \in Task /\ pc[h] # "stopping" /\ Killed(h) \subseteq LlmTask \cup {Voicemail}
    BY <1>9, Tasks DEF CleanupEnds, Killed, Handler
  <2>1. \/ pc' = killed /\ llmRef' = 0
        \/ \E t \in Turns : /\ pc' = [killed EXCEPT ![Turn(t)] = "new"] /\ llmRef' = t
                            /\ pc[Turn(t)] = "none"
    BY <1>9 DEF CleanupEnds, Unused
  <2>2. CASE pc' = killed /\ llmRef' = 0
    BY <1>0, <2>0, <2>2, CancelsStay DEF Takes
  <2>3. ASSUME NEW t \in Turns, pc' = [killed EXCEPT ![Turn(t)] = "new"], llmRef' = t,
               pc[Turn(t)] = "none"
        PROVE  Finishes
    <3>1. \A q \in Task : killed[q] = IF q = h THEN "idle"
                                      ELSE IF q \in Killed(h) /\ Live(q) THEN "over" ELSE pc[q]
      BY <2>0 DEF Cancelled
    <3>2. \A q \in Killed(h) \ {Voicemail} : pc[q] # "stopping"
      BY <2>0 DEF StoppingFree
    <3>3. \A q \in Task \ {Voicemail} : killed[q] = "stopping" <=> pc[q] = "stopping"
      BY <2>0, <3>1, <3>2
    <3>4. \A q \in Task : pc'[q] = IF q = Turn(t) THEN "new" ELSE killed[q]
      BY <2>0, <2>3 DEF Cancelled
    <3>5. Turn(t) \in Task
      BY Tasks
    <3> HIDE DEF killed
    <3>6. SameStops
      BY <2>3, <3>3, <3>4 DEF SameStops
    <3>7. Takes
      BY <2>3, <3>4, <3>5 DEF Takes
    <3> QED BY <1>0, <3>6, <3>7
  <2> QED BY <2>1, <2>2, <2>3
<1>10. ASSUME NEW h \in Handler, NEW t \in Turns, Speaks(h, t) PROVE Finishes
  <2>1. pc' = [pc EXCEPT ![Turn(t)] = "new"] /\ pc[Turn(t)] = "none" /\ llmRef' = t
    BY <1>10 DEF Speaks, Unused
  <2>2. SameStops /\ Takes
    BY <2>1, Tasks DEF IInv, PcOK, SameStops, Takes
  <2> QED BY <1>0, <2>2
<1>11. CASE VoicemailStarts \/ VoicemailNot
  <2>1. pc[Voicemail] # "stopping" /\ llmRef' = llmRef
        /\ \E s \in {"checking", "over"} : Goes(Voicemail, s)
    BY <1>11 DEF VoicemailStarts, VoicemailNot, refs, Dormant
  <2> QED BY <1>0, <2>1, Tasks, GoesStays DEF Takes
<1>12. CASE VoicemailFound
  <2>1. SameStops /\ Takes
    BY <1>12, Tasks, HangUpStays DEF VoicemailFound
  <2> QED BY <1>0, <2>1
<1>13. CASE CapReached \/ DeadlinePasses \/ ComponentFails \/ Observes
  <2>1. SameStops /\ Takes
    BY <1>13, Tasks, EndStays DEF CapReached, DeadlinePasses, ComponentFails, Observes
  <2> QED BY <1>0, <2>1
<1>14. CASE WatchdogStops \/ PromptEnds
  <2>1. pc[Watchdog] # "stopping" /\ llmRef' = llmRef
        /\ \E s \in {"watching", "over"} : Goes(Watchdog, s)
    BY <1>14 DEF WatchdogStops, PromptEnds, refs
  <2> QED BY <1>0, <2>1, Tasks, GoesStays DEF Takes
<1>15. CASE Inactive
  <2>1. SameStops /\ Takes
    BY <1>15, Tasks, HangUpStays DEF Inactive
  <2> QED BY <1>0, <2>1
<1>16. ASSUME NEW t \in Turns, Prompts(t) PROVE Finishes
  <2>1. /\ pc' = [pc EXCEPT ![Turn(t)] = "new", ![Watchdog] = "prompting"]
        /\ pc[Turn(t)] = "none" /\ llmRef' = t /\ pc[Watchdog] = "watching"
    BY <1>16 DEF Prompts, Unused
  <2>2. SameStops /\ Takes
    BY <2>1, Tasks DEF IInv, PcOK, SameStops, Takes
  <2> QED BY <1>0, <2>2
<1>17. CASE GoodbyeAcked \/ GoodbyeLost \/ CallerLeaves
  <2>1. /\ \/ pc' = pc
           \/ pc' = [pc EXCEPT ![Observer] = "new"] /\ ~observed
        /\ llmRef' = llmRef
    BY <1>17 DEF GoodbyeAcked, GoodbyeLost, CallerLeaves, refs
  <2>2. SameStops /\ Takes
    BY <2>1, Tasks DEF ObserverOnce, IInv, PcOK, SameStops, Takes
  <2> QED BY <1>0, <2>2
<1>18. CASE RunCloses
  <2>1. llmRef' = 0 /\ run' # "live"
    BY <1>18 DEF RunCloses
  <2> QED BY <2>1 DEF Finishes, StoppingFree, LlmTask
<1>19. ASSUME NEW t \in Turns, DetachedStarts(t) PROVE Finishes
  <2>1. SameStops /\ Takes
    BY <1>19, Tasks, HangUpStays DEF DetachedStarts
  <2> QED BY <1>0, <2>1
<1>20. CASE Next
  <2>1. CASE \E p \in Task : Procedure(p)
    BY <2>1, <1>2, <1>3, <1>4, <1>5, <1>6 DEF Procedure
  <2>2. CASE \E t \in Turns : TurnStep(t) \/ DetachedStarts(t) \/ Prompts(t)
    BY <2>2, <1>7, <1>16, <1>19
  <2>3. CASE \/ \E h \in Handler : \/ Overlaps(h) \/ CleanupEnds(h)
                                   \/ \E t \in Turns : Speaks(h, t)
             \/ BargeIn
    BY <2>3, <1>8, <1>9, <1>10
  <2> QED BY <1>20, <2>1, <2>2, <2>3, <1>11, <1>12, <1>13, <1>14, <1>15, <1>17, <1>18 DEF Next
<1> QED BY <1>1, <1>20

-----------------------------------------------------------------------------
(* The goodbye.                                                            *)

\* While no goodbye was called off: process_call_hangup runs in one task at a
\* time, which is shut in by hangup_processing until its message is played.
GoodbyeInv ==
    rescued = {} =>
        /\ \A p \in Task : pc[p] \in HangingUp =>
              processing /\ triggered /\ queued /\ ~goodbye /\ ~observed
        /\ goodbye => processing /\ triggered /\ queued /\ ~observed
        /\ observed => processing
        /\ \A p, q \in Task : pc[p] \in HangingUp /\ pc[q] \in HangingUp => p = q
        /\ sent => observed \/ forced

\* Nobody starts to hang up, nor the observer of the goodbye.
Calm ==
    /\ \A q \in Task : pc'[q] \in HangingUp => pc[q] \in HangingUp
    /\ pc[Observer] = "none" => pc'[Observer] = "none"

\* The state of the hangup is left alone, or a goodbye was called off.
FlagsStay ==
    \/ rescued' # {}
    \/ /\ rescued' = rescued /\ processing' = processing /\ queued' = queued
       /\ triggered => triggered'

SignalsStay ==
    /\ observed' = observed
    /\ forced => forced'
    /\ sent' => sent \/ forced' \/ observed
    /\ goodbye' => goodbye

\* Task p may go on at s.
CalmMove(p, s) ==
    /\ s \in HangingUp => pc[p] \in HangingUp
    /\ p = Observer => pc[p] # "none"

LEMMA CalmKeeps ==
    ASSUME GoodbyeInv, Calm, FlagsStay, SignalsStay
    PROVE  GoodbyeInv'
BY DEF GoodbyeInv, Calm, FlagsStay, SignalsStay

LEMMA GoesCalm ==
    ASSUME IInv, NEW p \in Task, NEW s, CalmMove(p, s), Goes(p, s)
    PROVE  Calm
BY Tasks DEF IInv, PcOK, Goes, Calm, CalmMove

LEMMA CancelsCalm ==
    ASSUME IInv, NEW S, NEW p \in Task, NEW s, CalmMove(p, s),
           pc' = [Cancelled(S) EXCEPT ![p] = s]
    PROVE  Calm
<1>1. \A q \in Task : pc'[q] = IF q = p THEN s
                                ELSE IF q \in S /\ Live(q) THEN "over" ELSE pc[q]
  BY DEF IInv, PcOK, Cancelled
<1> QED BY <1>1, Tasks, Steps DEF Calm, CalmMove, Live

LEMMA EndCalm ==
    ASSUME IInv, NEW p \in Task, p = Observer => pc[p] # "none", End(p)
    PROVE  Calm
<1>1. CalmMove(p, "over") /\ CalmMove(p, "waiting")
  BY DEF CalmMove, HangingUp
<1> QED BY <1>1, GoesCalm DEF End, Returns

\* process_call_hangup passes its guard only where nobody is in it, and no
\* message of an earlier one is on its way.
LEMMA HangUpKeeps ==
    ASSUME IInv, GoodbyeInv, NEW p \in Task, p # Observer, NEW m \in BOOLEAN, HangUp(p, m),
           rescued' = rescued, SignalsStay
    PROVE  GoodbyeInv' /\ (pc[Observer] = "none" => pc'[Observer] = "none")
<1>1. CASE processing \/ ended
  <2>1. Goes(p, "over") /\ processing' = processing /\ queued' = queued /\ triggered' = triggered
    BY <1>1 DEF HangUp, Returns
  <2>2. CalmMove(p, "over")
    BY DEF CalmMove, HangingUp
  <2> QED BY <2>1, <2>2, GoesCalm, CalmKeeps DEF Calm, FlagsStay
<1>2. CASE ~(processing \/ ended) /\ ~m
  <2>1. End(p) /\ processing'
    BY <1>2 DEF HangUp
  <2>2. Calm
    BY <2>1, EndCalm
  <2> QED BY <1>2, <2>1, <2>2 DEF GoodbyeInv, Calm, SignalsStay
<1>3. CASE ~(processing \/ ended) /\ m
  <2>1. Goes(p, "draining") /\ processing' /\ triggered' /\ queued'
    BY <1>3 DEF HangUp
  <2>2. \A q \in Task : pc'[q] = IF q = p THEN "draining" ELSE pc[q]
    BY <2>1 DEF IInv, PcOK, Goes
  <2> QED BY <1>3, <2>1, <2>2, Tasks DEF GoodbyeInv, SignalsStay
<1> QED BY <1>1, <1>2, <1>3

\* A goodbye that is called off while the conversation is on is one more.
LEMMA CleanupCalm ==
    ASSUME IInv, SInv, NEW p \in Task, NEW s, CalmMove(p, s), StartCleanup(p, s),
           pc[p] \notin Farewell
    PROVE  Calm /\ FlagsStay
<1>1. CASE ~window
  BY <1>1, GoesCalm DEF StartCleanup, FlagsStay
<1>2. CASE window /\ ended
  BY <1>2, GoesCalm DEF StartCleanup, CallOff, FlagsStay
<1>3. CASE window /\ ~ended
  <2> DEFINE dying == (LlmTask \cup {Detached(t) : t \in {hangupRef} \ {0}}) \ {p}
             farewell == {t \in Turns : Turn(t) \in dying /\ pc[Turn(t)] \in Farewell}
  <2>1. CallOff(p, s)
    BY <1>3 DEF StartCleanup
  <2>2. PICK resumed \in SUBSET {t \in farewell : pc[Turn(t)] = "playout"} :
          pc' = [q \in Task |-> CASE q = p -> s
                                  [] q \in {Detached(t) : t \in resumed} -> Armed(called_off')
                                  [] OTHER -> Cancelled(dying)[q]]
    BY <1>3, <2>1 DEF CallOff
  <2>3. called_off' = TRUE /\ rescued' = rescued \cup farewell
    BY <1>3, <2>1 DEF CallOff
  <2>4. Armed(called_off') = "none"
    BY <2>3 DEF Armed
  <2>5. PICK g \in Turns : pc[Turn(g)] \in Farewell
    BY <1>3 DEF IInv, WindowOnlyInGoodbye
  <2>6. Live(Turn(g)) /\ Turn(g) # p /\ g # 0
    BY <2>5, Steps DEF Live, Turns
  <2>7. LlmTask = {Turn(g)}
    BY <1>3, <2>6 DEF SInv, TurnHeld, LlmTask
  <2>8. g \in farewell
    BY <2>5, <2>6, <2>7
  <2>9. \A q \in Task : Cancelled(dying)[q] \in {"over", pc[q]} /\
                        (pc[q] = "none" => Cancelled(dying)[q] = "none")
    BY Steps DEF Cancelled, Live
  <2> HIDE DEF dying
  <2>10. ASSUME NEW q \in Task
         PROVE  /\ pc'[q] \in HangingUp => pc[q] \in HangingUp
                /\ q = Observer /\ pc[q] = "none" => pc'[q] = "none"
    <3> DEFINE detached == {Detached(t) : t \in resumed}
               other == Cancelled(dying)[q]
    <3>1. pc'[q] = CASE q = p -> s [] q \in detached -> Armed(called_off') [] OTHER -> other
      BY <2>2
    <3>2. other \in {"over", pc[q]} /\ (pc[q] = "none" => other = "none")
      BY <2>9
    <3>3. pc'[q] \in {s, "none", other} /\ (pc'[q] = s \/ pc'[q] \in {"none", other})
      <4> HIDE DEF detached, other
      <4> QED BY <2>4, <3>1
    <3>4. \/ pc'[q] = s /\ q = p
          \/ pc'[q] \in {"none", other}
      <4> HIDE DEF detached, other
      <4>1. CASE q = p /\ q \notin detached
        BY <3>1, <4>1
      <4>2. CASE q # p /\ q \in detached
        BY <2>4, <3>1, <4>2
      <4>3. CASE q # p /\ q \notin detached
        BY <3>1, <4>3
      <4>4. CASE q = p /\ q \in detached
        BY <2>4, <3>1, <4>4
      <4> QED BY <4>1, <4>2, <4>3, <4>4
    <3>5. "over" \notin HangingUp /\ "none" \notin HangingUp
      BY DEF HangingUp
    <3> HIDE DEF other
    <3> QED BY <3>2, <3>4, <3>5 DEF CalmMove
  <2>11. Calm
    BY <2>10, Tasks DEF Calm
  <2> QED BY <2>3, <2>8, <2>11 DEF FlagsStay
<1> QED BY <1>1, <1>2, <1>3

ObserverInv == ObserverOnce /\ GoodbyeInv

LEMMA GoodbyeStep ==
    ASSUME IInv, SInv, FlagsOK, ObserverInv, [Next]_vars
    PROVE  ObserverInv'
<1>0. ASSUME Calm, FlagsStay, SignalsStay PROVE ObserverInv'
  BY <1>0, CalmKeeps DEF ObserverInv, ObserverOnce, Calm, SignalsStay
<1>a. ASSUME NEW p \in Task, p # Observer, NEW m \in BOOLEAN, HangUp(p, m),
             rescued' = rescued, SignalsStay
      PROVE  ObserverInv'
  BY <1>a, HangUpKeeps DEF ObserverInv, ObserverOnce, SignalsStay
<1>b. (text /\ ~detected) \in BOOLEAN
  OBVIOUS
<1>1. CASE UNCHANGED vars
  <2>1. Calm /\ FlagsStay /\ SignalsStay
    BY <1>1 DEF vars, decision, teardown, signals, ghosts, Calm, FlagsStay, SignalsStay
  <2> QED BY <1>0, <2>1
<1>2. ASSUME NEW p \in Task, HangupDrained(p) PROVE ObserverInv'
  <2>1. CalmMove(p, "clearing") /\ pc[p] \notin Farewell
    BY <1>2 DEF HangupDrained, CalmMove, HangingUp, Farewell
  <2>2. Calm /\ FlagsStay /\ SignalsStay
    BY <1>2, <2>1, CleanupCalm DEF HangupDrained, signals, SignalsStay
  <2> QED BY <1>0, <2>2
<1>3. ASSUME NEW p \in Task, HangupSpeaks(p) PROVE ObserverInv'
  <2>1. CalmMove(p, "over")
    BY <1>3 DEF HangupSpeaks, CalmMove, HangingUp
  <2>2. Calm
    BY <1>3, <2>1, CancelsCalm DEF HangupSpeaks
  <2>3. pc[p] \in HangingUp /\ pc'[p] = "over"
    BY <1>3 DEF HangupSpeaks, HangingUp, Cancelled
  <2>4. "over" \notin HangingUp
    BY DEF HangingUp
  <2>5. rescued = {} => \A q \in Task : pc'[q] \notin HangingUp
    BY <2>2, <2>3, <2>4 DEF ObserverInv, GoodbyeInv, Calm
  <2>6. GoodbyeInv'
    BY <1>3, <2>3, <2>5 DEF HangupSpeaks, ObserverInv, GoodbyeInv
  <2> QED BY <1>3, <2>2, <2>6 DEF HangupSpeaks, ObserverInv, ObserverOnce, Calm
<1>4. ASSUME NEW p \in Task, EndCommits(p) PROVE ObserverInv'
  <2>1. CalmMove(p, "stopping")
    BY <1>4 DEF EndCommits, CalmMove, HangingUp
  <2>2. Calm /\ FlagsStay /\ SignalsStay
    BY <1>4, <2>1, CancelsCalm DEF EndCommits, signals, FlagsStay, SignalsStay
  <2> QED BY <1>0, <2>2
<1>5. ASSUME NEW p \in Task, EndPolls(p) PROVE ObserverInv'
  <2>1. CalmMove(p, "polling")
    BY <1>5 DEF EndPolls, CalmMove, HangingUp
  <2>2. Calm /\ FlagsStay /\ SignalsStay
    BY <1>5, <2>1, GoesCalm
       DEF EndPolls, decision, teardown, signals, ghosts, FlagsStay, SignalsStay
  <2> QED BY <1>0, <2>2
<1>6. ASSUME NEW p \in Task, EndStops(p) PROVE ObserverInv'
  <2>1. CalmMove(p, "over")
    BY <1>6 DEF EndStops, CalmMove, HangingUp
  <2>2. Calm /\ FlagsStay /\ SignalsStay
    BY <1>6, <2>1, CancelsCalm
       DEF EndStops, decision, teardown, signals, ghosts, FlagsStay, SignalsStay
  <2> QED BY <1>0, <2>2
<1>7. ASSUME NEW t \in Turns, TurnStep(t) PROVE ObserverInv'
  <2>0. Turn(t) \in Task /\ Turn(t) # Observer
    BY Tasks
  <2>1. CASE TurnStarts(t) \/ TurnReplies(t) \/ TurnGoesOn(t)
    <3>1. PICK s \in {"running", "over", "asking"} : Goes(Turn(t), s)
      BY <2>1 DEF TurnStarts, TurnReplies, TurnGoesOn, Returns
    <3>2. CalmMove(Turn(t), s)
      BY <2>0 DEF CalmMove, HangingUp
    <3>3. Calm /\ FlagsStay /\ SignalsStay
      BY <2>0, <2>1, <3>1, <3>2, GoesCalm DEF TurnStarts, TurnReplies, TurnGoesOn,
         decision, teardown, signals, ghosts, FlagsStay, SignalsStay
    <3> QED BY <1>0, <3>3
  <2>2. CASE TurnCallsEnd(t) \/ TurnSaysGoodbye(t)
    <3>1. PICK s \in {"playout", "goodbye"} : Goes(Turn(t), s)
      BY <2>2 DEF TurnCallsEnd, TurnSaysGoodbye
    <3>2. CalmMove(Turn(t), s)
      BY <2>0 DEF CalmMove, HangingUp
    <3>3. Calm /\ FlagsStay /\ SignalsStay
      BY <2>0, <2>2, <3>1, <3>2, GoesCalm DEF TurnCallsEnd, TurnSaysGoodbye,
         teardown, signals, ghosts, FlagsStay, SignalsStay
    <3> QED BY <1>0, <3>3
  <2>3. CASE TurnHangsUp(t)
    <3>1. SignalsStay /\ rescued' = rescued
      BY <2>3 DEF TurnHangsUp, signals, ghosts, SignalsStay
    <3>2. CASE triggered \/ ended
      <4>1. Goes(Turn(t), "over") /\ CalmMove(Turn(t), "over")
        BY <2>0, <2>3, <3>2 DEF TurnHangsUp, Returns, CalmMove, HangingUp
      <4>2. Calm /\ FlagsStay
        BY <2>0, <2>3, <3>1, <3>2, <4>1, GoesCalm DEF TurnHangsUp, FlagsStay
      <4> QED BY <1>0, <3>1, <4>2
    <3>3. CASE ~(triggered \/ ended)
      <4>1. HangUp(Turn(t), text /\ ~detected)
        BY <2>3, <3>3 DEF TurnHangsUp
      <4> QED BY <1>a, <1>b, <2>0, <3>1, <4>1
    <3> QED BY <3>2, <3>3
  <2>4. CASE TurnPlayed(t)
    <3>1. Armed(called_off) \in {"none", "new"}
      BY DEF Armed
    <3>2. \A q \in Task : pc'[q] = IF q = Detached(t) THEN Armed(called_off)
                                   ELSE IF q = Turn(t) THEN "over" ELSE pc[q]
      BY <2>4, Tasks DEF TurnPlayed, IInv, PcOK
    <3>3. Calm
      BY <3>1, <3>2, Tasks DEF Calm, HangingUp
    <3>4. FlagsStay /\ SignalsStay
      BY <2>4 DEF TurnPlayed, teardown, signals, ghosts, FlagsStay, SignalsStay
    <3> QED BY <1>0, <3>3, <3>4
  <2>5. CASE TurnFails(t)
    <3>1. Calm /\ FlagsStay /\ SignalsStay
      BY <2>0, <2>5, EndCalm DEF TurnFails, signals, ghosts, FlagsStay, SignalsStay
    <3> QED BY <1>0, <3>1
  <2> QED BY <1>7, <2>1, <2>2, <2>3, <2>4, <2>5 DEF TurnStep
<1>8. CASE BargeIn \/ \E h \in Handler : Overlaps(h)
  <2>1. PICK h \in Handler, s \in {"interrupting", "replacing"} :
            StartCleanup(h, s) /\ pc[h] = "idle"
    BY <1>8 DEF BargeIn, Overlaps, Handler
  <2>2. h \in Task /\ CalmMove(h, s) /\ pc[h] \notin Farewell
    BY <2>1, Tasks DEF Handler, CalmMove, HangingUp, Farewell
  <2>3. Calm /\ FlagsStay
    BY <2>1, <2>2, CleanupCalm
  <2>4. SignalsStay
    BY <1>8 DEF BargeIn, Overlaps, signals, SignalsStay
  <2> QED BY <1>0, <2>3, <2>4
<1>9. ASSUME NEW h \in Handler, CleanupEnds(h) PROVE ObserverInv'
  <2> DEFINE killed == [Cancelled(Killed(h)) EXCEPT ![h] = "idle"]
  <2>0. h \in Task /\ h # Observer
    BY Tasks DEF Handler, Speech, Keypad, Observer
  <2>1. \/ pc' = killed
        \/ \E t \in Turns : pc' = [killed EXCEPT ![Turn(t)] = "new"]
    BY <1>9 DEF CleanupEnds
  <2>2. \A q \in Task : killed[q] = IF q = h THEN "idle"
                                    ELSE IF q \in Killed(h) /\ Live(q) THEN "over" ELSE pc[q]
    BY <2>0 DEF Cancelled
  <2>3. \A q \in Task : /\ killed[q] \in HangingUp => pc[q] \in HangingUp
                        /\ q = Observer /\ pc[q] = "none" => killed[q] = "none"
    BY <2>0, <2>2, Steps DEF HangingUp, Live
  <2>4. ASSUME NEW t \in Turns, pc' = [killed EXCEPT ![Turn(t)] = "new"] PROVE Calm
    <3>1. \A q \in Task : pc'[q] = IF q = Turn(t) THEN "new" ELSE killed[q]
      BY <2>0, <2>4 DEF Cancelled
    <3> HIDE DEF killed
    <3> QED BY <2>3, <3>1, Tasks DEF Calm, HangingUp
  <2>5. ASSUME pc' = killed PROVE Calm
    <3> HIDE DEF killed
    <3> QED BY <2>3, <2>5, Tasks DEF Calm
  <2>6. FlagsStay /\ SignalsStay
    BY <1>9 DEF CleanupEnds, teardown, FlagsStay, SignalsStay
  <2> QED BY <1>0, <2>1, <2>4, <2>5, <2>6
<1>10. ASSUME NEW t \in Turns, (\E h \in Handler : Speaks(h, t)) \/ Prompts(t)
       PROVE  ObserverInv'
  <2>1. \A q \in Task : pc'[q] \in {"new", "prompting", pc[q]} /\
                        (q = Observer => pc'[q] = pc[q])
    <3>1. CASE \E h \in Handler : Speaks(h, t)
      BY <3>1, Tasks DEF Speaks, IInv, PcOK
    <3>2. CASE Prompts(t)
      <4>1. Watchdog # Observer
        BY DEF Watchdog, Observer
      <4> QED BY <3>2, <4>1, Tasks DEF Prompts, IInv, PcOK
    <3> QED BY <1>10, <3>1, <3>2
  <2>2. Calm
    BY <2>1, Tasks DEF Calm, HangingUp
  <2>3. FlagsStay /\ SignalsStay
    BY <1>10 DEF Speaks, Prompts, decision, teardown, signals, ghosts, FlagsStay, SignalsStay
  <2> QED BY <1>0, <2>2, <2>3
<1>11. CASE VoicemailStarts \/ VoicemailNot \/ WatchdogStops \/ PromptEnds
  <2>1. PICK p \in {Voicemail, Watchdog}, s \in {"checking", "over", "watching"} : Goes(p, s)
    BY <1>11 DEF VoicemailStarts, VoicemailNot, WatchdogStops, PromptEnds
  <2>2. p \in Task /\ CalmMove(p, s)
    BY Tasks DEF CalmMove, HangingUp, Voicemail, Watchdog, Observer
  <2>3. Calm
    BY <2>1, <2>2, GoesCalm
  <2>4. FlagsStay /\ SignalsStay
    BY <1>11 DEF VoicemailStarts, VoicemailNot, WatchdogStops, PromptEnds,
       decision, teardown, signals, ghosts, FlagsStay, SignalsStay
  <2> QED BY <1>0, <2>3, <2>4
<1>12. CASE VoicemailFound
  <2>1. HangUp(Voicemail, FALSE) /\ rescued' = rescued /\ SignalsStay
    BY <1>12 DEF VoicemailFound, ghosts, SignalsStay
  <2>2. Voicemail \in Task /\ Voicemail # Observer
    BY Tasks DEF Voicemail, Observer
  <2> QED BY <1>a, <2>1, <2>2
<1>13. CASE CapReached \/ DeadlinePasses \/ ComponentFails \/ Observes
  <2>1. PICK p \in Task : End(p) /\ (p = Observer => pc[p] # "none")
    <3>1. Watchdog # Observer /\ Component # Observer
      BY DEF Watchdog, Component, Observer
    <3> QED BY <1>13, <3>1, Tasks DEF CapReached, DeadlinePasses, ComponentFails, Observes
  <2>2. Calm
    BY <2>1, EndCalm
  <2>3. FlagsStay
    BY <1>13 DEF CapReached, DeadlinePasses, ComponentFails, Observes, decision, ghosts, FlagsStay
  <2>4. SignalsStay
    BY <1>13 DEF CapReached, DeadlinePasses, ComponentFails, Observes, signals, ghosts,
                 SignalsStay, ObserverInv, ObserverOnce
  <2> QED BY <1>0, <2>2, <2>3, <2>4
<1>14. CASE Inactive
  <2>1. HangUp(Watchdog, text /\ ~detected) /\ rescued' = rescued /\ SignalsStay
    BY <1>14 DEF Inactive, signals, ghosts, SignalsStay
  <2>2. Watchdog \in Task /\ Watchdog # Observer
    BY Tasks DEF Watchdog, Observer
  <2> QED BY <1>a, <1>b, <2>1, <2>2
<1>15. CASE GoodbyeAcked
  <2>1. \A q \in Task : pc'[q] = IF q = Observer /\ ~observed THEN "new" ELSE pc[q]
    BY <1>15 DEF GoodbyeAcked, IInv, PcOK
  <2>2. \A q \in Task : pc'[q] \in HangingUp => pc[q] \in HangingUp
    BY <2>1 DEF HangingUp
  <2>3. GoodbyeInv'
    BY <1>15, <2>2 DEF GoodbyeAcked, decision, teardown, ghosts, ObserverInv, GoodbyeInv
  <2> QED BY <1>15, <2>3 DEF GoodbyeAcked, ObserverInv, ObserverOnce
<1>16. CASE GoodbyeLost \/ CallerLeaves
  <2>1. Calm /\ FlagsStay /\ SignalsStay
    BY <1>16 DEF GoodbyeLost, CallerLeaves, decision, teardown, signals, ghosts,
                 Calm, FlagsStay, SignalsStay
  <2> QED BY <1>0, <2>1
<1>17. CASE RunCloses
  <2>1. \A q \in Task : pc'[q] = pc[q] \/ (pc'[q] = "over" /\ Live(q))
    BY <1>17 DEF RunCloses, Cancelled
  <2>2. Calm
    BY <2>1, Steps, Tasks DEF Calm, HangingUp, Live
  <2>3. FlagsStay /\ SignalsStay
    BY <1>17 DEF RunCloses, signals, ghosts, FlagsStay, SignalsStay
  <2> QED BY <1>0, <2>2, <2>3
<1>18. ASSUME NEW t \in Turns, DetachedStarts(t) PROVE ObserverInv'
  <2>1. HangUp(Detached(t), text /\ ~detected) /\ rescued' = rescued /\ SignalsStay
    BY <1>18 DEF DetachedStarts, signals, ghosts, SignalsStay
  <2> QED BY <1>a, <1>b, <2>1, Tasks
<1>19. CASE Next
  <2>1. CASE \E p \in Task : Procedure(p)
    BY <2>1, <1>2, <1>3, <1>4, <1>5, <1>6 DEF Procedure
  <2>2. CASE \E t \in Turns : TurnStep(t) \/ DetachedStarts(t) \/ Prompts(t)
    BY <2>2, <1>7, <1>10, <1>18
  <2>3. CASE \/ \E h \in Handler : \/ Overlaps(h) \/ CleanupEnds(h)
                                   \/ \E t \in Turns : Speaks(h, t)
             \/ BargeIn
    BY <2>3, <1>8, <1>9, <1>10
  <2> QED BY <1>19, <2>1, <2>2, <2>3, <1>11, <1>12, <1>13, <1>14, <1>15, <1>16, <1>17 DEF Next
<1> QED BY <1>1, <1>19

\* Only a teardown that waits for no goodbye ends a conversation that is on.
LEMMA EndedByCommit ==
    ASSUME [Next]_vars, ~ended, ended', run = "live"
    PROVE  ~GoodbyeOwed
<1>1. \/ \E p \in Task : EndCommits(p)
      \/ RunCloses
      \/ ended' = ended
  <2>1. CASE UNCHANGED vars
    BY <2>1 DEF vars, teardown
  <2>2. CASE \E p \in Task : Procedure(p)
    BY <2>2 DEF Procedure, HangupDrained, HangupSpeaks, EndPolls, EndStops, teardown
  <2>3. CASE \E t \in Turns : TurnStep(t) \/ DetachedStarts(t) \/ Prompts(t)
    BY <2>3 DEF TurnStep, TurnStarts, TurnReplies, TurnHangsUp, TurnGoesOn, TurnCallsEnd,
       TurnSaysGoodbye, TurnPlayed, TurnFails, DetachedStarts, Prompts, teardown
  <2>4. CASE \/ \E h \in Handler : \/ Overlaps(h) \/ CleanupEnds(h)
                                   \/ \E t \in Turns : Speaks(h, t)
             \/ BargeIn
    BY <2>4 DEF Overlaps, CleanupEnds, Speaks, BargeIn, teardown
  <2>5. CASE \/ VoicemailStarts \/ VoicemailFound \/ VoicemailNot
             \/ CapReached \/ DeadlinePasses \/ WatchdogStops \/ Inactive \/ PromptEnds
             \/ ComponentFails \/ GoodbyeAcked \/ GoodbyeLost \/ Observes \/ CallerLeaves
    BY <2>5 DEF VoicemailStarts, VoicemailFound, VoicemailNot, CapReached, DeadlinePasses,
       WatchdogStops, Inactive, PromptEnds, ComponentFails, GoodbyeAcked, GoodbyeLost,
       Observes, CallerLeaves, teardown
  <2>6. [Next]_vars
    OBVIOUS
  <2> QED BY <2>1, <2>2, <2>3, <2>4, <2>5, <2>6 DEF Next
<1> QED BY <1>1 DEF EndCommits, RunCloses

\* A teardown that does not wait finds no goodbye on its way.
LEMMA GoodbyeWaitedFor ==
    ASSUME GoodbyeInv, ~GoodbyeOwed
    PROVE  forced \/ rescued # {} \/ (~goodbye /\ \A p \in Task : pc[p] \notin HangingUp)
BY DEF GoodbyeInv, GoodbyeOwed

-----------------------------------------------------------------------------
LEMMA TeardownInvariance == Spec => [](FlagsOK /\ Refs /\ StoppingFree /\ ObserverInv)
<1>1. Init => FlagsOK /\ Refs /\ StoppingFree /\ ObserverInv
  <2> SUFFICES ASSUME Init PROVE FlagsOK /\ Refs /\ StoppingFree /\ ObserverInv
    OBVIOUS
  <2>1. conf \in Conf
    BY LifecycleAssumption DEF Init
  <2>2. conf.text \in BOOLEAN
    BY <2>1 DEF Conf
  <2>3. FlagsOK
    BY <2>2 DEF Init, FlagsOK
  <2>4. pc[Watchdog] = "watching"
    BY Tasks DEF Init, Watchdog, Voicemail, Component, Speech, Keypad
  <2>5. Refs
    BY <2>4, LifecycleAssumption DEF Init, Refs
  <2>6. StoppingFree
    BY DEF Init, StoppingFree, LlmTask
  <2>7. pc[Observer] = "none"
    BY Tasks DEF Init, Watchdog, Voicemail, Observer, Component, Speech, Keypad
  <2>8. \A q \in Task : pc[q] \in {"watching", "idle", "none"}
    BY DEF Init
  <2>9. ObserverInv
    BY <2>7, <2>8 DEF Init, ObserverInv, ObserverOnce, GoodbyeInv, HangingUp
  <2> QED BY <2>3, <2>5, <2>6, <2>9
<1>2. IInv /\ SInv /\ FlagsOK /\ Refs /\ StoppingFree /\ ObserverInv /\ [Next]_vars
        => (FlagsOK /\ Refs /\ StoppingFree /\ ObserverInv)'
  BY FlagsKept, RefsKept, DisconnectStep, GoodbyeStep DEF Refs, Finishes, ObserverInv
<1> QED BY <1>1, <1>2, Invariance, CountInvariance, PTL DEF Spec

\* Every variable of a call has its type, and _inject_and_run_llm holds the
\* turn it awaits.
THEOREM HangupTypeCorrect == Spec => []TypeOK
<1>1. IInv /\ SInv /\ FlagsOK /\ Refs => TypeOK
  BY DEF IInv, PcOK, SInv, Counted, Refs, TypeOK
<1> QED BY <1>1, Invariance, CountInvariance, TeardownInvariance, PTL

\* A task between stop_handler and the end of __process_end_of_conversation is
\* not cancelled, by a cleanup of __cleanup_downstream_tasks least of all.
THEOREM CommittedDisconnectFinishesCorrect == Spec => CommittedDisconnectFinishes
<1>1. IInv /\ SInv /\ Refs /\ StoppingFree /\ ObserverInv /\ [Next]_vars
        => [\A p \in Task \ {Voicemail} :
              pc[p] = "stopping" /\ pc'[p] # "stopping" => run' # "live"]_vars
  BY DisconnectStep DEF Finishes, ObserverInv
<1> QED BY <1>1, Invariance, CountInvariance, TeardownInvariance, PTL
        DEF Spec, CommittedDisconnectFinishes

\* __process_end_of_conversation ends the conversation only when the goodbye of
\* process_call_hangup was played, its deadline passed or one was called off.
THEOREM OnlyDeadlineCutsGoodbyeCorrect == Spec => OnlyDeadlineCutsGoodbye
<1>1. ObserverInv /\ [Next]_vars
        => [~ended /\ ended' /\ run = "live" =>
              forced \/ rescued # {} \/ (~goodbye /\ \A p \in Task : pc[p] \notin HangingUp)]_vars
  BY EndedByCommit, GoodbyeWaitedFor DEF ObserverInv
<1> QED BY <1>1, TeardownInvariance, PTL DEF Spec, OnlyDeadlineCutsGoodbye

=============================================================================
