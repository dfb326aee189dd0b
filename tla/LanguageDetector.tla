-------------------------- MODULE LanguageDetector --------------------------
(***************************************************************************)
(* The detector that listens beside the transcribers and recognises any    *)
(* language (src/bolna/lid): one websocket with a sender and a receiver    *)
(* task, a reconnect task that replaces them when the socket drops, and    *)
(* the buffer of recognised segments that each user turn drains.           *)
(***************************************************************************)
EXTENDS Integers, Sequences, FiniteSets

CONSTANTS
    LidProviders,   \* subset of {"soniox", "sarvam"}
    LidCap,         \* _MAX_RECONNECTS
    LidQueue,       \* maxsize of the audio queue
    MaxDrops,       \* times the socket drops
    MaxHeard        \* utterances the provider recognises

ASSUME LidAssumption == LidCap \in Nat /\ LidQueue \in Nat /\ MaxDrops \in Nat /\ MaxHeard \in Nat

VARIABLES
    lid,     \* the connection and its tasks
    buffer   \* the audio queue, the utterance under way and the segments

lidVars == <<lid, buffer>>

LidInit ==
    /\ lid = [of |-> "none", ws |-> "none", sender |-> FALSE, receiver |-> FALSE, dead |-> FALSE,
              stop |-> "no", reconnect |-> "no", tries |-> 0, recent |-> FALSE, drops |-> 0]
    /\ buffer = [audio |-> 0, heard |-> 0, pending |-> 0, segments |-> << >>, event |-> FALSE,
                 taken |-> {}, aged |-> {}]

Stopping == lid.stop # "no"

\* start(): the socket is opened and both loops run.
LidStart ==
    /\ lid.of = "none" /\ ~Stopping
    /\ \E p \in LidProviders :
          lid' = [lid EXCEPT !.of = p, !.ws = "open", !.sender = TRUE, !.receiver = TRUE]
    /\ UNCHANGED buffer

\* feed(): never waits; dropped while the socket is dead or the queue is full.
LidFeed ==
    /\ lid.of # "none" /\ ~lid.dead /\ ~Stopping /\ buffer.audio < LidQueue
    /\ buffer' = [buffer EXCEPT !.audio = @ + 1]
    /\ UNCHANGED lid

---------------------------------------------------------------------------
\* The two loops.

\* _schedule_reconnect
Schedule(l) ==
    IF l.stop # "no" THEN l
    ELSE [l EXCEPT !.dead = TRUE, !.reconnect = IF @ = "no" THEN "scheduled" ELSE @]

LidSend ==
    /\ lid.sender /\ buffer.audio > 0
    /\ buffer' = [buffer EXCEPT !.audio = @ - 1]
    /\ lid' = IF lid.ws = "open" THEN lid
              ELSE Schedule([lid EXCEPT !.sender = FALSE])

\* The 30 s cutoff of _accumulate leaves only the newest segments; which ones
\* are too old is the clock's choice.
Accumulate(b, n) ==
    \E k \in 0..Len(b.segments) :
        buffer' = [b EXCEPT !.segments = Append(SubSeq(@, k + 1, Len(@)), n), !.event = TRUE,
                            !.aged = @ \cup {b.segments[i] : i \in 1..k}]

\* Sarvam sends whole utterances; Soniox tokens, and an endpoint that flushes
\* them (_handle_message, _flush_pending_segment).
LidHears ==
    /\ lid.receiver /\ lid.ws = "open" /\ buffer.heard < MaxHeard
    /\ LET n == buffer.heard + 1
           b == [buffer EXCEPT !.heard = n]
       IN IF lid.of = "sarvam" THEN Accumulate(b, n)
          ELSE buffer.pending = 0 /\ buffer' = [b EXCEPT !.pending = n]
    /\ UNCHANGED lid

LidFlushes ==
    /\ lid.receiver /\ lid.ws = "open" /\ buffer.pending > 0
    /\ Accumulate([buffer EXCEPT !.pending = 0], buffer.pending)
    /\ UNCHANGED lid

\* The socket drops, or the provider reports an error or says it has finished:
\* the receive loop ends.
LidDrops ==
    /\ lid.ws = "open" /\ lid.receiver /\ lid.drops < MaxDrops
    /\ lid' = [lid EXCEPT !.ws = "lost", !.drops = @ + 1]
    /\ UNCHANGED buffer

LidReceiverEnds ==
    /\ lid.receiver /\ lid.ws = "lost"
    /\ lid' = Schedule([lid EXCEPT !.receiver = FALSE])
    /\ UNCHANGED buffer

---------------------------------------------------------------------------
\* _reconnect, from await to await.  stop() raises the flag and cancels the task
\* in one step, so it never runs on in between.

\* The head of the loop: the cap, then the old tasks are cancelled and awaited
\* and the old socket closed.
\* (mutant) no cap
AttemptUncapped(l) ==
    IF l.tries > LidCap THEN [l EXCEPT !.reconnect = "no"]
    ELSE [l EXCEPT !.tries = @ + 1, !.reconnect = "resting", !.ws = "none",
                   !.sender = FALSE, !.receiver = FALSE]
Attempt(l) ==
    IF l.tries >= LidCap THEN [l EXCEPT !.reconnect = "no"]
    ELSE [l EXCEPT !.tries = @ + 1, !.reconnect = "resting", !.ws = "none",
                   !.sender = FALSE, !.receiver = FALSE]

LidReconnect ==
    /\ lid.reconnect = "scheduled" /\ ~Stopping
    /\ lid' = Attempt([lid EXCEPT !.tries = IF lid.recent THEN @ ELSE 0, !.recent = TRUE])
    /\ UNCHANGED buffer

LidRested ==
    /\ lid.reconnect = "resting" /\ ~Stopping
    /\ lid' = [lid EXCEPT !.reconnect = "starting"]
    /\ UNCHANGED buffer

\* (mutant) one failed start() gives up
LidRestartedOnce ==
    /\ lid.reconnect = "starting" /\ ~Stopping
    /\ \/ lid' = [lid EXCEPT !.reconnect = "no", !.ws = "open", !.sender = TRUE, !.receiver = TRUE,
                             !.dead = FALSE]
       \/ lid' = [lid EXCEPT !.reconnect = "no"]
    /\ UNCHANGED buffer

\* start() succeeds, or fails: before the socket is there, or (Soniox, which
\* sends its configuration) after.
LidRestarted ==
    /\ lid.reconnect = "starting" /\ ~Stopping
    /\ \/ lid' = [lid EXCEPT !.reconnect = "no", !.ws = "open", !.sender = TRUE, !.receiver = TRUE,
                             !.dead = FALSE]
       \/ \E ws \in {"none"} \cup (IF lid.of = "soniox" THEN {"open"} ELSE {}) :
             lid' = Attempt([lid EXCEPT !.ws = ws])
    /\ UNCHANGED buffer

\* The window after which the attempts count from zero again.
LidWindowPasses ==
    /\ lid.recent
    /\ lid' = [lid EXCEPT !.recent = FALSE]
    /\ UNCHANGED buffer

---------------------------------------------------------------------------
\* (mutant) the utterance under way is not flushed, and forgotten
LidStopUnflushed ==
    /\ lid.of # "none" /\ ~Stopping
    /\ lid' = [lid EXCEPT !.stop = "reconnect"]
    /\ buffer' = [buffer EXCEPT !.pending = 0]

\* stop(): Soniox flushes its utterance; the reconnect task is cancelled and
\* awaited, the sender's sentinel makes room for itself in a full queue, the
\* loops are cancelled and the socket closed.
LidStop ==
    /\ lid.of # "none" /\ ~Stopping
    /\ lid' = [lid EXCEPT !.stop = "reconnect"]
    /\ IF lid.of = "soniox" /\ buffer.pending > 0
       THEN Accumulate([buffer EXCEPT !.pending = 0], buffer.pending)
       ELSE UNCHANGED buffer

LidStopReconnect ==
    /\ lid.stop = "reconnect"
    /\ lid' = [lid EXCEPT !.stop = "tasks", !.reconnect = "no"]
    /\ buffer' = [buffer EXCEPT !.audio = IF @ = LidQueue THEN 0 ELSE @]

LidStopTasks ==
    /\ lid.stop = "tasks"
    /\ lid' = [lid EXCEPT !.stop = "done", !.sender = FALSE, !.receiver = FALSE, !.ws = "none"]
    /\ UNCHANGED buffer

\* take_turn_transcript: one user turn drains the buffer.
LidTake ==
    /\ buffer.event
    /\ buffer' = [buffer EXCEPT !.segments = << >>, !.event = FALSE,
                                !.taken = @ \cup {buffer.segments[i] : i \in DOMAIN buffer.segments}]
    /\ UNCHANGED lid

LidNext ==
    \/ LidStart \/ LidFeed \/ LidSend \/ LidHears \/ LidFlushes \/ LidDrops \/ LidReceiverEnds
    \/ LidReconnect \/ LidRested \/ LidRestarted \/ LidWindowPasses
    \/ LidStop \/ LidStopReconnect \/ LidStopTasks \/ LidTake

\* Every await of the detector's own tasks comes back.
LidFairness ==
    /\ WF_lidVars(LidReceiverEnds) /\ WF_lidVars(LidReconnect \/ LidRested \/ LidRestarted)
    /\ WF_lidVars(LidStopReconnect \/ LidStopTasks)

LidSpec == LidInit /\ [][LidNext]_lidVars /\ LidFairness

---------------------------------------------------------------------------
LidTypeOK ==
    /\ lid.of \in LidProviders \cup {"none"} /\ lid.ws \in {"none", "open", "lost"}
    /\ lid.sender \in BOOLEAN /\ lid.receiver \in BOOLEAN /\ lid.dead \in BOOLEAN
    /\ lid.stop \in {"no", "reconnect", "tasks", "done"}
    /\ lid.reconnect \in {"no", "scheduled", "resting", "starting"}
    /\ lid.tries \in 0..LidCap /\ lid.recent \in BOOLEAN /\ lid.drops \in 0..MaxDrops
    /\ buffer.audio \in 0..LidQueue /\ buffer.heard \in 0..MaxHeard /\ buffer.pending \in 0..MaxHeard
    /\ buffer.segments \in Seq(1..MaxHeard) /\ buffer.event \in BOOLEAN
    /\ buffer.taken \subseteq 1..MaxHeard /\ buffer.aged \subseteq 1..MaxHeard

\* Every recognised utterance is pending, buffered, drained by exactly one turn
\* or too old: a reconnect or a stop loses none that was recognised.
EveryUtteranceOnce ==
    LET held == {buffer.segments[i] : i \in DOMAIN buffer.segments}
        pending == {buffer.pending} \ {0}
        places == <<held, pending, buffer.taken, buffer.aged>>
    IN /\ UNION {places[i] : i \in 1..4} = 1..buffer.heard
       /\ \A i, j \in 1..4 : i # j => places[i] \cap places[j] = {}
       /\ Cardinality(held) = Len(buffer.segments)

\* A dead detector is connected again, unless it is stopped or has used up its
\* reconnects: no drop goes unnoticed.
DeadRevives ==
    (lid.of # "none" /\ (lid.dead \/ lid.ws = "lost"))
        ~> (Stopping \/ lid.tries >= LidCap \/ (~lid.dead /\ lid.ws = "open"))

\* A detector that is stopped comes to have no task and no socket, whatever the
\* reconnect was doing when stop() came.
StopLeavesNothing ==
    Stopping ~> (lid.stop = "done" /\ ~lid.sender /\ ~lid.receiver /\ lid.reconnect = "no"
                 /\ lid.ws = "none")

DetectorProgress == DeadRevives /\ StopLeavesNothing
=============================================================================
