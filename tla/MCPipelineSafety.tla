-------------------------- MODULE MCPipelineSafety --------------------------
(***************************************************************************)
(* TurnPipeline bounded in three ways under one specification:             *)
(*   barge   the transcriber's handler alone: two turns, one interim and   *)
(*           one frame of audio per response                               *)
(*   settle  the handlers of the transcriber and of the keypad: three      *)
(*           turns, no interims, no audio but the final frame, and an      *)
(*           interrupted synthesizer stays silent                          *)
(*   eager   the transcriber's handler alone, with eager end-of-turn       *)
(*           events: two turns, one frame of audio per response, and a     *)
(*           final frame that is the control byte                          *)
(***************************************************************************)
EXTENDS MCTurnPipeline

VARIABLE bound

SafetyInit == Init /\ bound \in {"barge", "settle", "eager"}

Settle == INSTANCE TurnPipeline WITH
    MaxFrames <- 0, MaxInterims <- 0, StaleFrames <- FALSE
Early == INSTANCE TurnPipeline WITH
    MaxInterims <- 0, NullFinal <- TRUE, Eager <- TRUE

SafetyNext ==
    /\ UNCHANGED bound
    /\ \/ bound = "barge" /\ Next /\ curr' <= 2 /\ hpc'[dtmf] = "idle"
       \/ bound = "settle" /\ Settle!Next
       \/ bound = "eager" /\ Early!Next /\ curr' <= 2 /\ hpc'[dtmf] = "idle"

SafetySpec == SafetyInit /\ [][SafetyNext]_<<vars, bound>>

---------------------------------------------------------------------------
\* Without eager turns no generation runs for a turn that nobody holds a
\* reference to: a barge-in cancels whatever is still being generated.
NoOrphanWithoutEager == bound # "eager" => NoOrphanGeneration

\* With the transcriber's handler alone, audio never goes back to an older
\* turn after a newer one was heard. (The keypad's handler and an eager turn
\* break this: the response that began first may reach its synthesizer last.)
NeverBackToOlderTurn == [][bound = "barge" => AudioMovesOn]_<<sending, sent, bound>>
=============================================================================
