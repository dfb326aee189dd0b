--------------------------- MODULE MCTurnPipeline ---------------------------
(* Instances of TurnPipeline: model values for the coroutines that handle a *)
(* transcript. The configurations choose the bounds.                        *)
EXTENDS TurnPipeline

CONSTANTS speech, dtmf

\* The steps that finals of the two handlers lead to, when the caller is not
\* heard between them: no interim, no settle timer and no eager turn.
FinalsNext ==
    \/ \E h \in Handlers :
          \/ FinalArrives(h) \/ FinalRetired(h) \/ FinalAccepted(h) \/ FinalOverlaps(h)
          \/ CleanupCleared(h) \/ CleanupInvalidates(h) \/ CleanupEndsFinal(h)
    \/ \E s \in Seqs : Generation(s) \/ Synthesis(s)
    \/ OutputSend \/ OutputSent \/ OutputBlock \/ OutputForwarded
    \/ Carrier

FinalsSpec == Init /\ [][FinalsNext]_vars /\ Fairness
=============================================================================
