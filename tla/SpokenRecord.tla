---------------------------- MODULE SpokenRecord ----------------------------
(***************************************************************************)
(* What the staging of assistant history promises: the text of a response  *)
(* is drafted when the generation stores it, and enters the record exactly *)
(* once, at the moment both its text and some of its audio exist. Draft    *)
(* and speech may come in either order; a draft may be discarded, and a    *)
(* suppressed response is neither spoken nor recorded any more.            *)
(***************************************************************************)
EXTENDS FiniteSets

CONSTANT Responses

VARIABLES spoken, suppressed, drafted, recorded

vars == <<spoken, suppressed, drafted, recorded>>

Init == spoken = {} /\ suppressed = {} /\ drafted = {} /\ recorded = {}

\* Move r from the drafts in `from` to the record, unless it is there already.
Enter(r, from) ==
    /\ recorded' = recorded \cup ({r} \cap from)
    /\ drafted' = from \ ({r} \ recorded)

Speak(r) ==
    /\ r \notin suppressed
    /\ spoken' = spoken \cup {r}
    /\ Enter(r, drafted)
    /\ UNCHANGED suppressed

Draft(r) ==
    /\ IF r \in spoken \ suppressed
       THEN Enter(r, drafted \cup {r})
       ELSE drafted' = drafted \cup {r} /\ UNCHANGED recorded
    /\ UNCHANGED <<spoken, suppressed>>

Suppress(r) ==
    /\ suppressed' = suppressed \cup {r}
    /\ drafted' = drafted \ {r}
    /\ UNCHANGED <<spoken, recorded>>

Discard ==
    /\ drafted' \in SUBSET drafted
    /\ UNCHANGED <<spoken, suppressed, recorded>>

Next ==
    \/ \E r \in Responses : Speak(r) \/ Draft(r) \/ Suppress(r)
    \/ Discard

Spec == Init /\ [][Next]_vars
=============================================================================
