------------------------- MODULE MCHangupLifecycle -------------------------
EXTENDS HangupLifecycle

Feature == {"interruptible", "text", "endCall", "voicemail", "cap", "inactivity",
            "prompts", "lossy", "overlap", "digits"}
Call(on) == [f \in Feature |-> f \in on]

\* An end_call agent with an interruptible goodbye and a caller who talks and
\* dials over it, one whose goodbye cannot be interrupted, an agent asked
\* whether to hang up with voicemail detection, and two on a silent line.
CallConfs ==
    {Call({"interruptible", "text", "endCall", "overlap", "digits", "inactivity", "lossy"}),
     Call({"text", "endCall", "cap", "inactivity", "digits"}),
     Call({"text", "voicemail", "overlap", "lossy"}),
     Call({"text", "cap", "inactivity", "prompts", "lossy"}),
     Call({"voicemail", "cap", "prompts", "digits"})}

\* A caller who talks over the agent.
CutConfs == {Call({"text", "overlap"})}

\* A quiet caller, an inactivity limit and a mark that may be lost.
EndlessConfs == {Call({"text", "inactivity", "lossy"})}
=============================================================================
