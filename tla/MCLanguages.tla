---------------------------- MODULE MCLanguages ----------------------------
(***************************************************************************)
(* The run over language switching, cut where its parts do not meet: focus *)
(* says whether a behaviour is about the detector, about the decisions and *)
(* the reply they hold, about the connections or about the voices; the     *)
(* rest stays as it began.                                                 *)
(***************************************************************************)
EXTENDS LanguageSwitch, LanguageDetector

VARIABLE focus

languagesVars == <<switchVars, lidVars, focus>>

LanguagesInit ==
    /\ SwitchInit /\ LidInit
    /\ focus \in {"detector", "decisions", "legs", "voices"}
    /\ focus = "detector" => flow = "llm"

Legs == \/ NewTurn /\ call.turns = 0
        \/ DetectorHears /\ det.segments = 0
        \/ IdleWatcher \/ ToolCalled \/ AutoSwitch \/ SwitchStep \/ CallEnds \/ LegStep

\* A switch beside a tool call may find the transcriber it wants dead.
Standby == \/ /\ \E t \in Decisions : At(t) = "ear" /\ judge.task[t].quiet
              /\ LegDies /\ ear'.up[ear.active]
           \/ ClosedPacket

Voices == \/ NewTurn
          \/ DetectorHears /\ det.segments = 0
          \/ IdleWatcher \/ ToolCalled \/ AutoSwitch \/ SwitchStep \/ VoiceStep

\* Decisions never switch to a language without a voice: beside them it is not
\* heard, its connection stays up, and a tool asks for it where the voices are watched.
Voiced ==
    /\ det'.heard \subseteq VoiceLabels
    /\ \A l \in EarLabels \ VoiceLabels : ear'.up[l]
    /\ focus # "voices" => Target(Tool)' \in VoiceLabels

LanguagesNext ==
    /\ UNCHANGED focus
    /\ \/ focus = "detector" /\ LidNext /\ UNCHANGED switchVars
       \/ focus = "decisions" /\ (DecideStep \/ Standby) /\ UNCHANGED lidVars
          \* Only decisions can go stale, so only their flow hears twice.
          /\ (flow # "llm" => det'.segments <= 1)
       \/ focus = "legs" /\ Legs /\ UNCHANGED lidVars
       \/ focus = "voices" /\ Voices /\ UNCHANGED lidVars
    /\ flow # "legacy" => Voiced

\* The fairness of the parts.  The output loop sends only where a behaviour is
\* about the reply.
LanguagesFairness ==
    /\ LidFairness
    /\ SwitchersFair
    /\ WF_switchVars(focus = "decisions" /\ SendFrame)
    /\ ListenerFair

LanguagesSpec == LanguagesInit /\ [][LanguagesNext]_languagesVars /\ LanguagesFairness

\* Every part's variables keep their types.
LanguagesTypeOK == SwitchTypeOK /\ LidTypeOK
=============================================================================
