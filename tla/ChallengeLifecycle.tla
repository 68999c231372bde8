-------------------------- MODULE ChallengeLifecycle --------------------------
(***************************************************************************)
(* A challenge from its start to its verdict: ChallengeSubmission and      *)
(* JuryEvaluation on the same rows, the same registry and the same         *)
(* handlers.  A request is handled by one of the two at a time; the thread *)
(* of an accepted submission goes from the first to the second, and a      *)
(* restart hits both.                                                      *)
(***************************************************************************)
EXTENDS ChallengeStore

CONSTANT Typed

ASSUME LifecycleAssumption == Typed \subseteq Challenges

VARIABLES
    jq, forms, task, age, reminded, mon,               \* of JuryEvaluation
    window, buttons, subForms, meta, sub, dl, overdue  \* of ChallengeSubmission

Evaluation == INSTANCE JuryEvaluation
Submission == INSTANCE ChallengeSubmission

evaluationVars == <<jq, forms, task, age, reminded, mon>>
submissionVars == <<window, buttons, subForms, meta, sub, dl, overdue>>
vars == <<storeVars, evaluationVars, submissionVars>>

Init == Evaluation!Init /\ Submission!Init

\* A thread handles one request.
OneRequestEach == \A h \in Handlers : task'[h] = Evaluation!Idle \/ sub'[h] = Submission!SubIdle

EvaluationStep ==
    /\ Evaluation!EvalStep
    /\ UNCHANGED submissionVars
    /\ OneRequestEach

SubmissionStep ==
    /\ Submission!SubStep
    /\ UNCHANGED evaluationVars
    /\ OneRequestEach

\* Mutant: the jury is only sought when somebody joins the queue.
HandOverNothing(h) ==
    /\ Submission!HandOver(h)
    /\ UNCHANGED evaluationVars

\* The thread of the submission calls _assign_jury_to_challenge.
HandOver(h) ==
    /\ Submission!HandOver(h)
    /\ Evaluation!Become(h, Evaluation!NextAssignment({sub[h].ch}))
    /\ UNCHANGED <<jq, forms, age, reminded, mon>>

Restart ==
    /\ "restart" \in Faults
    /\ Evaluation!EvalRestart
    /\ Submission!SubRestart
    /\ RebuildRegistry
    /\ UNCHANGED dbVars

Next ==
    \/ EvaluationStep
    \/ SubmissionStep
    \/ \E h \in Handlers : HandOver(h)
    \/ Restart

Spec == Init /\ [][Next]_vars

-----------------------------------------------------------------------------
(* Properties                                                               *)

TypeOK == Evaluation!TypeOK /\ Submission!TypeOK

Quiescent == Evaluation!Quiescent /\ Submission!Quiescent

\* How far a challenge has come.
Progress(s) ==
    CASE s = "STARTED"       -> 0
      [] s = "COMPLETED"     -> 1
      [] s = "IN_EVALUATION" -> 2
      [] OTHER               -> 3

\* A challenge never goes back: whatever monitors, surrenders, submissions,
\* assignments and votes of it are under way, none of them revives a challenge
\* that has ended or takes it through a stage again.
NeverGoesBack ==
    [][\A c \in Challenges : Progress(status[c]) <= Progress(status'[c])]_vars

\* A panel that is asked to evaluate has a channel to do it in: no assignment
\* overtakes the opening of the channel, no monitor takes it away under it.
PanelHasChannel ==
    \A c \in Challenges : status[c] = "IN_EVALUATION" => c \in ech

\* When nothing is going on, no delivered challenge waits beside enough jurors:
\* between them, the hand-over and the joins overlook none.
NoStrandedChallenge == Quiescent => Evaluation!NoStrandedChallenge

\* When nothing is going on, the registry is what the rows say, whatever the
\* evaluation registered and removed while the submission was at work; and a
\* sitting panel can open its form, although the submission registers the
\* channel after others can see it in the row.
RegistryMatchesRows ==
    Quiescent => Submission!RegistryMatchesRows /\ Evaluation!PanelReachable

\* "Juri atandiginda ayni kayit guncellenir": the registered channel of a
\* sitting panel lists the panel.
PanelListed ==
    Quiescent => \A c \in Challenges : status[c] = "IN_EVALUATION" => evJury[c] = jury[c]
=============================================================================
