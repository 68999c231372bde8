---------------------- MODULE ChallengeLifecycle_proofs ----------------------
(***************************************************************************)
(* Theorems about ChallengeLifecycle, for any number of challenges, users  *)
(* and concurrent requests.  What is proved of the two parts on their own  *)
(* is used for their steps here (JE, CS); what is proved below is what     *)
(* each part does to the other.                                            *)
(***************************************************************************)
EXTENDS ChallengeLifecycle, FiniteSetTheorems, TLAPS

JE == INSTANCE JuryEvaluation_proofs
CS == INSTANCE ChallengeSubmission_proofs

-----------------------------------------------------------------------------
(* The parts, as they are composed and as they are proved about              *)

LEMMA PartsAssume ==
    /\ StoreAssumption /\ LifecycleAssumption
    /\ JE!IsFiniteSet(Users) /\ CS!IsFiniteSet(Users)
  BY StoreAssumption, LifecycleAssumption DEF JE!IsFiniteSet, CS!IsFiniteSet, IsFiniteSet

LEMMA SameTypes ==
    /\ Evaluation!TypeOK <=> JE!TypeOK
    /\ Submission!TypeOK <=> CS!TypeOK
    /\ JE!StoreTypeOK <=> CS!StoreTypeOK
  BY DEF Evaluation!TypeOK, JE!TypeOK, Evaluation!EvalTypeOK, JE!EvalTypeOK,
         Evaluation!Task, JE!Task, Evaluation!Monitor, JE!Monitor, Evaluation!Ages, JE!Ages,
         Evaluation!StoreTypeOK, JE!StoreTypeOK, Evaluation!Status, JE!Status,
         Submission!TypeOK, CS!TypeOK, Submission!SubTypeOK, CS!SubTypeOK,
         Submission!Sub, CS!Sub, Submission!Meta, CS!Meta, Submission!Deadline, CS!Deadline,
         Submission!StoreTypeOK, CS!StoreTypeOK, Submission!Status, CS!Status

LEMMA SameEvaluation == Evaluation!EvalStep => JE!EvalStep
  <1> USE DEF Evaluation!Become, JE!Become, Evaluation!Idle, JE!Idle,
              Evaluation!storeVars, JE!storeVars, Evaluation!dbVars, JE!dbVars,
              Evaluation!regVars, JE!regVars, Evaluation!MonIdle, JE!MonIdle,
              Evaluation!Eligible, JE!Eligible, Evaluation!LoopFree, JE!LoopFree,
              Evaluation!NextAssignment, JE!NextAssignment,
              Evaluation!Cardinality, JE!Cardinality,
              Evaluation!RegisterEvaluation, JE!RegisterEvaluation,
              Evaluation!UnregisterEvaluation, JE!UnregisterEvaluation
  <1>1. Evaluation!Requests => JE!Requests
    BY DEF Evaluation!Requests, JE!Requests, Evaluation!JuryJoin, JE!JuryJoin,
           Evaluation!JuryLeave, JE!JuryLeave, Evaluation!OpenForm, JE!OpenForm,
           Evaluation!SubmitForm, JE!SubmitForm
  <1>2. Evaluation!Monitoring => JE!Monitoring
    BY DEF Evaluation!Monitoring, JE!Monitoring, Evaluation!StartPass, JE!StartPass,
           Evaluation!CommitPass, JE!CommitPass, Evaluation!PassFails, JE!PassFails,
           Evaluation!FailEvaluation, JE!FailEvaluation,
           Evaluation!SendReminder, JE!SendReminder
  <1>3. \A h : Evaluation!Assigning(h) => JE!Assigning(h)
    BY DEF Evaluation!Assigning, JE!Assigning, Evaluation!ScanWaiting, JE!ScanWaiting,
           Evaluation!PopJurors, JE!PopJurors, Evaluation!Pop, JE!Pop,
           Evaluation!SaveJury, JE!SaveJury, Evaluation!ReEnqueueJurors, JE!ReEnqueueJurors,
           Evaluation!PublishJury, JE!PublishJury,
           Evaluation!DeferAssignment, JE!DeferAssignment,
           Evaluation!CountJurors, JE!CountJurors
  <1>4. \A h : Evaluation!Voting(h) => JE!Voting(h)
    BY DEF Evaluation!Voting, JE!Voting, Evaluation!CastVote, JE!CastVote,
           Evaluation!VoteAccepted, JE!VoteAccepted, Evaluation!IsLastJury, JE!IsLastJury,
           Evaluation!RejectVote, JE!RejectVote, Evaluation!CloseEvaluation, JE!CloseEvaluation,
           Evaluation!CloseTimesOut, JE!CloseTimesOut
  <1>5. \A h : Evaluation!RequestFails(h) => JE!RequestFails(h)
    BY DEF Evaluation!RequestFails, JE!RequestFails
  <1>6. \A c : Evaluation!Wait(c) => JE!Wait(c)
    BY DEF Evaluation!Wait, JE!Wait
  <1>. QED
    BY <1>1, <1>2, <1>3, <1>4, <1>5, <1>6 DEF Evaluation!EvalStep, JE!EvalStep

LEMMA SameSubmission ==
    /\ Submission!SubStep => CS!SubStep
    /\ \A h : Submission!HandOver(h) => CS!HandOver(h)
  <1> USE DEF Submission!Goto, CS!Goto, Submission!SubIdle, CS!SubIdle,
              Submission!storeVars, CS!storeVars, Submission!dbVars, CS!dbVars,
              Submission!regVars, CS!regVars, Submission!DlIdle, CS!DlIdle,
              Submission!RegisterEvaluation, CS!RegisterEvaluation,
              Submission!UnregisterChallenge, CS!UnregisterChallenge
  <1>1. \A h : Submission!Offering(h) => CS!Offering(h)
    BY DEF Submission!Offering, CS!Offering, Submission!OfferSubmission, CS!OfferSubmission,
           Submission!ReadOpener, CS!ReadOpener, Submission!WriteOpener, CS!WriteOpener,
           Submission!FindStarted, CS!FindStarted,
           Submission!OpenSubmissionForm, CS!OpenSubmissionForm
  <1>2. \A h : Submission!Delivering(h) => CS!Delivering(h)
    BY DEF Submission!Delivering, CS!Delivering,
           Submission!AcceptSubmission, CS!AcceptSubmission,
           Submission!RejectSubmission, CS!RejectSubmission,
           Submission!ClearWindow, CS!ClearWindow, Submission!After, CS!After,
           Submission!CreateChannel, CS!CreateChannel,
           Submission!StoreChannel, CS!StoreChannel,
           Submission!SwapRegistration, CS!SwapRegistration,
           Submission!SubmitProject, CS!SubmitProject
  <1>3. \A h : Submission!Surrendering(h) => CS!Surrendering(h)
    BY DEF Submission!Surrendering, CS!Surrendering, Submission!WriteSurrender, CS!WriteSurrender,
           Submission!CloseChannel, CS!CloseChannel, Submission!PressSurrender, CS!PressSurrender
  <1>4. \A h : /\ Submission!SubmissionFails(h) => CS!SubmissionFails(h)
               /\ Submission!ThreadGone(h) => CS!ThreadGone(h)
               /\ Submission!HandOver(h) => CS!HandOver(h)
    BY DEF Submission!SubmissionFails, CS!SubmissionFails, Submission!ThreadGone, CS!ThreadGone,
           Submission!HandOver, CS!HandOver
  <1>5. Submission!Expiring => CS!Expiring
    BY DEF Submission!Expiring, CS!Expiring, Submission!StartDeadlinePass, CS!StartDeadlinePass,
           Submission!CommitDeadlinePass, CS!CommitDeadlinePass,
           Submission!DeadlinePassFails, CS!DeadlinePassFails,
           Submission!ExpireChallenge, CS!ExpireChallenge
  <1>6. Submission!Passing => CS!Passing
    BY DEF Submission!Passing, CS!Passing, Submission!WindowExpires, CS!WindowExpires,
           Submission!BecomeOverdue, CS!BecomeOverdue
  <1>. QED
    BY <1>1, <1>2, <1>3, <1>4, <1>5, <1>6 DEF Submission!SubStep, CS!SubStep

LEMMA SameRestart == Restart => JE!Restart /\ CS!Restart
  BY DEF Restart, JE!Restart, CS!Restart, Evaluation!EvalRestart, JE!EvalRestart,
         Submission!SubRestart, CS!SubRestart, RebuildRegistry, JE!RebuildRegistry,
         CS!RebuildRegistry, RestoredChallenges, JE!RestoredChallenges, CS!RestoredChallenges,
         RestoredEvaluations, JE!RestoredEvaluations, CS!RestoredEvaluations,
         dbVars, JE!dbVars, CS!dbVars, Evaluation!Idle, JE!Idle, Evaluation!MonIdle, JE!MonIdle,
         Submission!SubIdle, CS!SubIdle, Submission!DlIdle, CS!DlIdle

\* The steps of the whole, in terms of the proofs about the parts.
Handing(h) ==
    /\ CS!HandOver(h)
    /\ task' = [task EXCEPT ![h] = JE!NextAssignment({sub[h].ch})]
    /\ UNCHANGED <<storeVars, jq, forms, age, reminded, mon>>

LEMMA StepsOfParts ==
    ASSUME [Next]_vars
    PROVE  \/ JE!EvalStep /\ UNCHANGED submissionVars
           \/ CS!SubStep /\ UNCHANGED evaluationVars
           \/ \E h \in Handlers : Handing(h)
           \/ JE!Restart /\ CS!Restart
           \/ UNCHANGED vars
  <1>1. ASSUME NEW h \in Handlers, HandOver(h) PROVE Handing(h)
    <2>1. task' = [task EXCEPT ![h] = JE!NextAssignment({sub[h].ch})]
      BY <1>1 DEF HandOver, Evaluation!Become, Evaluation!NextAssignment, JE!NextAssignment,
                  Evaluation!Idle, JE!Idle
    <2>2. UNCHANGED storeVars
      BY <1>1 DEF HandOver, Submission!HandOver, Submission!storeVars, Submission!dbVars,
                  Submission!regVars, storeVars, dbVars, regVars
    <2>. QED
      BY <1>1, <2>1, <2>2, SameSubmission DEF HandOver, Handing
  <1>. QED
    BY <1>1, SameEvaluation, SameSubmission, SameRestart DEF Next, EvaluationStep, SubmissionStep

-----------------------------------------------------------------------------
(* Type correctness                                                         *)

LEMMA InitParts == Init => JE!Init /\ CS!Init
  BY DEF Init, Evaluation!Init, JE!Init, Evaluation!EvalInit, JE!EvalInit,
         Evaluation!Idle, JE!Idle, Evaluation!MonIdle, JE!MonIdle,
         Submission!Init, CS!Init, Submission!SubInit, CS!SubInit,
         Submission!SubIdle, CS!SubIdle, Submission!DlIdle, CS!DlIdle

\* Either part keeps the types of the rows, and leaves the variables of the
\* other alone.
LEMMA PartsTyped ==
    ASSUME JE!TypeOK, CS!TypeOK, [Next]_vars
    PROVE  JE!TypeOK' /\ CS!TypeOK'
  <1>0. JE!StoreTypeOK' <=> CS!StoreTypeOK'
    BY DEF JE!StoreTypeOK, CS!StoreTypeOK, JE!Status, CS!Status
  <1>1. CASE JE!EvalStep /\ UNCHANGED submissionVars
    <2>1. JE!TypeOK'
      BY <1>1, PartsAssume, JE!NextTyped DEF JE!Next
    <2>2. CS!SubTypeOK'
      BY <1>1 DEF submissionVars, CS!TypeOK, CS!SubTypeOK
    <2>. QED
      BY <1>0, <2>1, <2>2 DEF JE!TypeOK, CS!TypeOK
  <1>2. CASE CS!SubStep /\ UNCHANGED evaluationVars
    <2>1. CS!TypeOK'
      BY <1>2, PartsAssume, CS!NextTyped DEF CS!Next
    <2>2. JE!EvalTypeOK'
      BY <1>2 DEF evaluationVars, JE!TypeOK, JE!EvalTypeOK
    <2>. QED
      BY <1>0, <2>1, <2>2 DEF JE!TypeOK, CS!TypeOK
  <1>3. ASSUME NEW h \in Handlers, Handing(h) PROVE JE!TypeOK' /\ CS!TypeOK'
    <2>1. CS!TypeOK'
      BY <1>3, PartsAssume, CS!NextTyped DEF CS!Next, Handing
    <2>2. sub[h].ch \in Challenges
      BY <1>3, CS!SubLocals, PartsAssume
         DEF Handing, CS!HandOver, CS!TypeOK, CS!SubTypeOK
    <2>3. JE!NextAssignment({sub[h].ch}) \in JE!Task
      BY <2>2 DEF JE!NextAssignment, JE!Task, JE!Idle
    <2>4. JE!EvalTypeOK'
      BY <1>3, <2>3 DEF Handing, JE!TypeOK, JE!EvalTypeOK
    <2>. QED
      BY <1>0, <2>1, <2>4 DEF JE!TypeOK, CS!TypeOK
  <1>4. CASE JE!Restart /\ CS!Restart
    BY <1>4, PartsAssume, JE!NextTyped, CS!NextTyped DEF JE!Next, CS!Next
  <1>5. CASE UNCHANGED vars
    BY <1>5 DEF vars, storeVars, dbVars, regVars, evaluationVars, submissionVars,
                JE!TypeOK, JE!StoreTypeOK, JE!EvalTypeOK, CS!TypeOK, CS!StoreTypeOK, CS!SubTypeOK
  <1>. QED
    BY <1>1, <1>2, <1>3, <1>4, <1>5, StepsOfParts

LEMMA PartsTypedAlways == Spec => [](JE!TypeOK /\ CS!TypeOK)
  <1>1. Init => JE!TypeOK /\ CS!TypeOK
    BY InitParts, PartsAssume, JE!InitTyped, CS!InitTyped
  <1>2. (JE!TypeOK /\ CS!TypeOK) /\ [Next]_vars => (JE!TypeOK /\ CS!TypeOK)'
    BY PartsTyped
  <1>. QED
    BY <1>1, <1>2, PTL DEF Spec

\* Every variable of the whole keeps its type: neither part writes to the rows
\* what the other does not know.
THEOREM TypeCorrect == Spec => []TypeOK
  <1>1. JE!TypeOK /\ CS!TypeOK => TypeOK
    BY SameTypes DEF TypeOK
  <1>. QED
    BY <1>1, PartsTypedAlways, PTL

-----------------------------------------------------------------------------
(* The inductive invariant: those of the parts, and that a challenge has an  *)
(* evaluation channel before a jury is sought for it.                        *)

Placed(c) == c \in ech \/ JE!Ended(c)

ChannelFirst ==
    /\ \A c \in Challenges : status[c] = "IN_EVALUATION" => c \in ech
    /\ \A h \in Handlers : \A c \in JE!Assigned(task[h]) : Placed(c)
    /\ \A h \in Handlers : sub[h].at \in {"swap", "hand"} => Placed(sub[h].ch)

IInv ==
    /\ JE!TypeOK /\ CS!TypeOK
    /\ JE!IInv /\ CS!IInv
    /\ ChannelFirst

\* What a step of the whole does to the row of a challenge.
RowStep(c) ==
    \/ status'[c] = status[c] /\ (c \in ech => c \in ech')
    \/ status[c] = "STARTED" /\ status'[c] = "COMPLETED" /\ (c \in ech => c \in ech')
    \/ status[c] = "COMPLETED" /\ status'[c] = "IN_EVALUATION" /\ c \in ech /\ c \in ech'
    \/ status[c] \in {"COMPLETED", "IN_EVALUATION"} /\ status'[c] = "EVALUATED"
    \/ JE!Ended(c)' /\ status'[c] # "EVALUATED"

LEMMA RowSteps ==
    ASSUME IInv, [Next]_vars, NEW c \in Challenges
    PROVE  RowStep(c)
  <1>1. CASE JE!EvalStep
    <2>1. JE!RowMove(c)
      BY <1>1, PartsAssume, JE!RowsMove DEF IInv
    <2>2. ASSUME status[c] = "COMPLETED", NEW h \in Handlers, task[h].at = "save", task[h].ch = c
          PROVE  c \in ech
      BY <2>2 DEF IInv, ChannelFirst, Placed, JE!Assigned, JE!Ended
    <2>. QED
      BY <2>1, <2>2 DEF JE!RowMove, RowStep, JE!Ended
  <1>2. CASE CS!SubStep
    BY <1>2, PartsAssume, CS!RowsMove DEF IInv, RowStep, JE!Ended
  <1>3. CASE UNCHANGED <<status, ech>>
    BY <1>3 DEF RowStep
  <1>4. \A h \in Handlers : Handing(h) => UNCHANGED <<status, ech>>
    BY DEF Handing, storeVars, dbVars
  <1>5. JE!Restart \/ UNCHANGED vars => UNCHANGED <<status, ech>>
    BY DEF JE!Restart, JE!dbVars, vars, storeVars, dbVars
  <1>. QED
    BY <1>1, <1>2, <1>3, <1>4, <1>5, StepsOfParts

LEMMA PlacedKept ==
    ASSUME IInv, [Next]_vars, NEW c \in Challenges
    PROVE  /\ JE!Ended(c) => JE!Ended(c)'
           /\ Placed(c) => Placed(c)'
  BY RowSteps DEF RowStep, Placed, JE!Ended

LEMMA ChannelFirstKept ==
    ASSUME IInv, [Next]_vars
    PROVE  ChannelFirst'
  <1>1. ASSUME NEW c \in Challenges, status'[c] = "IN_EVALUATION" PROVE c \in ech'
    BY <1>1, RowSteps DEF RowStep, IInv, ChannelFirst, JE!Ended
  <1>2. ASSUME NEW h \in Handlers PROVE JE!Assigned(task[h]) \subseteq Challenges
    <2>1. task[h] \in JE!Task
      BY DEF IInv, JE!TypeOK, JE!EvalTypeOK
    <2>2. /\ task[h].at \in {"pop", "save", "publish"} => task[h].ch \in Challenges
          /\ task[h].at \in {"assign", "pop", "save", "publish"} => task[h].todo \subseteq Challenges
      BY <2>1, PartsAssume, JE!TaskLocals
    <2>. QED
      BY <2>2 DEF JE!Assigned
  <1>3. ASSUME NEW h \in Handlers PROVE \A c \in JE!Assigned(task'[h]) : Placed(c)'
    <2>1. CASE JE!EvalStep
      <3>1. JE!Assigned(task'[h]) \subseteq JE!Assigned(task[h]) \cup {c \in ech : status[c] = "COMPLETED"}
        BY <2>1, PartsAssume, JE!AssignedFrom DEF IInv
      <3>2. \A c \in JE!Assigned(task'[h]) : c \in Challenges /\ Placed(c)
        BY <1>2, <3>1 DEF IInv, ChannelFirst, Placed, JE!TypeOK, JE!StoreTypeOK
      <3>. QED
        BY <3>2, PlacedKept
    <2>2. CASE UNCHANGED task
      BY <1>2, <2>2, PlacedKept DEF IInv, ChannelFirst
    <2>3. ASSUME NEW g \in Handlers, Handing(g)
          PROVE  \A c \in JE!Assigned(task'[h]) : Placed(c)'
      <3>1. sub[g].ch \in Challenges /\ Placed(sub[g].ch)
        BY <2>3, CS!SubLocals, PartsAssume
           DEF Handing, CS!HandOver, IInv, ChannelFirst, CS!TypeOK, CS!SubTypeOK
      <3>2. task'[h] = IF h = g THEN JE!NextAssignment({sub[g].ch}) ELSE task[h]
        BY <2>3 DEF Handing, IInv, JE!TypeOK, JE!EvalTypeOK
      <3>3. JE!Assigned(JE!NextAssignment({sub[g].ch})) = {sub[g].ch}
        BY PartsAssume, JE!AssignedNext
      <3>4. \A c \in JE!Assigned(task'[h]) : c \in Challenges /\ Placed(c)
        BY <1>2, <3>1, <3>2, <3>3 DEF IInv, ChannelFirst
      <3>. QED
        BY <3>4, PlacedKept
    <2>4. CASE JE!Restart
      BY <2>4 DEF JE!Restart, JE!EvalRestart, JE!Assigned, JE!Idle
    <2>5. (CS!SubStep /\ UNCHANGED evaluationVars) \/ UNCHANGED vars => UNCHANGED task
      BY DEF evaluationVars, vars
    <2>. QED
      BY <2>1, <2>2, <2>3, <2>4, <2>5, StepsOfParts
  <1>4. ASSUME NEW h \in Handlers, sub'[h].at \in {"swap", "hand"} PROVE Placed(sub[h].ch)'
    <2>1. ASSUME sub'[h] = sub[h] PROVE Placed(sub[h].ch)'
      <3>1. PICK c \in Challenges : sub[h].ch = c
        BY <1>4, <2>1, CS!SubLocals, PartsAssume DEF IInv, CS!TypeOK, CS!SubTypeOK
      <3>. QED
        BY <1>4, <2>1, <3>1, PlacedKept DEF IInv, ChannelFirst, Placed, JE!Ended
    <2>2. CASE CS!SubStep
      <3>1. ASSUME sub[h].at \in {"store", "swap"}, sub'[h].ch = sub[h].ch,
                   sub[h].at = "store" => sub[h].ch \in ech'
            PROVE  Placed(sub[h].ch)'
        <4>1. PICK c \in Challenges : sub[h].ch = c
          BY <3>1, CS!SubLocals, PartsAssume DEF IInv, CS!TypeOK, CS!SubTypeOK
        <4>2. c \in ech' \/ Placed(c)
          BY <3>1, <4>1 DEF IInv, ChannelFirst
        <4>3. Placed(c)'
          BY <4>2, PlacedKept DEF Placed
        <4>. QED
          BY <3>1, <4>1, <4>3 DEF Placed, JE!Ended
      <3>2. \/ sub'[h] = sub[h]
            \/ sub'[h].at \notin {"swap", "hand"} /\ sub[h].at # "swap"
            \/ /\ sub[h].at = "store" /\ sub'[h] = [at |-> "swap", ch |-> sub[h].ch]
               /\ sub[h].ch \in ech'
            \/ sub[h].at = "swap" /\ sub'[h] = [at |-> "hand", ch |-> sub[h].ch]
        BY <2>2, PartsAssume, CS!HandlersMove DEF IInv
      <3>3. ASSUME NEW a, sub'[h] = [at |-> a, ch |-> sub[h].ch] PROVE sub'[h].ch = sub[h].ch
        BY <3>3
      <3>. QED
        BY <1>4, <2>1, <3>1, <3>2, <3>3
    <2>3. CASE UNCHANGED sub
      BY <2>1, <2>3
    <2>4. ASSUME NEW g \in Handlers, Handing(g) PROVE sub'[h] = sub[h]
      BY <1>4, <2>4 DEF Handing, CS!HandOver, CS!Goto, CS!SubIdle, IInv, CS!TypeOK, CS!SubTypeOK
    <2>5. ~ CS!Restart
      BY <1>4 DEF CS!Restart, CS!SubRestart, CS!SubIdle
    <2>6. (JE!EvalStep /\ UNCHANGED submissionVars) \/ UNCHANGED vars => UNCHANGED sub
      BY DEF submissionVars, vars
    <2>. QED
      BY <2>1, <2>2, <2>3, <2>4, <2>5, <2>6, StepsOfParts
  <1>. QED
    BY <1>1, <1>3, <1>4 DEF ChannelFirst

\* The submission leaves panels, scores, handlers and monitor of the evaluation
\* alone, and takes no challenge back into a stage before its panel.
LEMMA EvaluationKept ==
    ASSUME IInv, [Next]_vars
    PROVE  JE!IInv'
  <1>1. CASE JE!EvalStep
    BY <1>1, PartsAssume, JE!NextKeeps DEF JE!Next, IInv
  <1>2. CASE CS!SubStep /\ UNCHANGED evaluationVars
    <2>1. UNCHANGED <<task, mon>>
      BY <1>2 DEF evaluationVars
    <2>2. \A c \in Challenges :
             /\ UNCHANGED <<jury, scored>>
             /\ \/ status'[c] = status[c]
                \/ status[c] = "STARTED" /\ status'[c] = "COMPLETED"
                \/ status'[c] = "NOT_COMPLETED"
      BY <1>2, PartsAssume, CS!RowsMove DEF IInv
    <2>3. JE!Panels'
      BY <2>2 DEF IInv, JE!IInv, JE!Panels, JE!Appointable
    <2>4. JE!Scores'
      BY <2>2 DEF IInv, JE!IInv, JE!Scores
    <2>5. JE!Picks'
      BY <2>1 DEF IInv, JE!IInv, JE!Picks, JE!Appointable
    <2>6. ASSUME NEW h \in Handlers, task[h].at = "vote" PROVE task[h].ch \in Challenges
      <3>1. task[h] \in JE!Task
        BY DEF IInv, JE!TypeOK, JE!EvalTypeOK
      <3>. QED
        BY <2>6, <3>1, PartsAssume, JE!TaskLocals
    <2>7. JE!Snapshots'
      BY <2>1, <2>2, <2>6 DEF IInv, JE!IInv, JE!Snapshots
    <2>8. JE!Passes'
      <3>1. mon.at = "pass" => mon.fail \cup mon.failed \subseteq Challenges
        BY DEF IInv, JE!TypeOK, JE!EvalTypeOK, JE!Monitor
      <3>. QED
        BY <2>1, <2>2, <3>1 DEF IInv, JE!IInv, JE!Passes
    <2>. QED
      BY <2>3, <2>4, <2>5, <2>7, <2>8 DEF JE!IInv
  <1>3. ASSUME NEW h \in Handlers, Handing(h) PROVE JE!IInv'
    <2>1. UNCHANGED <<status, jury, scored, mon>>
      BY <1>3 DEF Handing, storeVars, dbVars
    <2>2. JE!NextAssignment({sub[h].ch}).at \notin {"save", "vote"}
      BY PartsAssume, JE!NextAssignmentAt
    <2>3. \A g \in Handlers : \/ task'[g] = task[g]
                              \/ task'[g].at \notin {"save", "vote"}
      BY <1>3, <2>2 DEF Handing, IInv, JE!TypeOK, JE!EvalTypeOK
    <2>4. JE!Picks' /\ JE!Snapshots'
      BY <2>1, <2>3 DEF IInv, JE!IInv, JE!Picks, JE!Snapshots, JE!Appointable
    <2>5. JE!Panels' /\ JE!Scores' /\ JE!Passes'
      BY <2>1 DEF IInv, JE!IInv, JE!Panels, JE!Scores, JE!Passes, JE!Appointable
    <2>. QED
      BY <2>4, <2>5 DEF JE!IInv
  <1>4. CASE JE!Restart
    BY <1>4, PartsAssume, JE!NextKeeps DEF JE!Next, IInv
  <1>5. CASE UNCHANGED vars
    BY <1>5 DEF vars, storeVars, dbVars, evaluationVars, IInv, JE!IInv, JE!Panels, JE!Scores,
                JE!Picks, JE!Snapshots, JE!Passes, JE!Appointable
  <1>. QED
    BY <1>1, <1>2, <1>3, <1>4, <1>5, StepsOfParts

\* The evaluation takes no challenge back to STARTED and opens no channel.
LEMMA SubmissionKept ==
    ASSUME IInv, [Next]_vars
    PROVE  CS!IInv'
  <1>1. CASE JE!EvalStep /\ UNCHANGED submissionVars
    <2>1. \A h \in Handlers, c \in Challenges : CS!Opening(h, c)' <=> CS!Opening(h, c)
      BY <1>1 DEF submissionVars, CS!Opening
    <2>2. \A c \in Challenges : JE!RowMove(c) /\ (c \in ech' => c \in ech)
      BY <1>1, PartsAssume, JE!RowsMove DEF IInv
    <2>3. ech' \subseteq Challenges
      BY PartsTyped DEF IInv, JE!TypeOK, JE!StoreTypeOK
    <2>. QED
      BY <2>1, <2>2, <2>3 DEF JE!RowMove, IInv, CS!IInv, CS!OpeningKnown, CS!OpeningUnique,
                              CS!EvaluatedLeft
  <1>2. CASE CS!SubStep \/ CS!Restart
    BY <1>2, PartsAssume, CS!NextKeeps DEF CS!Next, IInv
  <1>3. ASSUME NEW h \in Handlers, Handing(h) PROVE CS!IInv'
    BY <1>3, PartsAssume, CS!NextKeeps DEF CS!Next, IInv, Handing
  <1>4. CASE UNCHANGED vars
    BY <1>4 DEF vars, storeVars, dbVars, submissionVars, IInv, CS!IInv, CS!OpeningKnown,
                CS!OpeningUnique, CS!EvaluatedLeft, CS!Opening
  <1>. QED
    BY <1>1, <1>2, <1>3, <1>4, StepsOfParts

LEMMA InitIInv == Init => IInv
  <1> SUFFICES ASSUME Init PROVE IInv
    OBVIOUS
  <1>1. JE!Init /\ CS!Init
    BY InitParts
  <1>2. ChannelFirst
    BY <1>1 DEF ChannelFirst, JE!Init, JE!EvalInit, JE!Idle, JE!Assigned, CS!Init, CS!SubInit,
                CS!SubIdle
  <1>. QED
    BY <1>1, <1>2, PartsAssume, JE!InitTyped, CS!InitTyped, JE!InitIInv, CS!InitIInv DEF IInv

LEMMA NextKeeps == IInv /\ [Next]_vars => IInv'
  <1> SUFFICES ASSUME IInv, [Next]_vars PROVE IInv'
    OBVIOUS
  <1>1. JE!TypeOK' /\ CS!TypeOK'
    BY PartsTyped DEF IInv
  <1>. QED
    BY <1>1, EvaluationKept, SubmissionKept, ChannelFirstKept DEF IInv

\* What the two parts rely on holds in the whole, whatever each does to the
\* rows of the other, and every jury is sought for a challenge with a channel.
THEOREM Invariant == Spec => []IInv
  BY InitIInv, NextKeeps, PTL DEF Spec

-----------------------------------------------------------------------------
(* What follows from it                                                     *)

\* No assignment overtakes the opening of the evaluation channel, and no
\* monitor takes the channel away from a panel that is sitting.
THEOREM PanelsHaveChannel == Spec => []PanelHasChannel
  <1>1. IInv => PanelHasChannel
    BY DEF IInv, ChannelFirst, PanelHasChannel
  <1>. QED
    BY <1>1, Invariant, PTL

LEMMA ProgressOf ==
    /\ Progress("STARTED") = 0
    /\ Progress("COMPLETED") = 1
    /\ Progress("IN_EVALUATION") = 2
    /\ \A s \in {"ABSENT", "NOT_COMPLETED", "EVALUATED", "EVALUATION_DELAYED"} : Progress(s) = 3
  BY DEF Progress

\* However monitors, surrenders, submissions, assignments and votes of a
\* challenge are interleaved, none of them takes it back.
THEOREM NothingGoesBack == Spec => NeverGoesBack
  <1>1. ASSUME IInv, [Next]_vars, NEW c \in Challenges
        PROVE  Progress(status[c]) <= Progress(status'[c])
    <2>1. status[c] \in {"ABSENT", "STARTED", "COMPLETED", "NOT_COMPLETED",
                         "IN_EVALUATION", "EVALUATED", "EVALUATION_DELAYED"}
      BY <1>1 DEF IInv, JE!TypeOK, JE!StoreTypeOK, JE!Status
    <2>2. Progress(status[c]) \in 0..3
      BY <2>1, ProgressOf
    <2>3. \/ status'[c] = status[c]
          \/ status[c] = "STARTED" /\ status'[c] = "COMPLETED"
          \/ status[c] = "COMPLETED" /\ status'[c] = "IN_EVALUATION"
          \/ status'[c] \in {"ABSENT", "NOT_COMPLETED", "EVALUATED", "EVALUATION_DELAYED"}
      BY <1>1, RowSteps DEF RowStep, JE!Ended
    <2>. QED
      BY <2>2, <2>3, ProgressOf
  <1>2. IInv /\ [Next]_vars
          => [\A c \in Challenges : Progress(status[c]) <= Progress(status'[c])]_vars
    BY <1>1
  <1>. QED
    BY <1>2, Invariant, PTL DEF Spec, NeverGoesBack

\* What is proved of the evaluation on its own holds in the whole, where the
\* submission may give a challenge up under the jury's hands.
THEOREM JurySafe ==
    Spec => [](Evaluation!JurorsOutsideTeam /\ Evaluation!PanelSize /\ Evaluation!VerdictIsEarned)
  <1>1. IInv => Evaluation!JurorsOutsideTeam /\ Evaluation!VerdictIsEarned
    BY DEF IInv, JE!IInv, JE!Panels, JE!Scores, JE!Appointable,
           Evaluation!JurorsOutsideTeam, Evaluation!VerdictIsEarned
  <1>2. IInv => Evaluation!PanelSize
    BY DEF IInv, JE!IInv, JE!Panels, JE!Appointable, Evaluation!PanelSize,
           Evaluation!Cardinality, JE!Cardinality
  <1>. QED
    BY <1>1, <1>2, Invariant, PTL

\* A panel keeps its members and every score it has given.
THEOREM PanelsFinal == Spec => [][Evaluation!PanelKept]_vars
  <1>1. ASSUME IInv, Next PROVE Evaluation!PanelKept
    <2>1. CASE UNCHANGED <<jury, scored>>
      BY <2>1 DEF Evaluation!PanelKept
    <2>2. CASE JE!EvalStep
      BY <1>1, <2>2, PartsAssume, JE!PanelKeptByStep DEF IInv, JE!PanelKept, Evaluation!PanelKept
    <2>3. CASE CS!SubStep
      <3>1. \A c \in Challenges : UNCHANGED <<jury, scored>>
        BY <1>1, <2>3, PartsAssume, CS!RowsMove DEF IInv
      <3>. QED
        BY <3>1 DEF Evaluation!PanelKept
    <2>4. (\E h \in Handlers : Handing(h)) \/ JE!Restart \/ UNCHANGED vars
            => UNCHANGED <<jury, scored>>
      BY DEF Handing, JE!Restart, JE!dbVars, vars, storeVars, dbVars
    <2>. QED
      BY <1>1, <2>1, <2>2, <2>3, <2>4, StepsOfParts
  <1>2. IInv /\ [Next]_vars => [Evaluation!PanelKept]_vars
    BY <1>1
  <1>. QED
    BY <1>2, Invariant, PTL DEF Spec

\* And so does what is proved of the submission: at most one handler opens the
\* evaluation channel, although the evaluation takes channels away.
THEOREM OneChannel == Spec => []Submission!OneEvaluationChannel
  <1>1. IInv => Submission!OneEvaluationChannel
    BY DEF IInv, CS!IInv, CS!OpeningKnown, CS!OpeningUnique, CS!Opening,
           Submission!OneEvaluationChannel, Submission!Opening
  <1>. QED
    BY <1>1, Invariant, PTL

-----------------------------------------------------------------------------
(* The registry and the rows.  A session, a thread or a Slack call that      *)
(* fails leaves a channel registered, or unregistered, until the next start; *)
(* what is proved here is that nothing else does, restarts included.         *)

ClosingEnded == \A h \in Handlers : task[h].at = "close" => JE!Ended(task[h].ch)

\* A challenge that waits for a jury, or has one, has its channel registered; it
\* is just being so; or the monitor is ending it.
EvaluationRegistered ==
    \A c \in ech : status[c] \in {"COMPLETED", "IN_EVALUATION"} =>
        \/ c \in evReg \/ c \in JE!Failed
        \/ \E h \in Handlers : CS!Swapping(h, c)

RegistryInv == IInv /\ CS!RegistryFollows /\ ClosingEnded /\ EvaluationRegistered

LEMMA InitRegistry == Init => RegistryInv
  <1> SUFFICES ASSUME Init PROVE RegistryInv
    OBVIOUS
  <1>1. JE!Init /\ CS!Init /\ IInv
    BY InitParts, InitIInv
  <1>2. CS!RegistryFollows
    BY <1>1 DEF CS!Init, CS!SubInit, CS!SubIdle, CS!DlIdle, CS!RegistryFollows, CS!LeavingLeft,
                CS!StartedRegistered, CS!RegisteredStarted, CS!ChannelsApart, CS!Leaving,
                CS!Expired
  <1>3. ClosingEnded /\ EvaluationRegistered
    BY <1>1 DEF JE!Init, JE!EvalInit, JE!Idle, ClosingEnded, EvaluationRegistered
  <1>. QED
    BY <1>1, <1>2, <1>3 DEF RegistryInv

LEMMA ChannelsFollow ==
    ASSUME RegistryInv, Faults \subseteq {"restart"}, [Next]_vars
    PROVE  CS!RegistryFollows'
  <1> USE DEF RegistryInv, IInv
  <1>1. CASE JE!EvalStep /\ UNCHANGED submissionVars
    <2>1. /\ CS!Expired' = CS!Expired
          /\ \A h \in Handlers, c \in Challenges : CS!Leaving(h, c)' <=> CS!Leaving(h, c)
      BY <1>1 DEF submissionVars, CS!Expired, CS!Leaving
    <2>2. \A c \in Challenges : /\ status'[c] = "STARTED" <=> status[c] = "STARTED"
                                /\ c \in ech' => c \in ech
                                /\ cch' = cch
      BY <1>1, PartsAssume, JE!RowsMove DEF JE!RowMove
    <2>3. \A c \in Challenges : chReg' = chReg
      BY <1>1, PartsAssume, JE!RegistryMoves
    <2>4. cch \subseteq Challenges /\ ech' \subseteq Challenges /\ chReg \subseteq Challenges
          /\ cch' \subseteq Challenges /\ chReg' \subseteq Challenges
      BY PartsTyped DEF JE!TypeOK, JE!StoreTypeOK
    <2>5. CS!LeavingLeft'
      BY <2>1, <2>2 DEF CS!RegistryFollows, CS!LeavingLeft
    <2>6. CS!StartedRegistered'
      BY <2>1, <2>2, <2>3 DEF CS!RegistryFollows, CS!StartedRegistered
    <2>7. CS!RegisteredStarted'
      BY <2>1, <2>2, <2>3, <2>4 DEF CS!RegistryFollows, CS!RegisteredStarted
    <2>8. CS!ChannelsApart'
      BY <2>1, <2>2, <2>3, <2>4 DEF CS!RegistryFollows, CS!ChannelsApart
    <2>. QED
      BY <2>5, <2>6, <2>7, <2>8 DEF CS!RegistryFollows
  <1>2. CASE CS!SubStep \/ CS!Restart
    BY <1>2, PartsAssume, CS!NextFollows DEF CS!Next
  <1>3. ASSUME NEW h \in Handlers, Handing(h) PROVE CS!RegistryFollows'
    BY <1>3, PartsAssume, CS!NextFollows DEF CS!Next, Handing
  <1>4. CASE UNCHANGED vars
    <2>1. CS!vars' = CS!vars
      BY <1>4 DEF vars, storeVars, dbVars, regVars, submissionVars, CS!vars, CS!storeVars,
                  CS!dbVars, CS!regVars, CS!subVars
    <2>. QED
      BY <2>1, PartsAssume, CS!NextFollows
  <1>. QED
    BY <1>1, <1>2, <1>3, <1>4, StepsOfParts

LEMMA ClosingKept ==
    ASSUME RegistryInv, [Next]_vars
    PROVE  ClosingEnded'
  <1> SUFFICES ASSUME NEW h \in Handlers, task'[h].at = "close"
               PROVE  JE!Ended(task[h].ch)'
    BY DEF ClosingEnded
  <1> USE DEF RegistryInv
  <1>1. ASSUME task'[h] = task[h] PROVE JE!Ended(task[h].ch)'
    <2>1. task[h] \in JE!Task
      BY DEF IInv, JE!TypeOK, JE!EvalTypeOK
    <2>2. PICK c \in Challenges : task[h].ch = c
      BY <1>1, <2>1, PartsAssume, JE!TaskLocals
    <2>. QED
      BY <1>1, <2>2, PlacedKept DEF ClosingEnded, JE!Ended
  <1>2. CASE JE!EvalStep
    <2>1. task'[h] = task[h] \/ status'[task'[h].ch] = "EVALUATED"
      BY <1>2, PartsAssume, JE!ClosingFrom DEF IInv
    <2>. QED
      BY <1>1, <2>1 DEF JE!Ended
  <1>3. ASSUME NEW g \in Handlers, Handing(g) PROVE task'[h] = task[h]
    <2>1. JE!NextAssignment({sub[g].ch}).at # "close"
      BY PartsAssume, JE!NextAssignmentAt
    <2>. QED
      BY <1>3, <2>1 DEF Handing, IInv, JE!TypeOK, JE!EvalTypeOK
  <1>4. ~ JE!Restart
    BY DEF JE!Restart, JE!EvalRestart, JE!Idle
  <1>5. UNCHANGED evaluationVars \/ UNCHANGED vars => task'[h] = task[h]
    BY DEF evaluationVars, vars
  <1>. QED
    BY <1>1, <1>2, <1>3, <1>4, <1>5, StepsOfParts

LEMMA RegisteredKept ==
    ASSUME RegistryInv, Faults \subseteq {"restart"}, [Next]_vars
    PROVE  EvaluationRegistered'
  <1> SUFFICES ASSUME NEW c \in ech', status'[c] \in {"COMPLETED", "IN_EVALUATION"}
               PROVE  \/ c \in evReg' \/ c \in JE!Failed'
                      \/ \E h \in Handlers : CS!Swapping(h, c)'
    BY DEF EvaluationRegistered
  <1> USE DEF RegistryInv
  <1>0. c \in Challenges
    BY PartsTyped DEF IInv, JE!TypeOK, JE!StoreTypeOK
  <1>1. status[c] \in {"COMPLETED", "IN_EVALUATION"} \/ c \notin ech
    BY <1>0, RowSteps DEF RowStep, JE!Ended, IInv, CS!IInv, CS!EvaluatedLeft
  <1>2. c \notin ech \/ c \in evReg \/ c \in JE!Failed \/ \E h \in Handlers : CS!Swapping(h, c)
    BY <1>1 DEF EvaluationRegistered
  <1>3. CASE JE!EvalStep /\ UNCHANGED submissionVars
    <2>1. c \in ech /\ status'[c] # "EVALUATION_DELAYED"
      BY <1>0, <1>3, PartsAssume, JE!RowsMove DEF IInv
    <2>2. \A h \in Handlers : ~ (task[h].at = "close" /\ task[h].ch = c)
      BY <1>1, <2>1 DEF ClosingEnded, JE!Ended
    <2>3. /\ c \in evReg => c \in evReg' \/ c \in JE!Failed'
          /\ c \in JE!Failed => c \in JE!Failed'
      BY <1>0, <1>3, <2>1, <2>2, PartsAssume, JE!RegistryMoves DEF IInv
    <2>4. \A h \in Handlers : CS!Swapping(h, c) => CS!Swapping(h, c)'
      BY <1>3 DEF submissionVars, CS!Swapping
    <2>. QED
      BY <1>2, <2>1, <2>3, <2>4
  <1>4. CASE CS!SubStep /\ UNCHANGED evaluationVars
    <2>1. evReg \subseteq evReg' /\ (c \notin ech => \E h \in Handlers : CS!Swapping(h, c)')
      BY <1>4, PartsAssume, CS!RegistryGrows DEF IInv
    <2>2. JE!Failed' = JE!Failed
      BY <1>4 DEF evaluationVars, JE!Failed
    <2>3. ASSUME NEW h \in Handlers, CS!Swapping(h, c)
          PROVE  CS!Swapping(h, c)' \/ c \in evReg'
      <3>1. \/ sub'[h] = sub[h]
            \/ sub[h].at # "swap"
            \/ sub[h].ch \in evReg'
        BY <1>4, PartsAssume, CS!HandlersMove DEF IInv
      <3>. QED
        BY <2>3, <3>1 DEF CS!Swapping
    <2>. QED
      BY <1>2, <2>1, <2>2, <2>3
  <1>5. ASSUME NEW g \in Handlers, Handing(g) PROVE c \in evReg' \/ c \in JE!Failed'
                      \/ \E h \in Handlers : CS!Swapping(h, c)'
    <2>1. UNCHANGED <<ech, evReg, mon>>
      BY <1>5 DEF Handing, storeVars, dbVars, regVars
    <2>2. JE!Failed' = JE!Failed
      BY <2>1 DEF JE!Failed
    <2>3. \A h \in Handlers : CS!Swapping(h, c) => CS!Swapping(h, c)'
      BY <1>5 DEF Handing, CS!HandOver, CS!Goto, CS!Swapping, IInv, CS!TypeOK, CS!SubTypeOK
    <2>. QED
      BY <1>2, <2>1, <2>2, <2>3
  <1>6. CASE JE!Restart
    <2>1. ech' = ech /\ status' = status /\ evReg' = JE!RestoredEvaluations
      BY <1>6 DEF JE!Restart, JE!RebuildRegistry, JE!dbVars
    <2>. QED
      BY <2>1 DEF JE!RestoredEvaluations
  <1>7. CASE UNCHANGED vars
    BY <1>2, <1>7 DEF vars, storeVars, dbVars, regVars, evaluationVars, submissionVars,
                      JE!Failed, CS!Swapping
  <1>. QED
    BY <1>3, <1>4, <1>5, <1>6, <1>7, StepsOfParts

\* Whenever nothing is going on, the registry has the channels the rows say, of
\* both kinds, and a sitting panel can open its form, at whatever point the
\* service was restarted before.
THEOREM RegistryFollowsRows ==
    ASSUME Faults \subseteq {"restart"}
    PROVE  Spec => []RegistryMatchesRows
  <1>1. RegistryInv /\ [Next]_vars => RegistryInv'
    BY NextKeeps, ChannelsFollow, ClosingKept, RegisteredKept DEF RegistryInv
  <1>2. RegistryInv => RegistryMatchesRows
    <2> SUFFICES ASSUME RegistryInv, Quiescent
                 PROVE  Submission!RegistryMatchesRows /\ Evaluation!PanelReachable
      BY DEF RegistryMatchesRows
    <2>1. /\ dl.at = "idle" /\ mon.at = "idle"
          /\ \A h \in Handlers : sub[h].at = "idle"
      BY DEF Quiescent, Evaluation!Quiescent, Submission!Quiescent, Evaluation!MonIdle,
             Submission!DlIdle, Submission!SubIdle
    <2>2. /\ \A h \in Handlers, c \in Challenges : ~ CS!Leaving(h, c) /\ ~ CS!Swapping(h, c)
          /\ CS!Expired = {} /\ JE!Failed = {}
      BY <2>1 DEF CS!Leaving, CS!Swapping, CS!Expired, JE!Failed
    <2>3. \A c \in Challenges : c \in chReg <=> status[c] = "STARTED"
      BY <2>2 DEF RegistryInv, CS!RegistryFollows, CS!StartedRegistered, CS!RegisteredStarted
    <2>4. \A c \in ech : status[c] \in {"COMPLETED", "IN_EVALUATION"} => c \in evReg
      BY <2>2 DEF RegistryInv, EvaluationRegistered, IInv, JE!TypeOK, JE!StoreTypeOK
    <2>5. \A c \in ech : c \notin cch
      BY DEF RegistryInv, CS!RegistryFollows, CS!ChannelsApart
    <2>6. \A c \in Challenges : status[c] = "IN_EVALUATION" => c \in ech
      BY DEF RegistryInv, IInv, ChannelFirst
    <2>. QED
      BY <2>3, <2>4, <2>5, <2>6 DEF Submission!RegistryMatchesRows, Evaluation!PanelReachable
  <1>. QED
    BY <1>1, <1>2, InitRegistry, PTL DEF Spec

-----------------------------------------------------------------------------
(* No challenge is overlooked, if no session, thread or hand-over fails: see *)
(* JuryEvaluation_proofs for one request at a time or one challenge.         *)

Exclusive == \A h \in Handlers : task[h] = JE!Idle \/ sub[h] = CS!SubIdle

\* The thread of a submission that will seek a jury for c.
Delivers(h, c) == sub[h].at \in {"swap", "hand"} /\ sub[h].ch = c

NoneMissed ==
    \A c \in ech : status[c] = "COMPLETED" => JE!Looked(c) \/ \E h \in Handlers : Delivers(h, c)

StrandInv == IInv /\ Exclusive /\ NoneMissed

LEMMA ExclusiveKept == IInv /\ Exclusive /\ [Next]_vars => Exclusive'
  <1> SUFFICES ASSUME IInv, Exclusive, [Next]_vars PROVE Exclusive'
    OBVIOUS
  <1> USE DEF Exclusive, JE!Idle, CS!SubIdle
  <1>1. CASE EvaluationStep \/ SubmissionStep
    BY <1>1 DEF EvaluationStep, SubmissionStep, OneRequestEach, Evaluation!Idle,
                Submission!SubIdle
  <1>2. ASSUME NEW h \in Handlers, HandOver(h) PROVE Exclusive'
    <2>1. /\ \E t : task' = [task EXCEPT ![h] = t]
          /\ sub' = [sub EXCEPT ![h] = [at |-> "idle"]]
      BY <1>2 DEF HandOver, Submission!HandOver, Submission!Goto, Submission!SubIdle,
                  Evaluation!Become
    <2>. QED
      BY <2>1 DEF IInv, JE!TypeOK, JE!EvalTypeOK, CS!TypeOK, CS!SubTypeOK
  <1>3. CASE Restart
    BY <1>3 DEF Restart, Evaluation!EvalRestart, Evaluation!Idle
  <1>4. CASE UNCHANGED vars
    BY <1>4 DEF vars, evaluationVars, submissionVars
  <1>. QED
    BY <1>1, <1>2, <1>3, <1>4 DEF Next

LEMMA MissesNoneKept ==
    ASSUME StrandInv, JE!OneOfOne, Faults \cap {"db", "slack", "timeout"} = {}, [Next]_vars
    PROVE  NoneMissed'
  <1> SUFFICES ASSUME NEW c \in ech', status'[c] = "COMPLETED"
               PROVE  JE!Looked(c)' \/ \E h \in Handlers : Delivers(h, c)'
    BY DEF NoneMissed
  <1> USE DEF StrandInv
  <1>0. c \in Challenges
    BY PartsTyped DEF IInv, JE!TypeOK, JE!StoreTypeOK
  <1>1. status[c] = "COMPLETED" \/ c \notin ech
    BY <1>0, RowSteps DEF RowStep, JE!Ended, IInv, CS!IInv, CS!EvaluatedLeft
  <1>2. c \notin ech \/ JE!Looked(c) \/ \E h \in Handlers : Delivers(h, c)
    BY <1>1 DEF NoneMissed
  <1>3. ASSUME UNCHANGED <<jq, task>>, JE!Looked(c) PROVE JE!Looked(c)'
    <2>1. /\ JE!InHand' = JE!InHand
          /\ \A h \in Handlers : JE!Sees(task[h], c)' <=> JE!Sees(task[h], c)
      BY <1>3 DEF JE!InHand, JE!Held, JE!Sees
    <2>. QED
      BY <1>3, <2>1 DEF JE!Looked, JE!Cardinality
  <1>4. CASE JE!EvalStep /\ UNCHANGED submissionVars
    <2>1. c \in ech
      BY <1>0, <1>4, PartsAssume, JE!RowsMove DEF IInv
    <2>2. JE!Looked(c) => JE!Looked(c)'
      BY <1>0, <1>1, <1>4, <2>1, PartsAssume, JE!EvaluationKeepsLooked DEF IInv
    <2>3. \A h \in Handlers : Delivers(h, c) => Delivers(h, c)'
      BY <1>4 DEF submissionVars, Delivers
    <2>. QED
      BY <1>2, <2>1, <2>2, <2>3
  <1>5. CASE CS!SubStep /\ UNCHANGED evaluationVars
    <2>1. CASE c \notin ech
      <3>1. PICK h \in Handlers : CS!Swapping(h, c)'
        BY <1>5, <2>1, PartsAssume, CS!RegistryGrows DEF IInv
      <3>. QED
        BY <3>1 DEF CS!Swapping, Delivers
    <2>2. ASSUME NEW h \in Handlers, Delivers(h, c) PROVE Delivers(h, c)'
      <3>1. CASE sub[h].at = "hand"
        <4>1. sub'[h] = sub[h]
          BY <1>5, <3>1, PartsAssume, CS!HandStays DEF IInv
        <4>. QED
          BY <2>2, <4>1 DEF Delivers
      <3>2. CASE sub[h].at = "swap"
        <4>1. sub'[h] = sub[h] \/ sub'[h] = [at |-> "hand", ch |-> sub[h].ch]
          BY <1>5, <3>2, PartsAssume, CS!HandlersMove DEF IInv
        <4>. QED
          BY <2>2, <4>1 DEF Delivers
      <3>. QED
        BY <2>2, <3>1, <3>2 DEF Delivers
    <2>3. UNCHANGED <<jq, task>>
      BY <1>5 DEF evaluationVars
    <2>. QED
      BY <1>2, <1>3, <2>1, <2>2, <2>3
  <1>6. ASSUME NEW g \in Handlers, Handing(g)
        PROVE  JE!Looked(c)' \/ \E h \in Handlers : Delivers(h, c)'
    <2>1. PICK t : /\ t = JE!NextAssignment({sub[g].ch})
                   /\ task' = [task EXCEPT ![g] = t] /\ jq' = jq
      BY <1>6 DEF Handing
    <2>2. task[g] = JE!Idle
      BY <1>6 DEF Handing, CS!HandOver, CS!SubIdle, Exclusive
    <2>3. c \in ech
      BY <1>6 DEF Handing, storeVars, dbVars
    <2>4. CASE JE!Looked(c)
      <3>1. JE!Held(t) = {} /\ ~ JE!Sees(task[g], c)
        BY <2>1, <2>2, PartsAssume, JE!HeldNone DEF JE!Sees, JE!Idle
      <3>2. JE!Become(g, t)
        BY <2>1 DEF JE!Become
      <3>. QED
        BY <1>0, <2>1, <2>4, <3>1, <3>2, PartsAssume, JE!LookedByOne DEF IInv
    <2>5. ASSUME NEW h \in Handlers, Delivers(h, c), h # g PROVE Delivers(h, c)'
      BY <1>6, <2>5 DEF Handing, CS!HandOver, CS!Goto, Delivers, IInv, CS!TypeOK, CS!SubTypeOK
    <2>6. CASE Delivers(g, c)
      <3>1. JE!Sees(t, c)
        BY <2>1, <2>6, PartsAssume, JE!SeesNext DEF Delivers
      <3>2. JE!Sees(task[g], c)'
        BY <2>1, <3>1 DEF JE!Sees, IInv, JE!TypeOK, JE!EvalTypeOK
      <3>. QED
        BY <3>2 DEF JE!Looked
    <2>. QED
      BY <1>2, <2>3, <2>4, <2>5, <2>6
  <1>7. CASE JE!Restart
    <2>1. jq' = {} /\ \A h \in Handlers : task'[h] = JE!Idle
      BY <1>7 DEF JE!Restart, JE!EvalRestart
    <2>2. JE!InHand' = {}
      BY <2>1, PartsAssume, JE!HeldNone DEF JE!InHand, JE!Held
    <2>3. (jq \cup JE!InHand)' \ Team[c] = {}
      BY <2>1, <2>2
    <2>4. JE!Cardinality({}) < JuryCount
      BY PartsAssume, FS_EmptySet, StoreAssumption DEF JE!Cardinality, Cardinality
    <2>. QED
      BY <2>3, <2>4 DEF JE!Looked, JE!Cardinality
  <1>8. CASE UNCHANGED vars
    <2>1. UNCHANGED <<ech, jq, task, sub>>
      BY <1>8 DEF vars, storeVars, dbVars, evaluationVars, submissionVars
    <2>2. \A h \in Handlers : Delivers(h, c) => Delivers(h, c)'
      BY <2>1 DEF Delivers
    <2>. QED
      BY <1>2, <1>3, <2>1, <2>2
  <1>. QED
    BY <1>4, <1>5, <1>6, <1>7, <1>8, StepsOfParts

\* From the form to the panel nobody is overlooked: when nothing is going on,
\* no delivered challenge with a channel waits beside enough jurors, whoever
\* joined, left or restarted the service in between, with one request at a time
\* or one challenge, as long as no session, no call of Slack and no thread of a
\* request fails.
THEOREM NobodyStranded ==
    ASSUME JE!OneOfOne, Faults \cap {"db", "slack", "timeout"} = {}
    PROVE  Spec => []NoStrandedChallenge
  <1>1. Init => StrandInv
    <2> SUFFICES ASSUME Init PROVE StrandInv
      OBVIOUS
    <2>1. JE!Init /\ CS!Init /\ IInv
      BY InitParts, InitIInv
    <2>2. Exclusive /\ ech = {}
      BY <2>1 DEF JE!Init, JE!EvalInit, Exclusive
    <2>. QED
      BY <2>1, <2>2 DEF StrandInv, NoneMissed
  <1>2. StrandInv /\ [Next]_vars => StrandInv'
    BY NextKeeps, ExclusiveKept, MissesNoneKept DEF StrandInv
  <1>3. StrandInv => NoStrandedChallenge
    <2> SUFFICES ASSUME StrandInv, Quiescent, NEW c \in ech, status[c] = "COMPLETED"
                 PROVE  JE!Cardinality(JE!Eligible(c)) < JuryCount
      BY DEF NoStrandedChallenge, Evaluation!NoStrandedChallenge, Evaluation!Eligible,
             JE!Eligible, Evaluation!Cardinality, JE!Cardinality
    <2>1. \A h \in Handlers : task[h].at = "idle" /\ sub[h].at = "idle"
      BY DEF Quiescent, Evaluation!Quiescent, Submission!Quiescent, Evaluation!Idle,
             Submission!SubIdle
    <2>2. \A h \in Handlers : ~ JE!Sees(task[h], c) /\ ~ Delivers(h, c)
      BY <2>1 DEF JE!Sees, Delivers
    <2>3. JE!Cardinality((jq \cup JE!InHand) \ Team[c]) < JuryCount
      BY <2>2 DEF StrandInv, NoneMissed, JE!Looked
    <2>4. (jq \cup JE!InHand) \ Team[c] \subseteq Users
      BY PartsAssume, JE!HeldTyped DEF StrandInv, IInv
    <2>5. JE!Eligible(c) \subseteq (jq \cup JE!InHand) \ Team[c]
      BY DEF JE!Eligible
    <2>. QED
      BY <2>3, <2>4, <2>5, PartsAssume, JE!FewerAreFew
  <1>. QED
    BY <1>1, <1>2, <1>3, PTL DEF Spec
=============================================================================
