------------------------- MODULE ChannelGuard_proofs -------------------------
(***************************************************************************)
(* Theorems about ChannelGuard, for any number of challenges and users.    *)
(* What the guard reads is the registry, and what JuryEvaluation promises  *)
(* of the registry (JE) is used for its steps here.                        *)
(***************************************************************************)
EXTENDS ChannelGuard, TLAPS

JE == INSTANCE JuryEvaluation_proofs

-----------------------------------------------------------------------------
(* The evaluation, as it is guarded and as it is proved about                *)

LEMMA EvaluationAssumes == StoreAssumption /\ JE!IsFiniteSet(Users)
  BY StoreAssumption DEF JE!IsFiniteSet, IsFiniteSet

LEMMA SameTypes == Evaluation!TypeOK <=> JE!TypeOK
  BY DEF Evaluation!TypeOK, JE!TypeOK, Evaluation!EvalTypeOK, JE!EvalTypeOK,
         Evaluation!Task, JE!Task, Evaluation!Monitor, JE!Monitor, Evaluation!Ages, JE!Ages,
         Evaluation!StoreTypeOK, JE!StoreTypeOK, Evaluation!Status, JE!Status

LEMMA SameInit == Init => JE!Init
  BY DEF Init, Evaluation!Init, JE!Init, Evaluation!EvalInit, JE!EvalInit,
         Evaluation!Idle, JE!Idle, Evaluation!MonIdle, JE!MonIdle

LEMMA SameStep == Evaluation!Next => JE!Next
  <1> USE DEF Evaluation!Become, JE!Become, Evaluation!Idle, JE!Idle,
              Evaluation!storeVars, JE!storeVars, Evaluation!dbVars, JE!dbVars,
              Evaluation!regVars, JE!regVars, Evaluation!MonIdle, JE!MonIdle,
              Evaluation!Eligible, JE!Eligible, Evaluation!LoopFree, JE!LoopFree,
              Evaluation!NextAssignment, JE!NextAssignment,
              Evaluation!Cardinality, JE!Cardinality,
              Evaluation!RegisterEvaluation, JE!RegisterEvaluation,
              Evaluation!UnregisterEvaluation, JE!UnregisterEvaluation
  <1>1. Evaluation!Requests => JE!Requests
    BY DEF Evaluation!Requests, JE!Requests, Evaluation!JuryJoin, JE!JuryJoin,
           Evaluation!JuryLeave, JE!JuryLeave, Evaluation!OpenForm, JE!OpenForm,
           Evaluation!SubmitForm, JE!SubmitForm
  <1>2. Evaluation!Monitoring => JE!Monitoring
    BY DEF Evaluation!Monitoring, JE!Monitoring, Evaluation!StartPass, JE!StartPass,
           Evaluation!CommitPass, JE!CommitPass, Evaluation!PassFails, JE!PassFails,
           Evaluation!FailEvaluation, JE!FailEvaluation,
           Evaluation!SendReminder, JE!SendReminder
  <1>3. \A h : Evaluation!Assigning(h) => JE!Assigning(h)
    BY DEF Evaluation!Assigning, JE!Assigning, Evaluation!ScanWaiting, JE!ScanWaiting,
           Evaluation!PopJurors, JE!PopJurors, Evaluation!Pop, JE!Pop,
           Evaluation!SaveJury, JE!SaveJury, Evaluation!ReEnqueueJurors, JE!ReEnqueueJurors,
           Evaluation!PublishJury, JE!PublishJury,
           Evaluation!DeferAssignment, JE!DeferAssignment,
           Evaluation!CountJurors, JE!CountJurors
  <1>4. \A h : /\ Evaluation!Voting(h) => JE!Voting(h)
               /\ Evaluation!RequestFails(h) => JE!RequestFails(h)
    BY DEF Evaluation!Voting, JE!Voting, Evaluation!CastVote, JE!CastVote,
           Evaluation!VoteAccepted, JE!VoteAccepted, Evaluation!IsLastJury, JE!IsLastJury,
           Evaluation!RejectVote, JE!RejectVote, Evaluation!CloseEvaluation, JE!CloseEvaluation,
           Evaluation!CloseTimesOut, JE!CloseTimesOut,
           Evaluation!RequestFails, JE!RequestFails
  <1>5. \A c : Evaluation!Wait(c) => JE!Wait(c)
    BY DEF Evaluation!Wait, JE!Wait
  <1>6. Evaluation!Delivery => JE!Delivery
    BY DEF Evaluation!Delivery, JE!Delivery, Evaluation!Deliver, JE!Deliver,
           Evaluation!RegisterDelivered, JE!RegisterDelivered,
           Evaluation!UnregisterChallenge, JE!UnregisterChallenge
  <1>7. Evaluation!Restart => JE!Restart
    BY DEF Evaluation!Restart, JE!Restart, Evaluation!EvalRestart, JE!EvalRestart,
           Evaluation!RebuildRegistry, JE!RebuildRegistry,
           Evaluation!RestoredChallenges, JE!RestoredChallenges,
           Evaluation!RestoredEvaluations, JE!RestoredEvaluations
  <1>. QED
    BY <1>1, <1>2, <1>3, <1>4, <1>5, <1>6, <1>7
       DEF Evaluation!Next, JE!Next, Evaluation!EvalStep, JE!EvalStep

\* What happens beside the guard is the evaluation's; the guard changes nothing
\* the evaluation sees.
LEMMA StepsOfParts ==
    ASSUME [Next]_vars
    PROVE  [JE!Next]_(JE!vars)
  <1> USE DEF Evaluation!Next, Evaluation!EvalStep, Evaluation!Requests, Evaluation!Monitoring,
              Evaluation!Assigning, Evaluation!Voting, Evaluation!Delivery
  <1>1. CASE UNCHANGED evaluationVars
    BY <1>1 DEF evaluationVars, storeVars, dbVars, regVars, JE!vars, JE!storeVars, JE!dbVars,
                JE!regVars, JE!evalVars
  <1>2. (\E u \in Users, c \in Challenges : OpenForm(u, c)) => Evaluation!Next
    BY DEF OpenForm
  <1>3. (\E h \in Handlers : PopJurors(h) \/ \E c \in Challenges : Deliver(h, c))
          => Evaluation!Next
    BY DEF PopJurors, Deliver
  <1>4. Close => Evaluation!Next
    BY DEF Close
  <1>5. Elsewhere => Evaluation!Next
    BY DEF Elsewhere
  <1>6. Restart => Evaluation!Next
    BY DEF Restart
  <1>7. Guarding \/ SlackFails \/ (\E u \in Users, room \in Rooms : Enter(u, room))
          => UNCHANGED evaluationVars
    BY DEF Guarding, SlackFails, StartGuard, CheckRoom, CheckFails, Kick, KickFails, Enter
  <1>8. UNCHANGED vars => UNCHANGED evaluationVars
    BY DEF vars
  <1>. QED
    BY <1>1, <1>2, <1>3, <1>4, <1>5, <1>6, <1>7, <1>8, SameStep DEF Next

-----------------------------------------------------------------------------
(* Type correctness                                                         *)

LEMMA GuardLocals ==
    ASSUME TypeOK
    PROVE  /\ guard.at \in {"asleep", "pass", "kick"}
           /\ guard.at = "pass" => guard \in [at : {"pass"}, left : SUBSET Rooms,
                                              jury : Panels, seated : Panels]
           /\ guard.at = "kick" => guard \in [at : {"kick"}, left : SUBSET Rooms,
                                              jury : Panels, seated : Panels, room : Rooms,
                                              who : (SUBSET Users) \ {{}}]
  BY DEF TypeOK, Pass, Asleep

LEMMA DoneTyped ==
    ASSUME NEW room, guard.left \subseteq Rooms, guard.jury \in Panels, guard.seated \in Panels
    PROVE  Done(room) \in {Asleep} \cup Pass
  BY DEF Done, Pass

LEMMA GuardStepsTyped ==
    ASSUME TypeOK, JE!TypeOK, Guarding \/ SlackFails
    PROVE  guard' \in {Asleep} \cup Pass /\ inside' \in [Rooms -> SUBSET Users]
  <1>0. inside \in [Rooms -> SUBSET Users]
    BY DEF TypeOK
  <1>1. CASE StartGuard
    <2>1. Registered \subseteq Rooms /\ evJury \in Panels
      BY DEF Registered, Rooms, Panels, JE!TypeOK, JE!StoreTypeOK
    <2>2. [c \in Challenges |-> IF Assigned(c) THEN {} ELSE jury[c]] \in Panels
      BY DEF Panels, JE!TypeOK, JE!StoreTypeOK
    <2>. QED
      BY <1>0, <1>1, <2>1, <2>2 DEF StartGuard, Pass
  <1>2. ASSUME NEW room \in Rooms, CheckRoom(room) \/ CheckFails(room)
        PROVE  guard' \in {Asleep} \cup Pass /\ inside' = inside
    <2>1. /\ guard.left \in SUBSET Rooms /\ guard.jury \in Panels /\ guard.seated \in Panels
      BY <1>2, GuardLocals DEF CheckRoom, CheckFails
    <2>2. inside[room] \ Authorized(room, guard.jury) \in SUBSET Users
      BY <1>0
    <2>3. Done(room) \in {Asleep} \cup Pass
      BY <2>1, DoneTyped
    <2>4. ASSUME NEW who \in (SUBSET Users) \ {{}}
          PROVE  [at |-> "kick", left |-> guard.left, jury |-> guard.jury,
                  seated |-> guard.seated, room |-> room, who |-> who] \in Pass
      BY <2>1 DEF Pass
    <2>5. CASE CheckFails(room)
      BY <2>3, <2>5 DEF CheckFails
    <2>6. CASE CheckRoom(room)
      <3>1. CASE inside[room] \ Authorized(room, guard.jury) = {}
        BY <2>3, <2>6, <3>1 DEF CheckRoom
      <3>2. CASE inside[room] \ Authorized(room, guard.jury) # {}
        <4>1. inside[room] \ Authorized(room, guard.jury) \in (SUBSET Users) \ {{}}
          BY <2>2, <3>2
        <4>2. guard' = [at |-> "kick", left |-> guard.left, jury |-> guard.jury,
                        seated |-> guard.seated, room |-> room,
                        who |-> inside[room] \ Authorized(room, guard.jury)]
          BY <2>6, <3>2 DEF CheckRoom
        <4>3. guard' \in Pass
          BY <2>4, <4>1, <4>2
        <4>. QED
          BY <2>6, <4>3 DEF CheckRoom
      <3>. QED
        BY <3>1, <3>2
    <2>. QED
      BY <1>2, <2>5, <2>6 DEF CheckRoom, CheckFails
  <1>3. ASSUME NEW u \in Users, Kick(u) \/ KickFails(u)
        PROVE  guard' \in {Asleep} \cup Pass /\ inside' \in [Rooms -> SUBSET Users]
    <2>1. guard \in [at : {"kick"}, left : SUBSET Rooms, jury : Panels, seated : Panels,
                     room : Rooms, who : (SUBSET Users) \ {{}}]
      BY <1>3, GuardLocals DEF Kick, KickFails
    <2>2. Done(guard.room) \in {Asleep} \cup Pass
      BY <2>1, DoneTyped
    <2>3. ASSUME guard.who # {u}
          PROVE  [guard EXCEPT !.who = @ \ {u}]
                   \in [at : {"kick"}, left : SUBSET Rooms, jury : Panels, seated : Panels,
                        room : Rooms, who : (SUBSET Users) \ {{}}]
      BY <2>1, <2>3
    <2>4. guard' \in {Asleep} \cup Pass
      BY <1>3, <2>2, <2>3 DEF Kick, KickFails, NextIntruder, Pass
    <2>. QED
      BY <1>0, <1>3, <2>4 DEF Kick, KickFails
  <1>. QED
    BY <1>0, <1>1, <1>2, <1>3 DEF Guarding, SlackFails

LEMMA RoomsTyped ==
    ASSUME TypeOK, JE!TypeOK, JE!TypeOK', [Next]_vars
    PROVE  guard' \in {Asleep} \cup Pass /\ inside' \in [Rooms -> SUBSET Users]
  <1> USE DEF TypeOK
  <1>1. ASSUME NEW u \in Users, NEW room \in Rooms, Enter(u, room)
        PROVE  inside' \in [Rooms -> SUBSET Users]
    BY <1>1 DEF Enter
  <1>2. ASSUME NEW h \in Handlers, NEW c \in Challenges, Deliver(h, c)
        PROVE  inside' \in [Rooms -> SUBSET Users]
    <2>1. PICK invited \in SUBSET Users :
            inside' = [inside EXCEPT ![<<"challenge", c>>] = {}, ![<<"evaluation", c>>] = invited]
      BY <1>2, StoreAssumption DEF Deliver
    <2>. QED
      BY <2>1
  <1>3. ASSUME NEW h \in Handlers, PopJurors(h) PROVE inside' \in [Rooms -> SUBSET Users]
    <2>1. PICK S \in SUBSET jq : task'[h].picked = S
      BY <1>3 DEF PopJurors, Evaluation!PopJurors, Evaluation!Pop, Evaluation!Eligible,
                  Evaluation!Become, JE!TypeOK, JE!EvalTypeOK
    <2>2. S \in SUBSET Users
      BY <2>1 DEF JE!TypeOK, JE!EvalTypeOK
    <2>. QED
      BY <1>3, <2>1, <2>2 DEF PopJurors
  <1>4. CASE Close
    BY <1>4 DEF Close, Archive
  <1>5. (\E u \in Users, c \in Challenges : OpenForm(u, c)) \/ Elsewhere \/ Restart \/ UNCHANGED vars
          => UNCHANGED inside
    BY DEF OpenForm, Elsewhere, Restart, vars
  <1>6. Guarding \/ SlackFails \/ Restart \/ UNCHANGED guard
    BY DEF Next, Enter, OpenForm, PopJurors, Deliver, Close, Elsewhere, vars
  <1>7. Restart => guard' = Asleep
    BY DEF Restart
  <1>. QED
    BY <1>1, <1>2, <1>3, <1>4, <1>5, <1>6, <1>7, GuardStepsTyped DEF Next

LEMMA TypeKept ==
    ASSUME TypeOK, JE!TypeOK, [Next]_vars
    PROVE  TypeOK' /\ JE!TypeOK'
  <1>1. JE!TypeOK'
    BY StepsOfParts, EvaluationAssumes, JE!NextTyped
  <1>2. Evaluation!TypeOK'
    BY <1>1 DEF Evaluation!TypeOK, JE!TypeOK, Evaluation!EvalTypeOK, JE!EvalTypeOK,
       Evaluation!Task, JE!Task, Evaluation!Monitor, JE!Monitor, Evaluation!Ages, JE!Ages,
       Evaluation!StoreTypeOK, JE!StoreTypeOK, Evaluation!Status, JE!Status
  <1>3. guard' \in {Asleep} \cup Pass /\ inside' \in [Rooms -> SUBSET Users]
    BY <1>1, RoomsTyped
  <1>. QED
    BY <1>1, <1>2, <1>3 DEF TypeOK, Pass, Rooms, Panels, Asleep

\* The types of the rooms and of a pass, beside those of the evaluation.
THEOREM TypeCorrect == Spec => []TypeOK
  <1>1. Init => TypeOK /\ JE!TypeOK
    <2> SUFFICES ASSUME Init PROVE TypeOK /\ JE!TypeOK
      OBVIOUS
    <2>1. JE!TypeOK
      BY SameInit, EvaluationAssumes, JE!InitTyped
    <2>2. inside \in [Rooms -> SUBSET Users]
      BY StoreAssumption DEF Init, Rooms
    <2>. QED
      BY <2>1, <2>2, SameTypes DEF Init, TypeOK
  <1>2. TypeOK /\ JE!TypeOK /\ [Next]_vars => (TypeOK /\ JE!TypeOK)'
    BY TypeKept
  <1>. QED
    BY <1>1, <1>2, PTL DEF Spec

-----------------------------------------------------------------------------
(* Whom a pass removes                                                      *)

\* What a pass holds: a panel that sat when it began is in the list it reads,
\* and nobody on that list is about to be removed.
GuardReads ==
    /\ guard.at \in {"pass", "kick"} =>
          \A c \in Challenges :
             <<"evaluation", c>> \in guard.left => guard.seated[c] \subseteq guard.jury[c]
    /\ guard.at = "kick" =>
          /\ guard.room \in guard.left
          /\ guard.who \cap Authorized(guard.room, guard.jury) = {}

LEMMA DoneReads ==
    ASSUME GuardReads, guard.at \in {"pass", "kick"}, NEW room
    PROVE  /\ Done(room).at \in {"asleep", "pass"}
           /\ Done(room).at = "pass" =>
                 \A c \in Challenges :
                    <<"evaluation", c>> \in Done(room).left
                       => Done(room).seated[c] \subseteq Done(room).jury[c]
  BY DEF GuardReads, Done, Asleep

\* The registry lists every panel nobody is about to register, so a pass begins
\* with lists that hold the panels that sat, and keeps them.
LEMMA NextKeepsReads ==
    ASSUME TypeOK, JE!TypeOK, JE!Listed, GuardReads, [Next]_vars
    PROVE  GuardReads'
  <1>1. CASE UNCHANGED guard
    BY <1>1 DEF GuardReads, Authorized
  <1>2. ASSUME NEW room, guard.at \in {"pass", "kick"}, guard' = Done(room)
        PROVE  GuardReads'
    BY <1>2, DoneReads DEF GuardReads
  <1>3. CASE StartGuard
    <2>1. /\ guard'.at = "pass" /\ guard'.left = Registered /\ guard'.jury = evJury
          /\ guard'.seated = [c \in Challenges |-> IF Assigned(c) THEN {} ELSE jury[c]]
      BY <1>3 DEF StartGuard
    <2>2. ASSUME NEW c \in Challenges, <<"evaluation", c>> \in Registered
          PROVE  (IF Assigned(c) THEN {} ELSE jury[c]) \subseteq evJury[c]
      <3>1. c \in evReg
        BY <2>2 DEF Registered
      <3>. QED
        BY <3>1 DEF JE!Listed, Assigned
    <2>. QED
      BY <2>1, <2>2 DEF GuardReads
  <1>4. ASSUME NEW room \in Rooms, CheckRoom(room) PROVE GuardReads'
    <2>1. CASE inside[room] \ Authorized(room, guard.jury) = {}
      BY <1>2, <1>4, <2>1 DEF CheckRoom
    <2>2. CASE inside[room] \ Authorized(room, guard.jury) # {}
      <3>1. /\ guard'.at = "kick" /\ guard'.left = guard.left /\ guard'.jury = guard.jury
            /\ guard'.seated = guard.seated /\ guard'.room = room
            /\ guard'.who = inside[room] \ Authorized(room, guard.jury)
        BY <1>4, <2>2 DEF CheckRoom
      <3>. QED
        BY <1>4, <3>1 DEF GuardReads, CheckRoom, Authorized
    <2>. QED
      BY <2>1, <2>2
  <1>5. ASSUME NEW room \in Rooms, CheckFails(room) PROVE GuardReads'
    BY <1>2, <1>5 DEF CheckFails
  <1>6. ASSUME NEW u \in Users, Kick(u) \/ KickFails(u) PROVE GuardReads'
    <2>1. CASE guard' = Done(guard.room)
      BY <1>2, <1>6, <2>1 DEF Kick, KickFails
    <2>2. CASE guard' = [guard EXCEPT !.who = @ \ {u}]
      <3>1. guard \in [at : {"kick"}, left : SUBSET Rooms, jury : Panels, seated : Panels,
                       room : Rooms, who : (SUBSET Users) \ {{}}]
        BY <1>6, GuardLocals DEF Kick, KickFails
      <3>2. /\ guard'.at = "kick" /\ guard'.left = guard.left /\ guard'.jury = guard.jury
            /\ guard'.seated = guard.seated /\ guard'.room = guard.room
            /\ guard'.who \subseteq guard.who
        BY <2>2, <3>1
      <3>. QED
        BY <3>1, <3>2 DEF GuardReads, Authorized
    <2>. QED
      BY <1>6, <2>1, <2>2 DEF Kick, KickFails, NextIntruder
  <1>7. CASE Restart
    BY <1>7 DEF Restart, Asleep, GuardReads
  <1>8. \/ UNCHANGED guard \/ Restart \/ StartGuard
        \/ (\E room \in Rooms : CheckRoom(room) \/ CheckFails(room))
        \/ (\E u \in Users : Kick(u) \/ KickFails(u))
    BY DEF Next, Guarding, SlackFails, Enter, OpenForm, PopJurors, Deliver, Close, Elsewhere, vars
  <1>. QED
    BY <1>1, <1>3, <1>4, <1>5, <1>6, <1>7, <1>8

\* A pass of the guard never removes a juror who sat when it began, as long as
\* requests come one at a time: a panel is stored before it is registered, and
\* only the request that stored it is between the two.
THEOREM SeatedStay ==
    ASSUME JE!OneHandler
    PROVE  Spec => SeatedJurorsStay
  <1> DEFINE Inv == TypeOK /\ JE!TypeOK /\ JE!IInv /\ JE!Listed /\ GuardReads
  <1>1. Init => Inv
    <2> SUFFICES ASSUME Init PROVE Inv
      OBVIOUS
    <2>1. JE!Init /\ JE!TypeOK /\ JE!IInv
      BY SameInit, EvaluationAssumes, JE!InitTyped, JE!InitIInv
    <2>2. inside \in [Rooms -> SUBSET Users]
      BY StoreAssumption DEF Init, Rooms
    <2>3. TypeOK
      BY <2>1, <2>2, SameTypes DEF Init, TypeOK
    <2>4. JE!Listed
      BY <2>1, EvaluationAssumes, JE!InitListed
    <2>5. GuardReads
      BY DEF Init, GuardReads, Asleep
    <2>. QED
      BY <2>1, <2>3, <2>4, <2>5
  <1>2. Inv /\ [Next]_vars => Inv'
    <2> SUFFICES ASSUME Inv, [Next]_vars PROVE Inv'
      OBVIOUS
    <2>1. [JE!Next]_(JE!vars)
      BY StepsOfParts
    <2>2. JE!TypeOK' /\ JE!IInv' /\ JE!Listed'
      BY <2>1, EvaluationAssumes, JE!NextTyped, JE!NextKeeps, JE!NextKeepsListed
    <2>3. TypeOK'
      BY <2>2, TypeKept
    <2>4. GuardReads'
      BY NextKeepsReads
    <2>. QED
      BY <2>2, <2>3, <2>4
  <1>3. Inv /\ [Next]_vars =>
          [\A u \in Users : Kick(u) /\ guard.room[1] = "evaluation"
                              => u \notin guard.seated[guard.room[2]]]_vars
    <2> SUFFICES ASSUME Inv, NEW u \in Users, Kick(u), guard.room[1] = "evaluation"
                 PROVE  u \notin guard.seated[guard.room[2]]
      OBVIOUS
    <2>1. guard.at = "kick" /\ u \in guard.who
      BY DEF Kick
    <2>2. guard.room \in Rooms
      BY <2>1, GuardLocals
    <2>3. PICK c \in Challenges : guard.room = <<"evaluation", c>>
      BY <2>2 DEF Rooms
    <2>4. guard.seated[c] \subseteq guard.jury[c] /\ u \notin guard.jury[c]
      BY <2>1, <2>3 DEF GuardReads, Authorized
    <2>. QED
      BY <2>3, <2>4
  <1>. HIDE DEF Inv
  <1>. QED
    BY <1>1, <1>2, <1>3, PTL DEF Spec, SeatedJurorsStay
=============================================================================
