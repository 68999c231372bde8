------------------------ MODULE JuryEvaluation_proofs ------------------------
(***************************************************************************)
(* Theorems about JuryEvaluation, for any number of challenges, users and  *)
(* concurrent requests, any team assignment and any set of faults.         *)
(***************************************************************************)
EXTENDS JuryEvaluation, FiniteSetTheorems, TLAPS

-----------------------------------------------------------------------------
(* The locals a handler holds, by what it is doing.                         *)

LEMMA TaskLocals ==
    ASSUME NEW t \in Task
    PROVE  /\ t.at \in {"register", "close", "pop", "save", "publish", "vote"}
                => t.ch \in Challenges
           /\ t.at \in {"assign", "pop", "save", "publish"} => t.todo \subseteq Challenges
           /\ t.at \in {"save", "publish"} => t.picked \subseteq Users
           /\ t.at = "vote" => t.who \in Users /\ t.panel \subseteq Users /\ t.done \subseteq Users
  BY DEF Task

-----------------------------------------------------------------------------
(* Type correctness                                                         *)

LEMMA InitTyped == Init => TypeOK
  BY DEF Init, EvalInit, TypeOK, StoreTypeOK, EvalTypeOK, Status, Ages, Monitor, MonIdle,
         Task, Idle

LEMMA RequestsTyped == TypeOK /\ Requests => TypeOK'
  <1> SUFFICES ASSUME TypeOK, Requests PROVE TypeOK'
    OBVIOUS
  <1> USE DEF TypeOK, StoreTypeOK, EvalTypeOK, storeVars, dbVars, regVars, Become
  <1>1. CASE \E h \in Handlers, u \in Users : JuryJoin(h, u)
    <2>1. [at |-> "scan"] \in Task
      BY DEF Task
    <2>. QED
      BY <1>1, <2>1 DEF JuryJoin
  <1>2. CASE \E u \in Users : JuryLeave(u)
    BY <1>2 DEF JuryLeave
  <1>3. CASE \E u \in Users, c \in Challenges : OpenForm(u, c)
    BY <1>3 DEF OpenForm
  <1>4. ASSUME NEW h \in Handlers, NEW u \in Users, NEW c \in Challenges, SubmitForm(h, u, c)
        PROVE  TypeOK'
    <2>1. [at |-> "vote", ch |-> c, who |-> u, panel |-> jury[c], done |-> scored[c]] \in Task
      BY DEF Task
    <2>. QED
      BY <1>4, <2>1 DEF SubmitForm
  <1>. QED
    BY <1>1, <1>2, <1>3, <1>4 DEF Requests

LEMMA AssigningTyped ==
    ASSUME TypeOK, NEW h \in Handlers, Assigning(h)
    PROVE  TypeOK'
  <1> USE DEF TypeOK, StoreTypeOK, EvalTypeOK, storeVars, dbVars, regVars, Become
  <1>0. task[h] \in Task
    OBVIOUS
  <1>1. CASE ScanWaiting(h)
    <2>1. {c \in ech : status[c] = "COMPLETED"} \in SUBSET Challenges
      OBVIOUS
    <2>2. NextAssignment({c \in ech : status[c] = "COMPLETED"}) \in Task
      BY <2>1 DEF NextAssignment, Task, Idle
    <2>. QED
      BY <1>1, <2>2 DEF ScanWaiting
  <1>2. CASE PopJurors(h)
    <2>1. PICK S \in SUBSET jq :
             /\ jq' = jq \ S
             /\ Become(h, [at |-> "save", todo |-> task[h].todo, ch |-> task[h].ch, picked |-> S])
      BY <1>2 DEF PopJurors, Pop, Eligible
    <2>2. [at |-> "save", todo |-> task[h].todo, ch |-> task[h].ch, picked |-> S] \in Task
      BY <1>0, <1>2, TaskLocals DEF PopJurors, Task
    <2>. QED
      BY <1>2, <2>1, <2>2 DEF PopJurors
  <1>3. CASE SaveJury(h)
    <2>1. task[h] \in [at : {"save", "publish"}, todo : SUBSET Challenges, ch : Challenges,
                       picked : SUBSET Users]
      BY <1>0, <1>3 DEF SaveJury, Task
    <2>2. [task[h] EXCEPT !.at = "publish"] \in Task
      BY <2>1 DEF Task
    <2>. QED
      BY <1>3, <2>1, <2>2 DEF SaveJury, Status, Ages
  <1>4. CASE ReEnqueueJurors(h) \/ PublishJury(h)
    <2>1. task[h].todo \subseteq Challenges /\ task[h].picked \subseteq Users /\ task[h].ch \in Challenges
      BY <1>0, <1>4, TaskLocals DEF ReEnqueueJurors, PublishJury
    <2>2. NextAssignment(task[h].todo) \in Task
      BY <2>1 DEF NextAssignment, Task, Idle
    <2>. QED
      BY <1>4, <2>1, <2>2 DEF ReEnqueueJurors, PublishJury, RegisterEvaluation
  <1>5. ASSUME NEW c \in Challenges, DeferAssignment(h, c) \/ CountJurors(h, c)
        PROVE  TypeOK'
    <2>1. task[h].todo \ {c} \subseteq Challenges
      BY <1>0, <1>5, TaskLocals DEF DeferAssignment, CountJurors
    <2>2. NextAssignment(task[h].todo \ {c}) \in Task
      BY <2>1 DEF NextAssignment, Task, Idle
    <2>3. [at |-> "pop", todo |-> task[h].todo \ {c}, ch |-> c] \in Task
      BY <2>1 DEF Task
    <2>. QED
      BY <1>5, <2>2, <2>3 DEF DeferAssignment, CountJurors
  <1>. QED
    BY <1>1, <1>2, <1>3, <1>4, <1>5 DEF Assigning

LEMMA VotingTyped ==
    ASSUME TypeOK, NEW h \in Handlers, Voting(h) \/ RequestFails(h) \/ RegisterDelivered(h)
    PROVE  TypeOK'
  <1> USE DEF TypeOK, StoreTypeOK, EvalTypeOK, storeVars, dbVars, regVars, Become
  <1>0. task[h] \in Task /\ Idle \in Task
    BY DEF Task, Idle
  <1>1. CASE CastVote(h)
    <2>1. task[h].ch \in Challenges /\ task[h].who \in Users
      BY <1>0, <1>1, TaskLocals DEF CastVote, VoteAccepted
    <2>2. [at |-> "close", ch |-> task[h].ch] \in Task
      BY <2>1 DEF Task
    <2>. QED
      BY <1>0, <1>1, <2>1, <2>2 DEF CastVote, Status
  <1>2. CASE RejectVote(h) \/ CloseTimesOut(h) \/ RequestFails(h)
    BY <1>0, <1>2 DEF RejectVote, CloseTimesOut, RequestFails
  <1>3. CASE CloseEvaluation(h)
    BY <1>0, <1>3 DEF CloseEvaluation, UnregisterEvaluation
  <1>4. CASE RegisterDelivered(h)
    <2>1. task[h].ch \in Challenges
      BY <1>0, <1>4, TaskLocals DEF RegisterDelivered
    <2>2. NextAssignment({task[h].ch}) \in Task
      BY <2>1 DEF NextAssignment, Task, Idle
    <2>. QED
      BY <1>4, <2>1, <2>2 DEF RegisterDelivered, RegisterEvaluation, UnregisterChallenge
  <1>. QED
    BY <1>1, <1>2, <1>3, <1>4 DEF Voting

LEMMA MonitoringTyped == TypeOK /\ Monitoring => TypeOK'
  <1> SUFFICES ASSUME TypeOK, Monitoring PROVE TypeOK'
    OBVIOUS
  <1> USE DEF TypeOK, StoreTypeOK, EvalTypeOK, storeVars, dbVars, regVars
  <1>1. CASE StartPass
    BY <1>1 DEF StartPass, Monitor
  <1>2. CASE CommitPass
    BY <1>2 DEF CommitPass, Monitor, MonIdle, Status
  <1>3. CASE PassFails
    BY <1>3 DEF PassFails, Monitor, MonIdle
  <1>4. ASSUME NEW c \in Challenges, FailEvaluation(c) PROVE TypeOK'
    BY <1>4 DEF FailEvaluation, UnregisterEvaluation, Monitor
  <1>5. ASSUME NEW c \in Challenges, SendReminder(c) PROVE TypeOK'
    BY <1>5 DEF SendReminder, Monitor
  <1>. QED
    BY <1>1, <1>2, <1>3, <1>4, <1>5 DEF Monitoring

LEMMA OtherStepsTyped ==
    TypeOK /\ ( \/ \E c \in Challenges : Wait(c) \/ \E h \in Handlers : Deliver(h, c)
               \/ Restart ) => TypeOK'
  <1> SUFFICES ASSUME TypeOK,
                      \/ \E c \in Challenges : Wait(c) \/ \E h \in Handlers : Deliver(h, c)
                      \/ Restart
               PROVE  TypeOK'
    OBVIOUS
  <1> USE DEF TypeOK, StoreTypeOK, EvalTypeOK, storeVars, dbVars, regVars
  <1>1. ASSUME NEW c \in Challenges, Wait(c) PROVE TypeOK'
    BY <1>1 DEF Wait, Ages
  <1>2. ASSUME NEW c \in Challenges, NEW h \in Handlers, Deliver(h, c) PROVE TypeOK'
    <2>1. [at |-> "register", ch |-> c] \in Task
      BY DEF Task
    <2>. QED
      BY <1>2, <2>1 DEF Deliver, Become, Status
  <1>3. CASE Restart
    BY <1>3 DEF Restart, EvalRestart, RebuildRegistry, RestoredChallenges, RestoredEvaluations,
                Task, Idle, Monitor, MonIdle
  <1>. QED
    BY <1>1, <1>2, <1>3

LEMMA NextTyped == TypeOK /\ [Next]_vars => TypeOK'
  <1>1. TypeOK /\ UNCHANGED vars => TypeOK'
    BY DEF TypeOK, StoreTypeOK, EvalTypeOK, vars, storeVars, dbVars, regVars, evalVars
  <1>. QED
    BY <1>1, RequestsTyped, AssigningTyped, VotingTyped, MonitoringTyped, OtherStepsTyped
       DEF Next, EvalStep, Delivery

\* Every variable keeps its type in every behaviour.
THEOREM TypeCorrect == Spec => []TypeOK
  BY InitTyped, NextTyped, PTL DEF Spec

-----------------------------------------------------------------------------
(* The inductive invariant. JurorsOutsideTeam, PanelSize and VerdictIsEarned *)
(* are about the rows only; what makes them inductive is what the handlers   *)
(* and the monitor hold across their awaits.  It allows a challenge that is  *)
(* under evaluation to be given up, which only a step of the submission      *)
(* does, so that it serves ChallengeLifecycle, too.                          *)

\* S may sit on c.
Appointable(S, c) == S \cap Team[c] = {} /\ (S = {} \/ Cardinality(S) = JuryCount)

\* A panel is appointable, and appointed only when the challenge left COMPLETED.
Panels ==
    \A c \in Challenges :
        /\ Appointable(jury[c], c)
        /\ \/ jury[c] = {}
           \/ status[c] \in {"IN_EVALUATION", "EVALUATED", "EVALUATION_DELAYED", "NOT_COMPLETED"}

\* Only members of the panel have scored; a verdict has all of them.
Scores ==
    \A c \in Challenges :
        /\ scored[c] \subseteq jury[c]
        /\ status[c] = "EVALUATED" => jury[c] # {} /\ scored[c] = jury[c]

\* The jurors a handler took from the queue are appointable.
Picks == \A h \in Handlers : task[h].at = "save" => Appointable(task[h].picked, task[h].ch)

\* The jury rows a vote works with are stale, but only so much.
Snapshots ==
    \A h \in Handlers : task[h].at = "vote" =>
        /\ task[h].panel = {} \/ task[h].panel = jury[task[h].ch]
        /\ task[h].done \subseteq scored[task[h].ch]

\* What the monitor is about to fail was in evaluation when it looked.
Passes ==
    mon.at = "pass" => \A c \in mon.fail \cup mon.failed :
                            status[c] \in {"IN_EVALUATION", "EVALUATED", "NOT_COMPLETED"}

IInv == Panels /\ Scores /\ Picks /\ Snapshots /\ Passes

LEMMA InitIInv == Init => IInv
  BY DEF Init, EvalInit, IInv, Panels, Scores, Picks, Snapshots, Passes, Appointable, Idle, MonIdle

\* A step that leaves the rows alone keeps what is known of them.
LEMMA RowsKept == Panels /\ Scores /\ UNCHANGED dbVars => Panels' /\ Scores'
  BY DEF dbVars, Panels, Scores, Appointable

\* A handler that goes on to anything but saving a panel or casting a vote
\* keeps the two parts about handlers, if the rows stay.
LEMMA TaskKept ==
    ASSUME TypeOK, IInv, UNCHANGED dbVars, NEW h \in Handlers, NEW t,
           t.at \notin {"save", "vote"}, Become(h, t)
    PROVE  Picks' /\ Snapshots'
  <1>1. \A g \in Handlers : task'[g] = IF g = h THEN t ELSE task[g]
    BY DEF Become, TypeOK, EvalTypeOK
  <1>. QED
    BY <1>1 DEF IInv, Picks, Snapshots, Appointable, dbVars

LEMMA NextAssignmentAt == \A todo : NextAssignment(todo).at \in {"idle", "assign"}
  BY DEF NextAssignment, Idle

LEMMA PassKept == Passes /\ UNCHANGED <<status, mon>> => Passes'
  BY DEF Passes

LEMMA RequestsKeep == TypeOK /\ IInv /\ Requests => IInv'
  <1> SUFFICES ASSUME TypeOK, IInv, Requests PROVE IInv'
    OBVIOUS
  <1>0. UNCHANGED dbVars /\ UNCHANGED mon
    BY DEF Requests, JuryJoin, JuryLeave, OpenForm, SubmitForm, storeVars
  <1>1. Panels' /\ Scores' /\ Passes'
    BY <1>0, RowsKept, PassKept DEF IInv, dbVars
  <1>2. ASSUME NEW h \in Handlers, NEW u \in Users, JuryJoin(h, u) PROVE Picks' /\ Snapshots'
    <2>1. [at |-> "scan"].at \notin {"save", "vote"}
      OBVIOUS
    <2>. QED
      BY <1>0, <1>2, <2>1, TaskKept DEF JuryJoin
  <1>3. CASE UNCHANGED task
    BY <1>0, <1>1, <1>3 DEF IInv, Picks, Snapshots, Appointable, dbVars
  <1>4. ASSUME NEW h \in Handlers, NEW u \in Users, NEW c \in Challenges, SubmitForm(h, u, c)
        PROVE  Picks' /\ Snapshots'
    <2>1. \A g \in Handlers :
             task'[g] = IF g = h THEN [at |-> "vote", ch |-> c, who |-> u,
                                       panel |-> jury[c], done |-> scored[c]]
                        ELSE task[g]
      BY <1>4 DEF SubmitForm, Become, TypeOK, EvalTypeOK
    <2>. QED
      BY <1>0, <2>1 DEF IInv, Picks, Snapshots, Appointable, dbVars
  <1>. QED
    BY <1>1, <1>2, <1>3, <1>4 DEF Requests, JuryLeave, OpenForm, IInv

\* What handlers do besides taking jurors, saving a panel and voting.
LEMMA QuietStepsKeep ==
    ASSUME TypeOK, IInv, NEW h \in Handlers,
           \/ ScanWaiting(h) \/ ReEnqueueJurors(h) \/ PublishJury(h) \/ RejectVote(h)
           \/ CloseEvaluation(h) \/ CloseTimesOut(h) \/ RequestFails(h) \/ RegisterDelivered(h)
           \/ \E c \in Challenges : DeferAssignment(h, c) \/ CountJurors(h, c)
    PROVE  IInv'
  <1>1. UNCHANGED dbVars /\ UNCHANGED mon
    BY DEF ScanWaiting, ReEnqueueJurors, PublishJury, RejectVote, CloseEvaluation, CloseTimesOut,
           RequestFails, RegisterDelivered, DeferAssignment, CountJurors, storeVars
  <1>2. \E t : t.at \notin {"save", "vote"} /\ Become(h, t)
    <2>1. Idle.at = "idle"
      BY DEF Idle
    <2>2. \A todo, c : [at |-> "pop", todo |-> todo, ch |-> c].at = "pop"
      OBVIOUS
    <2>. QED
      BY <2>1, <2>2, NextAssignmentAt
         DEF ScanWaiting, ReEnqueueJurors, PublishJury, RejectVote, CloseEvaluation,
             CloseTimesOut, RequestFails, RegisterDelivered, DeferAssignment, CountJurors
  <1>3. Picks' /\ Snapshots'
    BY <1>1, <1>2, TaskKept
  <1>. QED
    BY <1>1, <1>3, RowsKept, PassKept DEF IInv, dbVars

LEMMA PopKeeps == ASSUME TypeOK, IInv, NEW h \in Handlers, PopJurors(h) PROVE IInv'
  <1>1. UNCHANGED dbVars /\ UNCHANGED mon
    BY DEF PopJurors, storeVars
  <1>2. PICK S : /\ S \cap Team[task[h].ch] = {}
                 /\ S = {} \/ Cardinality(S) = JuryCount
                 /\ Become(h, [at |-> "save", todo |-> task[h].todo, ch |-> task[h].ch, picked |-> S])
    BY DEF PopJurors, Pop, Eligible
  <1>3. \A g \in Handlers :
           task'[g] = IF g = h THEN [at |-> "save", todo |-> task[h].todo, ch |-> task[h].ch, picked |-> S]
                      ELSE task[g]
    BY <1>2 DEF Become, TypeOK, EvalTypeOK
  <1>4. Picks' /\ Snapshots'
    BY <1>1, <1>2, <1>3 DEF IInv, Picks, Snapshots, Appointable, dbVars
  <1>. QED
    BY <1>1, <1>4, RowsKept, PassKept DEF IInv, dbVars

\* The panel sits: nobody had been appointed, and no vote has seen a panel.
LEMMA SaveKeeps == ASSUME TypeOK, IInv, NEW h \in Handlers, SaveJury(h) PROVE IInv'
  <1> DEFINE c == task[h].ch
  <1>0. c \in Challenges /\ task[h].at = "save" /\ status[c] = "COMPLETED"
    BY TaskLocals DEF SaveJury, TypeOK, EvalTypeOK
  <1>1. jury[c] = {} /\ scored[c] = {} /\ Appointable(task[h].picked, c)
    BY <1>0 DEF IInv, Panels, Scores, Picks
  <1>2. /\ status' = [status EXCEPT ![c] = "IN_EVALUATION"]
        /\ jury' = [jury EXCEPT ![c] = task[h].picked]
        /\ UNCHANGED <<scored, mon>>
    BY <1>1 DEF SaveJury
  <1>3. \A g \in Handlers : \/ task'[g] = task[g]
                            \/ task'[g].at = "publish"
    <2>1. task[h] \in [at : {"save", "publish"}, todo : SUBSET Challenges, ch : Challenges,
                       picked : SUBSET Users]
      BY <1>0 DEF TypeOK, EvalTypeOK, Task
    <2>2. [task[h] EXCEPT !.at = "publish"].at = "publish"
      BY <2>1
    <2>. QED
      BY <2>2 DEF SaveJury, Become, TypeOK, EvalTypeOK
  <1> HIDE DEF c
  <1>4. Panels' /\ Scores' /\ Passes'
    BY <1>0, <1>1, <1>2 DEF IInv, Panels, Scores, Passes, Appointable, TypeOK, StoreTypeOK
  <1>5. Picks'
    BY <1>3 DEF IInv, Picks, Appointable
  <1>6. ASSUME NEW g \in Handlers, task'[g].at = "vote"
        PROVE  /\ task'[g].panel = {} \/ task'[g].panel = jury'[task'[g].ch]
               /\ task'[g].done \subseteq scored'[task'[g].ch]
    <2>1. task'[g] = task[g] /\ task[g].ch \in Challenges
      BY <1>3, <1>6, TaskLocals DEF TypeOK, EvalTypeOK
    <2>2. /\ task[g].panel = {} \/ task[g].panel = jury[task[g].ch]
          /\ task[g].done \subseteq scored[task[g].ch]
      BY <1>6, <2>1 DEF IInv, Snapshots
    <2>3. jury'[task[g].ch] = IF task[g].ch = c THEN task[h].picked ELSE jury[task[g].ch]
      BY <1>2, <2>1 DEF TypeOK, StoreTypeOK
    <2>. QED
      BY <1>1, <1>2, <2>1, <2>2, <2>3
  <1>. QED
    BY <1>4, <1>5, <1>6 DEF IInv, Snapshots

\* The last vote of a stale snapshot is the last vote of the rows, too: what the
\* snapshot holds is in the rows, and the rows hold nobody from outside the panel.
LEMMA VoteKeeps == ASSUME TypeOK, IInv, NEW h \in Handlers, CastVote(h) PROVE IInv'
  <1> DEFINE c == task[h].ch
             u == task[h].who
  <1>0. c \in Challenges /\ u \in Users /\ task[h].at = "vote"
    BY TaskLocals DEF CastVote, VoteAccepted, TypeOK, EvalTypeOK
  <1>1. task[h].panel = jury[c] /\ u \in jury[c] /\ task[h].done \subseteq scored[c]
    BY <1>0 DEF CastVote, VoteAccepted, IInv, Snapshots
  <1>2. scored' = [scored EXCEPT ![c] = scored[c] \cup {u}] /\ UNCHANGED <<jury, mon>>
    BY DEF CastVote
  <1>3. \/ UNCHANGED status
        \/ /\ status' = [status EXCEPT ![c] = "EVALUATED"]
           /\ scored[c] \cup {u} = jury[c]
    BY <1>0, <1>1 DEF CastVote, IsLastJury, IInv, Scores
  <1>4. status[c] = "IN_EVALUATION"
    BY <1>0, <1>1 DEF CastVote, VoteAccepted, IInv, Panels
  <1>5. \A g \in Handlers : task'[g] = task[g] \/ task'[g].at \in {"idle", "close"}
    BY DEF CastVote, Become, TypeOK, EvalTypeOK, Idle
  <1> HIDE DEF c, u
  <1>6. Panels'
    BY <1>0, <1>2, <1>3, <1>4 DEF IInv, Panels, Appointable, TypeOK, StoreTypeOK
  <1>10. Passes'
    BY <1>0, <1>2, <1>3, <1>4 DEF IInv, Passes, TypeOK, StoreTypeOK, EvalTypeOK, Monitor
  <1>7. Scores'
    BY <1>0, <1>1, <1>2, <1>3, <1>4 DEF IInv, Scores, TypeOK, StoreTypeOK
  <1>8. Picks'
    BY <1>5 DEF IInv, Picks, Appointable
  <1>9. Snapshots'
    <2>1. \A d \in Challenges : scored[d] \subseteq scored'[d]
      BY <1>0, <1>2 DEF TypeOK, StoreTypeOK
    <2>. QED
      BY <1>2, <1>5, <2>1, TaskLocals DEF IInv, Snapshots, TypeOK, EvalTypeOK
  <1>. QED
    BY <1>6, <1>7, <1>8, <1>9, <1>10 DEF IInv

LEMMA MonitoringKeeps == TypeOK /\ IInv /\ Monitoring => IInv'
  <1> SUFFICES ASSUME TypeOK, IInv, Monitoring PROVE IInv'
    OBVIOUS
  <1>0. UNCHANGED <<jury, scored, task>>
    BY DEF Monitoring, StartPass, CommitPass, PassFails, FailEvaluation, SendReminder, storeVars, dbVars
  <1>1. Picks' /\ Snapshots'
    BY <1>0 DEF IInv, Picks, Snapshots, Appointable
  <1>2. CASE StartPass
    BY <1>1, <1>2, RowsKept DEF StartPass, IInv, Passes, storeVars, dbVars
  <1>3. CASE PassFails
    BY <1>1, <1>3, RowsKept DEF PassFails, IInv, Passes, MonIdle, storeVars
  <1>4. ASSUME NEW c \in Challenges, FailEvaluation(c) \/ SendReminder(c) PROVE IInv'
    <2>1. UNCHANGED dbVars /\ mon.at = "pass"
      BY <1>4 DEF FailEvaluation, SendReminder, storeVars
    <2>2. mon'.fail \cup mon'.failed \subseteq mon.fail \cup mon.failed
      <3>1. mon \in [at : {"pass"}, fail : SUBSET Challenges, remind : SUBSET Challenges,
                     failed : SUBSET Challenges, sent : SUBSET Challenges]
        BY <2>1 DEF TypeOK, EvalTypeOK, Monitor
      <3>2. CASE FailEvaluation(c)
        <4>1. mon'.fail = mon.fail \ {c} /\ mon'.failed = mon.failed \cup {c} /\ c \in mon.fail
          BY <3>1, <3>2 DEF FailEvaluation
        <4>. QED
          BY <4>1
      <3>3. CASE SendReminder(c)
        BY <3>1, <3>3 DEF SendReminder
      <3>. QED
        BY <1>4, <3>2, <3>3
    <2>3. Passes'
      BY <2>1, <2>2 DEF IInv, Passes, dbVars
    <2>. QED
      BY <1>1, <2>1, <2>3, RowsKept DEF IInv
  <1>5. CASE CommitPass
    <2>1. \A c \in Challenges : \/ status'[c] = status[c]
                              \/ /\ status[c] \in {"IN_EVALUATION", "EVALUATED", "NOT_COMPLETED"}
                                 /\ status'[c] = "EVALUATION_DELAYED"
      BY <1>5 DEF CommitPass, IInv, Passes
    <2>2. Panels' /\ Scores'
      BY <1>0, <2>1 DEF IInv, Panels, Scores, Appointable
    <2>3. Passes'
      BY <1>5 DEF CommitPass, MonIdle, Passes
    <2>. QED
      BY <1>1, <2>2, <2>3 DEF IInv
  <1>. QED
    BY <1>2, <1>3, <1>4, <1>5 DEF Monitoring

LEMMA OtherStepsKeep ==
    ASSUME TypeOK, IInv,
           \/ \E c \in Challenges : Wait(c) \/ \E h \in Handlers : Deliver(h, c)
           \/ Restart
    PROVE  IInv'
  <1>1. ASSUME NEW c \in Challenges, Wait(c) PROVE IInv'
    BY <1>1, RowsKept, PassKept DEF Wait, IInv, Picks, Snapshots, Appointable, storeVars, dbVars
  <1>2. ASSUME NEW c \in Challenges, NEW h \in Handlers, Deliver(h, c) PROVE IInv'
    <2>1. /\ status' = [status EXCEPT ![c] = "COMPLETED"] /\ status[c] = "STARTED"
          /\ UNCHANGED <<jury, scored, mon>>
      BY <1>2 DEF Deliver
    <2>2. \A g \in Handlers : task'[g] = task[g] \/ task'[g].at = "register"
      BY <1>2 DEF Deliver, Become, TypeOK, EvalTypeOK
    <2>3. Panels' /\ Scores' /\ Passes'
      BY <2>1 DEF IInv, Panels, Scores, Passes, Appointable, TypeOK, StoreTypeOK
    <2>4. Picks' /\ Snapshots'
      BY <2>1, <2>2 DEF IInv, Picks, Snapshots, Appointable
    <2>. QED
      BY <2>3, <2>4 DEF IInv
  <1>3. CASE Restart
    BY <1>3, RowsKept DEF Restart, EvalRestart, IInv, Picks, Snapshots, Passes, Idle, MonIdle
  <1>. QED
    BY <1>1, <1>2, <1>3

LEMMA NextKeeps == TypeOK /\ IInv /\ [Next]_vars => IInv'
  <1>1. IInv /\ UNCHANGED vars => IInv'
    BY DEF IInv, Panels, Scores, Picks, Snapshots, Passes, Appointable,
           vars, storeVars, dbVars, regVars, evalVars
  <1>. QED
    BY <1>1, RequestsKeep, QuietStepsKeep, PopKeeps, SaveKeeps, VoteKeeps, MonitoringKeeps,
       OtherStepsKeep
       DEF Next, EvalStep, Delivery, Assigning, Voting

\* What the handlers and the monitor hold across their awaits always fits the rows.
THEOREM Invariant == Spec => []IInv
  BY InitIInv, NextKeeps, TypeCorrect, PTL DEF Spec

-----------------------------------------------------------------------------
(* What the invariant says of the rows                                      *)

\* However many requests, restarts and failures there are, nobody judges a
\* project of a team they are a member of.
THEOREM NoJurorOfOwnTeam == Spec => []JurorsOutsideTeam
  <1>1. IInv => JurorsOutsideTeam
    BY DEF IInv, Panels, Appointable, JurorsOutsideTeam
  <1>. QED
    BY <1>1, Invariant, PTL

\* Concurrent assignments never add up to a larger panel.
THEOREM PanelsComplete == Spec => []PanelSize
  <1>1. IInv => PanelSize
    BY DEF IInv, Panels, Appointable, PanelSize
  <1>. QED
    BY <1>1, Invariant, PTL

\* A verdict has the score of every member of a panel that is not empty, however
\* stale the rows were that the votes were counted with.
THEOREM VerdictsEarned == Spec => []VerdictIsEarned
  <1>1. IInv => VerdictIsEarned
    BY DEF IInv, Scores, VerdictIsEarned
  <1>. QED
    BY <1>1, Invariant, PTL

-----------------------------------------------------------------------------
(* What a step may do to the rows                                           *)

\* The steps of this module alone give nothing up.
NothingGivenUp == \A c \in Challenges : status[c] # "NOT_COMPLETED"

\* Only three steps of the evaluation write to the rows, and the delivery does.
LEMMA StepsOnRows ==
    ASSUME EvalStep
    PROVE  UNCHANGED dbVars \/ CommitPass \/ \E h \in Handlers : SaveJury(h) \/ CastVote(h)
  <1>1. Requests => UNCHANGED dbVars
    BY DEF Requests, JuryJoin, JuryLeave, OpenForm, SubmitForm, storeVars
  <1>2. Monitoring => CommitPass \/ UNCHANGED dbVars
    BY DEF Monitoring, StartPass, PassFails, FailEvaluation, SendReminder, storeVars
  <1>3. \A h \in Handlers : Assigning(h) => SaveJury(h) \/ UNCHANGED dbVars
    BY DEF Assigning, ScanWaiting, PopJurors, ReEnqueueJurors, PublishJury, DeferAssignment,
           CountJurors, storeVars
  <1>4. \A h \in Handlers : Voting(h) \/ RequestFails(h) => CastVote(h) \/ UNCHANGED dbVars
    BY DEF Voting, RejectVote, CloseEvaluation, CloseTimesOut, RequestFails, storeVars
  <1>5. \A c \in Challenges : Wait(c) => UNCHANGED dbVars
    BY DEF Wait, storeVars
  <1>. QED
    BY <1>1, <1>2, <1>3, <1>4, <1>5 DEF EvalStep

LEMMA OnlyFourSteps ==
    ASSUME [Next]_vars
    PROVE  \/ UNCHANGED dbVars
           \/ CommitPass
           \/ \E h \in Handlers : SaveJury(h) \/ CastVote(h) \/ \E c \in Challenges : Deliver(h, c)
  <1>1. UNCHANGED vars \/ Restart => UNCHANGED dbVars
    BY DEF Restart, vars, storeVars
  <1>2. \A h \in Handlers : RegisterDelivered(h) => UNCHANGED dbVars
    BY DEF RegisterDelivered
  <1>. QED
    BY <1>1, <1>2, StepsOnRows DEF Next, Delivery

\* Every step leaves stage, panels and scores alone, or is one of the four
\* steps EvaluationPromise allows.
LEMMA PromisedStep ==
    ASSUME TypeOK, IInv, NothingGivenUp, [Next]_vars
    PROVE  \/ UNCHANGED <<Stage, jury, scored>>
           \/ Promise!Next
  <1>1. CASE UNCHANGED dbVars
    BY <1>1 DEF dbVars, Stage
  <1>2. ASSUME NEW h \in Handlers, NEW c \in Challenges, Deliver(h, c) PROVE Promise!Submit(c)
    <2>1. /\ status[c] = "STARTED" /\ status' = [status EXCEPT ![c] = "COMPLETED"]
          /\ UNCHANGED <<jury, scored>>
      BY <1>2 DEF Deliver
    <2>2. Stage[c] = "working"
      BY <2>1 DEF Stage
    <2>3. Stage' = [Stage EXCEPT ![c] = "waiting"]
      BY <2>1 DEF Stage, TypeOK, StoreTypeOK
    <2>. QED
      BY <2>1, <2>2, <2>3 DEF Promise!Submit
  <1>3. ASSUME NEW h \in Handlers, SaveJury(h)
        PROVE  \E c \in Challenges, P \in SUBSET Users : Promise!Appoint(c, P)
    <2> DEFINE c == task[h].ch
               P == task[h].picked
    <2>1. c \in Challenges /\ P \in SUBSET Users /\ task[h].at = "save"
      BY <1>3, TaskLocals DEF SaveJury, TypeOK, EvalTypeOK
    <2>2. status[c] = "COMPLETED" /\ jury[c] = {} /\ Appointable(P, c)
      BY <1>3, <2>1 DEF SaveJury, IInv, Panels, Picks
    <2>3. /\ status' = [status EXCEPT ![c] = "IN_EVALUATION"]
          /\ jury' = [jury EXCEPT ![c] = P] /\ UNCHANGED scored
      BY <1>3, <2>2 DEF SaveJury
    <2> HIDE DEF c, P
    <2>4. Stage[c] = "waiting"
      BY <2>1, <2>2 DEF Stage
    <2>5. Stage' = [Stage EXCEPT ![c] = "sitting"]
      BY <2>1, <2>3 DEF Stage, TypeOK, StoreTypeOK
    <2>6. P = {} \/ Promise!Cardinality(P) = JuryCount
      BY <2>2 DEF Appointable, Cardinality, Promise!Cardinality
    <2>7. Promise!Appoint(c, P)
      BY <2>2, <2>3, <2>4, <2>5, <2>6 DEF Promise!Appoint, Appointable
    <2>. QED
      BY <2>1, <2>7
  <1>4. ASSUME NEW h \in Handlers, CastVote(h)
        PROVE  \E c \in Challenges, u \in Users : Promise!Vote(c, u)
    <2> DEFINE c == task[h].ch
               u == task[h].who
    <2>1. c \in Challenges /\ u \in Users /\ task[h].at = "vote"
      BY <1>4, TaskLocals DEF CastVote, VoteAccepted, TypeOK, EvalTypeOK
    <2>2. task[h].panel = jury[c] /\ u \in jury[c] /\ task[h].done \subseteq scored[c]
      BY <1>4, <2>1 DEF CastVote, VoteAccepted, IInv, Snapshots
    <2>3. status[c] = "IN_EVALUATION"
      BY <1>4, <2>1, <2>2 DEF CastVote, VoteAccepted, IInv, Panels
    <2>4. scored' = [scored EXCEPT ![c] = scored[c] \cup {u}] /\ UNCHANGED jury
      BY <1>4 DEF CastVote
    <2>5. \/ UNCHANGED status
          \/ /\ status' = [status EXCEPT ![c] = "EVALUATED"]
             /\ scored[c] \cup {u} = jury[c]
      BY <1>4, <2>1, <2>2 DEF CastVote, IsLastJury, IInv, Scores
    <2> HIDE DEF c, u
    <2>6. Stage[c] = "sitting"
      BY <2>1, <2>3 DEF Stage
    <2>7. \/ UNCHANGED Stage
          \/ Stage' = [Stage EXCEPT ![c] = "decided"] /\ scored'[c] = jury[c]
      <3>1. CASE UNCHANGED status
        BY <3>1 DEF Stage
      <3>2. CASE status' = [status EXCEPT ![c] = "EVALUATED"] /\ scored[c] \cup {u} = jury[c]
        BY <2>1, <2>4, <3>2 DEF Stage, TypeOK, StoreTypeOK
      <3>. QED
        BY <2>5, <3>1, <3>2
    <2>8. Promise!Vote(c, u)
      BY <2>2, <2>4, <2>6, <2>7 DEF Promise!Vote
    <2>. QED
      BY <2>1, <2>8
  <1>5. CASE CommitPass
    <2> DEFINE S == mon.failed
    <2>1. S \in SUBSET Challenges /\ \A c \in S : status[c] \in {"IN_EVALUATION", "EVALUATED"}
      BY <1>5 DEF CommitPass, TypeOK, EvalTypeOK, Monitor, IInv, Passes, NothingGivenUp
    <2>2. /\ status' = [c \in Challenges |-> IF c \in S THEN "EVALUATION_DELAYED" ELSE status[c]]
          /\ UNCHANGED <<jury, scored>>
      BY <1>5 DEF CommitPass
    <2> HIDE DEF S
    <2>3. \A c \in S : Stage[c] \in {"sitting", "decided"}
      BY <2>1 DEF Stage
    <2>4. Stage' = [c \in Challenges |-> IF c \in S THEN "lapsed" ELSE Stage[c]]
      BY <2>1, <2>2 DEF Stage
    <2>5. Promise!Lapse(S)
      BY <2>2, <2>3, <2>4 DEF Promise!Lapse
    <2>. QED
      BY <2>1, <2>5 DEF Promise!Next
  <1>. QED
    BY <1>1, <1>2, <1>3, <1>4, <1>5, OnlyFourSteps DEF Promise!Next

LEMMA NothingGivenUpKept ==
    ASSUME TypeOK, NothingGivenUp, [Next]_vars
    PROVE  NothingGivenUp'
  <1>1. CASE UNCHANGED status
    BY <1>1 DEF NothingGivenUp
  <1>2. CASE CommitPass
    BY <1>2 DEF CommitPass, NothingGivenUp
  <1>3. ASSUME NEW h \in Handlers, SaveJury(h) \/ CastVote(h) \/ \E c \in Challenges : Deliver(h, c)
        PROVE  NothingGivenUp'
    BY <1>3 DEF SaveJury, CastVote, Deliver, NothingGivenUp, TypeOK, StoreTypeOK
  <1>. QED
    BY <1>1, <1>2, <1>3, OnlyFourSteps DEF dbVars

\* Without the submission no challenge is given up.
THEOREM NeverGivenUp == Spec => []NothingGivenUp
  <1>1. Init => NothingGivenUp
    BY DEF Init, NothingGivenUp
  <1>2. TypeOK /\ NothingGivenUp /\ [Next]_vars => NothingGivenUp'
    BY NothingGivenUpKept
  <1>. QED
    BY <1>1, <1>2, TypeCorrect, PTL DEF Spec

\* The service implements EvaluationPromise: queues, forms, threads and timers
\* never make a challenge take a step the promise does not have.
THEOREM PromiseKept == Spec => KeepsPromise
  <1>1. Init => Promise!Init
    BY DEF Init, Promise!Init, Stage
  <1>2. TypeOK /\ IInv /\ NothingGivenUp /\ [Next]_vars => [Promise!Next]_(Promise!promiseVars)
    BY PromisedStep DEF Promise!promiseVars
  <1>. QED
    BY <1>1, <1>2, NeverGivenUp, TypeCorrect, Invariant, PTL DEF Spec, KeepsPromise, Promise!Spec

LEMMA PanelKeptByStep ==
    ASSUME TypeOK, IInv, EvalStep
    PROVE  PanelKept
  <1> SUFFICES ASSUME NEW c \in Challenges
               PROVE  (jury[c] # {} => jury'[c] = jury[c]) /\ scored[c] \subseteq scored'[c]
    BY DEF PanelKept
  <1>1. CASE UNCHANGED <<jury, scored>>
    BY <1>1
  <1>2. ASSUME NEW h \in Handlers, SaveJury(h)
        PROVE  (jury[c] # {} => jury'[c] = jury[c]) /\ scored[c] \subseteq scored'[c]
    <2>1. jury[task[h].ch] = {} \/ task[h].ch \notin Challenges
      BY <1>2 DEF SaveJury, IInv, Panels
    <2>. QED
      BY <1>2, <2>1 DEF SaveJury, TypeOK, StoreTypeOK
  <1>3. ASSUME NEW h \in Handlers, CastVote(h)
        PROVE  jury'[c] = jury[c] /\ scored[c] \subseteq scored'[c]
    BY <1>3 DEF CastVote, TypeOK, StoreTypeOK
  <1>4. CommitPass \/ UNCHANGED dbVars => UNCHANGED <<jury, scored>>
    BY DEF CommitPass, dbVars
  <1>. QED
    BY <1>1, <1>2, <1>3, <1>4, StepsOnRows

\* A panel keeps its members and a stored score stays, through restarts, failed
\* transactions and concurrent assignments.
THEOREM PanelsFinal == Spec => PanelFinal
  <1>1. ASSUME TypeOK, IInv, Next PROVE PanelKept
    <2>1. CASE UNCHANGED <<jury, scored>>
      BY <2>1 DEF PanelKept
    <2>2. Delivery \/ Restart => UNCHANGED <<jury, scored>>
      BY DEF Delivery, RegisterDelivered, Deliver, Restart, dbVars
    <2>. QED
      BY <1>1, <2>1, <2>2, PanelKeptByStep DEF Next
  <1>2. TypeOK /\ IInv /\ [Next]_vars => [PanelKept]_vars
    BY <1>1
  <1>. QED
    BY <1>2, TypeCorrect, Invariant, PTL DEF Spec, PanelFinal

-----------------------------------------------------------------------------
(* What a step of the evaluation does, for the proofs of ChallengeLifecycle  *)

Ended(c) == status[c] \in {"EVALUATED", "NOT_COMPLETED", "EVALUATION_DELAYED"}

\* How a step may change the row of c.
RowMove(c) ==
    \/ status'[c] = status[c] /\ (c \in ech' <=> c \in ech)
    \/ /\ status[c] = "COMPLETED" /\ status'[c] = "IN_EVALUATION" /\ (c \in ech' <=> c \in ech)
       /\ \E h \in Handlers : task[h].at = "save" /\ task[h].ch = c
    \/ /\ status[c] \in {"COMPLETED", "IN_EVALUATION"} /\ status'[c] = "EVALUATED"
       /\ (c \in ech' <=> c \in ech)
    \/ status[c] \in {"IN_EVALUATION", "EVALUATED", "NOT_COMPLETED"} /\ status'[c] = "EVALUATION_DELAYED"

LEMMA RowsMove ==
    ASSUME TypeOK, IInv, EvalStep, NEW c \in Challenges
    PROVE  RowMove(c) /\ cch' = cch /\ (c \in ech' => c \in ech)
  <1> USE DEF TypeOK, StoreTypeOK
  <1>1. CASE UNCHANGED dbVars
    BY <1>1 DEF dbVars, RowMove
  <1>2. CASE CommitPass
    BY <1>2 DEF CommitPass, RowMove, IInv, Passes
  <1>3. ASSUME NEW h \in Handlers, SaveJury(h) \/ CastVote(h)
        PROVE  RowMove(c) /\ cch' = cch /\ (c \in ech' => c \in ech)
    BY <1>3 DEF SaveJury, CastVote, VoteAccepted, RowMove
  <1>. QED
    BY <1>1, <1>2, <1>3, StepsOnRows

\* The challenges a handler is going to assign a jury to.
Assigned(t) ==
    IF t.at = "assign" THEN t.todo
    ELSE IF t.at \in {"pop", "save", "publish"} THEN t.todo \cup {t.ch}
    ELSE {}

LEMMA AssignedNext == \A todo : Assigned(NextAssignment(todo)) = todo
  BY DEF Assigned, NextAssignment, Idle

\* A handler assigns what it had to assign, or what it finds waiting.
LEMMA AssignedFrom ==
    ASSUME TypeOK, EvalStep, NEW g \in Handlers
    PROVE  Assigned(task'[g]) \subseteq
               Assigned(task[g]) \cup {c \in ech : status[c] = "COMPLETED"}
  <1> DEFINE Found == {c \in ech : status[c] = "COMPLETED"}
             Kept(h) == \E t : Become(h, t) /\ Assigned(t) \subseteq Assigned(task[h]) \cup Found
  <1>1. ASSUME NEW h \in Handlers, Kept(h)
        PROVE  Assigned(task'[g]) \subseteq Assigned(task[g]) \cup Found
    <2>1. PICK t : Become(h, t) /\ Assigned(t) \subseteq Assigned(task[h]) \cup Found
      BY <1>1
    <2>2. task'[g] = IF g = h THEN t ELSE task[g]
      BY <2>1 DEF Become, TypeOK, EvalTypeOK
    <2>. QED
      BY <2>1, <2>2
  <1>2. UNCHANGED task => Assigned(task'[g]) \subseteq Assigned(task[g]) \cup Found
    OBVIOUS
  <1>3. Assigned(Idle) = {} /\ Assigned([at |-> "scan"]) = {}
    BY DEF Assigned, Idle
  <1>4. ASSUME NEW h \in Handlers, Assigning(h) PROVE Kept(h)
    <2>1. CASE ScanWaiting(h)
      BY <2>1, AssignedNext DEF ScanWaiting
    <2>2. CASE PopJurors(h)
      <3>1. PICK S : Become(h, [at |-> "save", todo |-> task[h].todo, ch |-> task[h].ch, picked |-> S])
        BY <2>2 DEF PopJurors
      <3>2. Assigned([at |-> "save", todo |-> task[h].todo, ch |-> task[h].ch, picked |-> S])
              = Assigned(task[h])
        BY <2>2 DEF PopJurors, Assigned
      <3>. QED
        BY <3>1, <3>2
    <2>3. CASE SaveJury(h)
      <3>1. task[h] \in [at : {"save", "publish"}, todo : SUBSET Challenges, ch : Challenges,
                         picked : SUBSET Users]
        BY <2>3 DEF SaveJury, TypeOK, EvalTypeOK, Task
      <3>2. Assigned([task[h] EXCEPT !.at = "publish"]) = Assigned(task[h])
        BY <2>3, <3>1 DEF SaveJury, Assigned
      <3>. QED
        BY <2>3, <3>2 DEF SaveJury
    <2>4. CASE ReEnqueueJurors(h) \/ PublishJury(h)
      <3>1. Become(h, NextAssignment(task[h].todo)) /\ task[h].at \in {"save", "publish"}
        BY <2>4 DEF ReEnqueueJurors, PublishJury
      <3>2. Assigned(NextAssignment(task[h].todo)) \subseteq Assigned(task[h])
        BY <3>1, AssignedNext DEF Assigned
      <3>. QED
        BY <3>1, <3>2
    <2>5. ASSUME NEW c \in Challenges, DeferAssignment(h, c) PROVE Kept(h)
      <3>1. Become(h, NextAssignment(task[h].todo \ {c})) /\ task[h].at = "assign"
        BY <2>5 DEF DeferAssignment
      <3>2. Assigned(NextAssignment(task[h].todo \ {c})) \subseteq Assigned(task[h])
        BY <3>1, AssignedNext DEF Assigned
      <3>. QED
        BY <3>1, <3>2
    <2>6. ASSUME NEW c \in Challenges, CountJurors(h, c) PROVE Kept(h)
      <3>1. /\ Become(h, [at |-> "pop", todo |-> task[h].todo \ {c}, ch |-> c])
            /\ task[h].at = "assign" /\ c \in task[h].todo
        BY <2>6 DEF CountJurors
      <3>2. Assigned([at |-> "pop", todo |-> task[h].todo \ {c}, ch |-> c]) \subseteq Assigned(task[h])
        BY <3>1 DEF Assigned
      <3>. QED
        BY <3>1, <3>2
    <2> HIDE DEF Kept
    <2>. QED
      BY <1>4, <2>1, <2>2, <2>3, <2>4, <2>5, <2>6 DEF Assigning
  <1>5. ASSUME NEW h \in Handlers, Voting(h) \/ RequestFails(h) PROVE Kept(h)
    <2>1. Become(h, Idle) \/ \E c : Become(h, [at |-> "close", ch |-> c])
      BY <1>5 DEF Voting, CastVote, RejectVote, CloseEvaluation, CloseTimesOut, RequestFails
    <2>2. \A c : Assigned([at |-> "close", ch |-> c]) = {}
      BY DEF Assigned
    <2>. QED
      BY <1>3, <2>1, <2>2
  <1>6. CASE Requests
    <2>1. \/ UNCHANGED task
          \/ \E h \in Handlers : Become(h, [at |-> "scan"])
          \/ \E h \in Handlers, u \in Users, c \in Challenges : SubmitForm(h, u, c)
      BY <1>6 DEF Requests, JuryJoin, JuryLeave, OpenForm
    <2>2. ASSUME NEW h \in Handlers, NEW u \in Users, NEW c \in Challenges, SubmitForm(h, u, c)
          PROVE  Kept(h)
      <3>1. Assigned([at |-> "vote", ch |-> c, who |-> u, panel |-> jury[c], done |-> scored[c]]) = {}
        BY DEF Assigned
      <3>. QED
        BY <2>2, <3>1 DEF SubmitForm
    <2>3. ASSUME NEW h \in Handlers, Become(h, [at |-> "scan"]) PROVE Kept(h)
      BY <1>3, <2>3
    <2> HIDE DEF Kept
    <2>. QED
      BY <1>1, <1>2, <2>1, <2>2, <2>3
  <1>7. Monitoring \/ (\E c \in Challenges : Wait(c)) => UNCHANGED task
    BY DEF Monitoring, StartPass, CommitPass, PassFails, FailEvaluation, SendReminder, Wait
  <1> HIDE DEF Kept, Found
  <1>8. CASE \E h \in Handlers : Assigning(h) \/ Voting(h) \/ RequestFails(h)
    BY <1>1, <1>4, <1>5, <1>8 DEF Found
  <1>. QED
    BY <1>2, <1>6, <1>7, <1>8 DEF EvalStep, Found

\* A thread that closes a channel has ended the evaluation.
LEMMA ClosingFrom ==
    ASSUME TypeOK, EvalStep, NEW g \in Handlers, task'[g].at = "close"
    PROVE  task'[g] = task[g] \/ status'[task'[g].ch] = "EVALUATED"
  <1>1. UNCHANGED task => task'[g] = task[g]
    OBVIOUS
  <1>2. ASSUME NEW h \in Handlers, NEW t, t.at # "close", Become(h, t)
        PROVE  task'[g] = task[g]
    <2>1. task'[g] = IF g = h THEN t ELSE task[g]
      BY <1>2 DEF Become, TypeOK, EvalTypeOK
    <2>. QED
      BY <1>2, <2>1
  <1>3. /\ \A todo : NextAssignment(todo).at # "close"
        /\ Idle.at # "close" /\ [at |-> "scan"].at # "close"
        /\ \A todo, c : [at |-> "pop", todo |-> todo, ch |-> c].at # "close"
        /\ \A todo, c, S : [at |-> "save", todo |-> todo, ch |-> c, picked |-> S].at # "close"
        /\ \A c, u, P, D : [at |-> "vote", ch |-> c, who |-> u, panel |-> P, done |-> D].at # "close"
    BY NextAssignmentAt DEF Idle
  <1>4. ASSUME NEW h \in Handlers, Assigning(h) PROVE task'[g] = task[g]
    <2>1. CASE ScanWaiting(h) \/ ReEnqueueJurors(h) \/ PublishJury(h)
      <3>1. \E todo : Become(h, NextAssignment(todo))
        BY <2>1 DEF ScanWaiting, ReEnqueueJurors, PublishJury
      <3>. QED
        BY <1>2, <1>3, <3>1
    <2>2. CASE PopJurors(h)
      BY <1>2, <1>3, <2>2 DEF PopJurors
    <2>3. CASE SaveJury(h)
      <3>1. task[h] \in [at : {"save", "publish"}, todo : SUBSET Challenges, ch : Challenges,
                         picked : SUBSET Users]
        BY <2>3 DEF SaveJury, TypeOK, EvalTypeOK, Task
      <3>2. [task[h] EXCEPT !.at = "publish"].at # "close"
        BY <3>1
      <3>. QED
        BY <1>2, <2>3, <3>2 DEF SaveJury
    <2>4. ASSUME NEW c \in Challenges, DeferAssignment(h, c) \/ CountJurors(h, c)
          PROVE  task'[g] = task[g]
      BY <1>2, <1>3, <2>4 DEF DeferAssignment, CountJurors
    <2>. QED
      BY <1>4, <2>1, <2>2, <2>3, <2>4 DEF Assigning
  <1>5. ASSUME NEW h \in Handlers, CastVote(h) PROVE task'[g] = task[g] \/ status'[task'[g].ch] = "EVALUATED"
    <2>1. task[h].ch \in Challenges
      BY <1>5, TaskLocals DEF CastVote, VoteAccepted, TypeOK, EvalTypeOK
    <2>2. CASE IsLastJury(h)
      <3>1. /\ status' = [status EXCEPT ![task[h].ch] = "EVALUATED"]
            /\ task' = [task EXCEPT ![h] = [at |-> "close", ch |-> task[h].ch]]
        BY <1>5, <2>2 DEF CastVote, Become
      <3>2. status'[task[h].ch] = "EVALUATED"
        BY <2>1, <3>1 DEF TypeOK, StoreTypeOK
      <3>3. task'[g] = task[g] \/ task'[g].ch = task[h].ch
        BY <3>1 DEF TypeOK, EvalTypeOK
      <3>. QED
        BY <3>2, <3>3
    <2>3. CASE ~ IsLastJury(h)
      BY <1>2, <1>3, <1>5, <2>3 DEF CastVote
    <2>. QED
      BY <2>2, <2>3
  <1>6. ASSUME NEW h \in Handlers,
               RejectVote(h) \/ CloseEvaluation(h) \/ CloseTimesOut(h) \/ RequestFails(h)
        PROVE  task'[g] = task[g]
    BY <1>2, <1>3, <1>6 DEF RejectVote, CloseEvaluation, CloseTimesOut, RequestFails
  <1>7. CASE Requests
    BY <1>1, <1>2, <1>3, <1>7 DEF Requests, JuryJoin, JuryLeave, OpenForm, SubmitForm
  <1>8. Monitoring \/ (\E c \in Challenges : Wait(c)) => UNCHANGED task
    BY DEF Monitoring, StartPass, CommitPass, PassFails, FailEvaluation, SendReminder, Wait
  <1>9. CASE \E h \in Handlers : Assigning(h) \/ Voting(h) \/ RequestFails(h)
    BY <1>4, <1>5, <1>6, <1>9 DEF Voting
  <1>. QED
    BY <1>1, <1>7, <1>8, <1>9 DEF EvalStep

\* The channels the monitor has taken out of the registry, before it commits.
Failed == IF mon.at = "pass" THEN mon.failed ELSE {}

\* Only the end of an evaluation takes its channel out of the registry.
LEMMA RegistryMoves ==
    ASSUME TypeOK, EvalStep, NEW c \in Challenges
    PROVE  /\ chReg' = chReg
           /\ c \in evReg => \/ c \in evReg' \/ c \in Failed'
                             \/ \E h \in Handlers : task[h].at = "close" /\ task[h].ch = c
           /\ c \in Failed /\ "db" \notin Faults
                => c \in Failed' \/ status'[c] = "EVALUATION_DELAYED"
  <1> USE DEF TypeOK, StoreTypeOK, EvalTypeOK
  <1>1. CASE UNCHANGED <<regVars, mon>>
    BY <1>1 DEF regVars, Failed
  <1>2. ASSUME NEW h \in Handlers, PublishJury(h) \/ CloseEvaluation(h)
        PROVE  /\ UNCHANGED <<chReg, mon>>
               /\ c \in evReg => \/ c \in evReg'
                                 \/ task[h].at = "close" /\ task[h].ch = c
    BY <1>2 DEF PublishJury, RegisterEvaluation, CloseEvaluation, UnregisterEvaluation
  <1>3. CASE \E h \in Handlers : PublishJury(h) \/ CloseEvaluation(h)
    BY <1>2, <1>3 DEF Failed
  <1>4. ASSUME NEW d \in Challenges, FailEvaluation(d) \/ SendReminder(d)
        PROVE  /\ chReg' = chReg
               /\ c \in evReg => c \in evReg' \/ c \in Failed'
               /\ c \in Failed => c \in Failed'
    <2>1. mon \in [at : {"pass"}, fail : SUBSET Challenges, remind : SUBSET Challenges,
                   failed : SUBSET Challenges, sent : SUBSET Challenges]
      BY <1>4 DEF FailEvaluation, SendReminder, Monitor
    <2>2. CASE FailEvaluation(d)
      <3>1. mon'.at = "pass" /\ mon'.failed = mon.failed \cup {d} /\ mon.at = "pass"
        BY <2>1, <2>2 DEF FailEvaluation
      <3>2. chReg' = chReg /\ evReg \ {d} \subseteq evReg'
        BY <2>2 DEF FailEvaluation, UnregisterEvaluation
      <3>. QED
        BY <3>1, <3>2 DEF Failed
    <2>3. CASE SendReminder(d)
      <3>1. mon'.at = "pass" /\ mon'.failed = mon.failed /\ mon.at = "pass"
        BY <2>1, <2>3 DEF SendReminder
      <3>. QED
        BY <2>3, <3>1 DEF SendReminder, storeVars, regVars, Failed
    <2>. QED
      BY <1>4, <2>2, <2>3
  <1>5. CASE StartPass \/ CommitPass \/ PassFails
    BY <1>5 DEF StartPass, CommitPass, PassFails, storeVars, regVars, MonIdle, Failed
  <1>6. \A h \in Handlers : Assigning(h) => PublishJury(h) \/ UNCHANGED <<regVars, mon>>
    BY DEF Assigning, ScanWaiting, PopJurors, SaveJury, ReEnqueueJurors, DeferAssignment,
           CountJurors, storeVars
  <1>7. \A h \in Handlers : Voting(h) \/ RequestFails(h)
                             => CloseEvaluation(h) \/ UNCHANGED <<regVars, mon>>
    BY DEF Voting, CastVote, RejectVote, CloseTimesOut, RequestFails, storeVars
  <1>8. Requests \/ (\E d \in Challenges : Wait(d)) => UNCHANGED <<regVars, mon>>
    BY DEF Requests, JuryJoin, JuryLeave, OpenForm, SubmitForm, Wait, storeVars
  <1>. QED
    BY <1>1, <1>3, <1>4, <1>5, <1>6, <1>7, <1>8 DEF EvalStep, Monitoring

-----------------------------------------------------------------------------
(* No challenge is overlooked, with one request at a time or one challenge.  *)
(* With more of both it may be, see the README: one assignment defers a      *)
(* challenge while another holds the jurors that it needs and puts back.     *)

\* A handler that will still look whether c can have its jury.
Sees(t, c) ==
    \/ t.at = "scan"
    \/ t.at \in {"assign", "pop", "save", "publish"} /\ c \in t.todo
    \/ t.at \in {"register", "pop", "save"} /\ c = t.ch

\* The jurors a handler has taken and may have to put back.
Held(t) == IF t.at = "save" THEN t.picked ELSE {}

InHand == UNION {Held(task[h]) : h \in Handlers}

Looked(c) ==
    \/ Cardinality((jq \cup InHand) \ Team[c]) < JuryCount
    \/ \E h \in Handlers : Sees(task[h], c)

NoneMissed == \A c \in ech : status[c] = "COMPLETED" => Looked(c)

OneOfOne == \A g, h \in Handlers, c, d \in Challenges : g = h \/ c = d

LEMMA HeldTyped == TypeOK => jq \cup InHand \subseteq Users
  BY TaskLocals DEF TypeOK, EvalTypeOK, InHand, Held

LEMMA FewerAreFew ==
    ASSUME NEW S \in SUBSET Users, NEW T \in SUBSET S, Cardinality(S) < JuryCount
    PROVE  Cardinality(T) < JuryCount
  <1>1. IsFiniteSet(S)
    BY StoreAssumption, FS_Subset
  <1>2. /\ IsFiniteSet(T) /\ Cardinality(T) <= Cardinality(S)
        /\ Cardinality(S) \in Nat /\ Cardinality(T) \in Nat
    BY <1>1, FS_Subset, FS_CardinalityType
  <1>. QED
    BY <1>2, StoreAssumption

\* What a step of one handler has to keep.
LEMMA LookedByOne ==
    ASSUME TypeOK, NEW h \in Handlers, NEW t, Become(h, t), NEW c \in Challenges, Looked(c),
           jq' \cup Held(t) \subseteq jq \cup Held(task[h]),
           Sees(task[h], c) => Sees(t, c)
    PROVE  Looked(c)'
  <1>1. \A g \in Handlers : task'[g] = IF g = h THEN t ELSE task[g]
    BY DEF Become, TypeOK, EvalTypeOK
  <1>2. CASE \E g \in Handlers : Sees(task[g], c)
    <2>1. PICK g \in Handlers : Sees(task'[g], c)
      BY <1>1, <1>2
    <2>2. (\E f \in Handlers : Sees(task[f], c))'
      BY <2>1 DEF Sees
    <2>. QED
      BY <2>2 DEF Looked
  <1>3. CASE Cardinality((jq \cup InHand) \ Team[c]) < JuryCount
    <2>1. InHand' = UNION {Held(task'[g]) : g \in Handlers}
      BY DEF InHand, Held
    <2>2. (jq \cup InHand)' \subseteq jq \cup InHand
      BY <1>1, <2>1 DEF InHand
    <2>3. (jq \cup InHand) \ Team[c] \subseteq Users
      BY HeldTyped
    <2>4. ((jq \cup InHand)' \ Team[c]) \subseteq ((jq \cup InHand) \ Team[c])
      BY <2>2
    <2>5. Cardinality((jq \cup InHand)' \ Team[c]) < JuryCount
      BY <1>3, <2>3, <2>4, FewerAreFew
    <2>. QED
      BY <2>5 DEF Looked
  <1>. QED
    BY <1>2, <1>3 DEF Looked

LEMMA SeesNext == \A todo, c : c \in todo => Sees(NextAssignment(todo), c)
  BY DEF Sees, NextAssignment

LEMMA HeldNone ==
    /\ \A todo : Held(NextAssignment(todo)) = {}
    /\ Held(Idle) = {} /\ Held([at |-> "scan"]) = {}
  BY NextAssignmentAt DEF Held, Idle

\* Between two challenges of a walk nobody else holds the juror that is missed.
LEMMA DeferKeepsLooked ==
    ASSUME TypeOK, OneOfOne, NEW h \in Handlers, NEW d \in Challenges, DeferAssignment(h, d),
           NEW c \in Challenges, Looked(c)
    PROVE  Looked(c)'
  <1> DEFINE t == NextAssignment(task[h].todo \ {d})
  <1>1. Become(h, t) /\ jq' = jq /\ Held(t) = {} /\ task[h].at = "assign"
    BY HeldNone DEF DeferAssignment
  <1>2. CASE c # d
    <2>1. Sees(task[h], c) => Sees(t, c)
      BY <1>1, <1>2, SeesNext DEF Sees
    <2> HIDE DEF t
    <2>. QED
      BY <1>1, <2>1, LookedByOne
  <1>3. CASE c = d
    <2>1. CASE \E g \in Handlers : Held(task[g]) # {}
      <3>1. PICK g \in Handlers : Held(task[g]) # {}
        BY <2>1
      <3>2. g # h /\ task[g].at = "save"
        BY <1>1, <3>1 DEF Held
      <3>3. task[g].ch = c
        BY <3>2, TaskLocals DEF OneOfOne, TypeOK, EvalTypeOK
      <3>4. task'[g] = task[g]
        BY <1>1, <3>2 DEF Become, TypeOK, EvalTypeOK
      <3>5. Sees(task[g], c)'
        BY <3>2, <3>3, <3>4 DEF Sees
      <3>. QED
        BY <3>5 DEF Looked
    <2>2. CASE \A g \in Handlers : Held(task[g]) = {}
      <3>1. \A g \in Handlers : task'[g] = IF g = h THEN t ELSE task[g]
        BY <1>1 DEF Become, TypeOK, EvalTypeOK
      <3>2. InHand' = UNION {Held(task'[g]) : g \in Handlers}
        BY DEF InHand, Held
      <3>3. InHand' = {}
        BY <1>1, <2>2, <3>1, <3>2
      <3>4. (jq \cup InHand)' \ Team[c] = Eligible(c)
        BY <1>1, <3>3 DEF Eligible
      <3>5. Cardinality((jq \cup InHand)' \ Team[c]) < JuryCount
        BY <1>3, <3>4 DEF DeferAssignment
      <3>. QED
        BY <3>5 DEF Looked
    <2>. QED
      BY <2>1, <2>2
  <1>. QED
    BY <1>2, <1>3

LEMMA AssigningKeepsLooked ==
    ASSUME TypeOK, OneOfOne, NEW h \in Handlers, Assigning(h), NEW c \in Challenges, Looked(c),
           c \in ech, status[c] = "COMPLETED", status'[c] = "COMPLETED"
    PROVE  Looked(c)'
  <1>1. CASE ScanWaiting(h)
    <2>1. PICK t : /\ t = NextAssignment({d \in ech : status[d] = "COMPLETED"})
                   /\ Become(h, t) /\ jq' = jq
      BY <1>1 DEF ScanWaiting
    <2>2. Sees(t, c) /\ Held(t) = {}
      BY <2>1, SeesNext, HeldNone
    <2>. QED
      BY <2>1, <2>2, LookedByOne
  <1>2. CASE PopJurors(h)
    <2>1. PICK S, t : /\ S \subseteq jq /\ jq' = jq \ S /\ Become(h, t)
                      /\ t = [at |-> "save", todo |-> task[h].todo, ch |-> task[h].ch, picked |-> S]
      BY <1>2 DEF PopJurors, Pop, Eligible
    <2>2. Held(t) = S /\ (Sees(task[h], c) => Sees(t, c))
      BY <1>2, <2>1 DEF PopJurors, Held, Sees
    <2>. QED
      BY <2>1, <2>2, LookedByOne
  <1>3. CASE SaveJury(h)
    <2>1. task[h] \in [at : {"save", "publish"}, todo : SUBSET Challenges, ch : Challenges,
                       picked : SUBSET Users]
      BY <1>3 DEF SaveJury, TypeOK, EvalTypeOK, Task
    <2>2. PICK t : t = [task[h] EXCEPT !.at = "publish"] /\ Become(h, t) /\ jq' = jq
      BY <1>3 DEF SaveJury
    <2>3. t.at = "publish" /\ t.todo = task[h].todo
      BY <2>1, <2>2
    <2>4. c # task[h].ch
      BY <1>3 DEF SaveJury, TypeOK, StoreTypeOK
    <2>5. Held(t) = {} /\ (Sees(task[h], c) => Sees(t, c))
      BY <1>3, <2>3, <2>4 DEF SaveJury, Held, Sees
    <2>. QED
      BY <2>2, <2>5, LookedByOne
  <1>4. CASE ReEnqueueJurors(h) \/ PublishJury(h)
    <2>1. PICK t : t = NextAssignment(task[h].todo) /\ Become(h, t)
      BY <1>4 DEF ReEnqueueJurors, PublishJury
    <2>2. Held(t) = {} /\ jq' \subseteq jq \cup Held(task[h])
      BY <1>4, <2>1, HeldNone DEF ReEnqueueJurors, PublishJury, Held
    <2>3. Sees(task[h], c) => Sees(t, c)
      BY <1>4, <2>1, SeesNext DEF ReEnqueueJurors, PublishJury, Sees
    <2>. QED
      BY <2>1, <2>2, <2>3, LookedByOne
  <1>5. ASSUME NEW d \in Challenges, CountJurors(h, d) PROVE Looked(c)'
    <2>1. PICK t : /\ t = [at |-> "pop", todo |-> task[h].todo \ {d}, ch |-> d]
                   /\ Become(h, t) /\ jq' = jq
      BY <1>5 DEF CountJurors
    <2>2. Held(t) = {} /\ (Sees(task[h], c) => Sees(t, c))
      BY <1>5, <2>1 DEF CountJurors, Held, Sees
    <2>. QED
      BY <2>1, <2>2, LookedByOne
  <1>. QED
    BY <1>1, <1>2, <1>3, <1>4, <1>5, DeferKeepsLooked DEF Assigning

\* What one evaluation step does to a challenge that waits.
LEMMA EvaluationKeepsLooked ==
    ASSUME TypeOK, OneOfOne, "db" \notin Faults, "slack" \notin Faults, EvalStep,
           NEW c \in Challenges, Looked(c), c \in ech, status[c] = "COMPLETED", status'[c] = "COMPLETED"
    PROVE  Looked(c)'
  <1>1. ASSUME UNCHANGED task, jq' \subseteq jq PROVE Looked(c)'
    <2>1. (jq \cup InHand) \ Team[c] \subseteq Users
      BY HeldTyped
    <2>2. ((jq \cup InHand)' \ Team[c]) \subseteq ((jq \cup InHand) \ Team[c])
      BY <1>1 DEF InHand, Held
    <2>3. Cardinality((jq \cup InHand) \ Team[c]) < JuryCount
            => Cardinality((jq \cup InHand)' \ Team[c]) < JuryCount
      BY <2>1, <2>2, FewerAreFew
    <2>. QED
      BY <1>1, <2>3 DEF Looked, Sees
  <1>2. ASSUME NEW h \in Handlers, NEW t, Become(h, t), jq' = jq, Held(t) = {},
               task[h].at \notin {"scan", "register", "assign", "pop", "save", "publish"}
        PROVE  Looked(c)'
    BY <1>2, LookedByOne DEF Sees
  <1>3. CASE Requests
    <2>1. CASE \E u \in Users : JuryLeave(u)
      BY <1>1, <2>1 DEF JuryLeave
    <2>2. CASE \E u \in Users, d \in Challenges : OpenForm(u, d)
      BY <1>1, <2>2 DEF OpenForm
    <2>3. ASSUME NEW h \in Handlers, NEW u \in Users, JuryJoin(h, u) PROVE Looked(c)'
      <3>1. task'[h] = [at |-> "scan"]
        BY <2>3 DEF JuryJoin, Become, TypeOK, EvalTypeOK
      <3>2. Sees(task[h], c)'
        BY <3>1 DEF Sees
      <3>. QED
        BY <3>2 DEF Looked
    <2>4. ASSUME NEW h \in Handlers, NEW u \in Users, NEW d \in Challenges, SubmitForm(h, u, d)
          PROVE  Looked(c)'
      <3>1. PICK t : /\ t = [at |-> "vote", ch |-> d, who |-> u, panel |-> jury[d], done |-> scored[d]]
                     /\ Become(h, t)
        BY <2>4 DEF SubmitForm
      <3>2. Held(t) = {} /\ task[h].at = "idle"
        BY <2>4, <3>1 DEF SubmitForm, Held, Idle
      <3>. QED
        BY <1>2, <2>4, <3>1, <3>2 DEF SubmitForm
    <2>. QED
      BY <1>3, <2>1, <2>2, <2>3, <2>4 DEF Requests
  <1>4. CASE Monitoring \/ \E d \in Challenges : Wait(d)
    <2>1. UNCHANGED <<task, jq>>
      BY <1>4 DEF Monitoring, StartPass, CommitPass, PassFails, FailEvaluation, SendReminder, Wait
    <2>. QED
      BY <1>1, <2>1
  <1>5. ASSUME NEW h \in Handlers, Voting(h) PROVE Looked(c)'
    <2>1. PICK t : Become(h, t) /\ (t = Idle \/ \E d : t = [at |-> "close", ch |-> d])
      BY <1>5 DEF Voting, CastVote, RejectVote, CloseEvaluation, CloseTimesOut
    <2>2. Held(t) = {}
      BY <2>1, HeldNone DEF Held
    <2>3. jq' = jq /\ task[h].at \in {"vote", "close"}
      BY <1>5 DEF Voting, CastVote, VoteAccepted, RejectVote, CloseEvaluation, CloseTimesOut
    <2>. QED
      BY <1>2, <2>1, <2>2, <2>3
  <1>6. \A h \in Handlers : ~ RequestFails(h)
    BY DEF RequestFails
  <1>. QED
    BY <1>3, <1>4, <1>5, <1>6, AssigningKeepsLooked DEF EvalStep

LEMMA NextMissesNone ==
    ASSUME TypeOK, IInv, OneOfOne, "db" \notin Faults, "slack" \notin Faults, NoneMissed, [Next]_vars
    PROVE  NoneMissed'
  <1> SUFFICES ASSUME NEW c \in Challenges, c \in ech', status'[c] = "COMPLETED" PROVE Looked(c)'
    BY NextTyped DEF NoneMissed, TypeOK, StoreTypeOK
  <1>1. CASE EvalStep
    <2>1. c \in ech /\ status[c] = "COMPLETED"
      BY <1>1, RowsMove DEF RowMove
    <2>. QED
      BY <1>1, <2>1, EvaluationKeepsLooked DEF NoneMissed
  <1>2. ASSUME NEW h \in Handlers, NEW d \in Challenges, Deliver(h, d) PROVE Looked(c)'
    <2>1. PICK t : t = [at |-> "register", ch |-> d] /\ Become(h, t) /\ jq' = jq
      BY <1>2 DEF Deliver
    <2>2. CASE c = d
      <3>1. task'[h] = t
        BY <2>1 DEF Become, TypeOK, EvalTypeOK
      <3>2. Sees(task[h], c)'
        BY <2>1, <2>2, <3>1 DEF Sees
      <3>. QED
        BY <3>2 DEF Looked
    <2>3. CASE c # d
      <3>1. c \in ech /\ status[c] = "COMPLETED"
        BY <1>2, <2>3 DEF Deliver, TypeOK, StoreTypeOK
      <3>2. Held(t) = {} /\ ~ Sees(task[h], c)
        BY <1>2, <2>1 DEF Deliver, Held, Sees, Idle
      <3>. QED
        BY <2>1, <3>1, <3>2, LookedByOne DEF NoneMissed
    <2>. QED
      BY <2>2, <2>3
  <1>3. ASSUME NEW h \in Handlers, RegisterDelivered(h) PROVE Looked(c)'
    <2>1. PICK t : t = NextAssignment({task[h].ch}) /\ Become(h, t) /\ jq' = jq
      BY <1>3 DEF RegisterDelivered
    <2>2. Held(t) = {} /\ (Sees(task[h], c) => Sees(t, c))
      BY <1>3, <2>1, HeldNone, SeesNext DEF RegisterDelivered, Sees
    <2>. QED
      BY <1>3, <2>1, <2>2, LookedByOne DEF NoneMissed, RegisterDelivered, dbVars
  <1>4. CASE Restart
    <2>1. jq' = {} /\ \A h \in Handlers : task'[h] = Idle
      BY <1>4 DEF Restart, EvalRestart
    <2>2. InHand' = {}
      BY <2>1, HeldNone DEF InHand, Held
    <2>3. (jq \cup InHand)' \ Team[c] = {}
      BY <2>1, <2>2
    <2>4. Cardinality((jq \cup InHand)' \ Team[c]) < JuryCount
      BY <2>3, FS_EmptySet, StoreAssumption
    <2>. QED
      BY <2>4 DEF Looked
  <1>5. CASE UNCHANGED vars
    <2>1. UNCHANGED <<status, ech, jq, task>>
      BY <1>5 DEF vars, storeVars, dbVars, evalVars
    <2>2. /\ InHand' = InHand
          /\ \A h \in Handlers : Sees(task[h], c)' <=> Sees(task[h], c)
      BY <2>1 DEF InHand, Held, Sees
    <2>. QED
      BY <2>1, <2>2 DEF NoneMissed, Looked
  <1>. QED
    BY <1>1, <1>2, <1>3, <1>4, <1>5 DEF Next, Delivery

\* Whatever joins and leaves, and whenever the service is restarted: when
\* nothing is going on, no delivered challenge waits beside enough jurors, as
\* long as the service handles one request at a time or there is one challenge,
\* no session fails, and Slack takes the answer to /jury join.
THEOREM NobodyStranded ==
    ASSUME OneOfOne, "db" \notin Faults, "slack" \notin Faults
    PROVE  Spec => []NoStrandedChallenge
  <1>1. Init => NoneMissed
    BY DEF Init, NoneMissed
  <1>2. TypeOK /\ IInv /\ NoneMissed /\ [Next]_vars => NoneMissed'
    BY NextMissesNone
  <1>3. TypeOK /\ NoneMissed => NoStrandedChallenge
    <2> SUFFICES ASSUME TypeOK, NoneMissed, Quiescent, NEW c \in ech, status[c] = "COMPLETED"
                 PROVE  Cardinality(Eligible(c)) < JuryCount
      BY DEF NoStrandedChallenge
    <2>1. \A h \in Handlers : ~ Sees(task[h], c)
      BY DEF Quiescent, Sees, Idle
    <2>2. Cardinality((jq \cup InHand) \ Team[c]) < JuryCount
      BY <2>1 DEF NoneMissed, Looked
    <2>3. (jq \cup InHand) \ Team[c] \subseteq Users
      BY HeldTyped
    <2>4. Eligible(c) \subseteq (jq \cup InHand) \ Team[c]
      BY DEF Eligible
    <2>. QED
      BY <2>2, <2>3, <2>4, FewerAreFew
  <1>. QED
    BY <1>1, <1>2, <1>3, TypeCorrect, Invariant, PTL DEF Spec

-----------------------------------------------------------------------------
(* The registered jury of a channel, for the proofs of ChannelGuard.  With   *)
(* two requests at a time RegisterDelivered may empty a jury that another    *)
(* request has published: see the README, known gaps.                        *)

OneHandler == \A g, h \in Handlers : g = h

\* A channel is registered before its challenge can have a panel, a panel is
\* published as it was stored, and what is registered lists the panel unless it
\* is about to be published.
Listed ==
    /\ \A h \in Handlers :
          /\ task[h].at = "register" => jury[task[h].ch] = {}
          /\ task[h].at = "publish" => jury[task[h].ch] = task[h].picked
    /\ \A c \in evReg :
          \/ jury[c] \subseteq evJury[c]
          \/ \E h \in Handlers : task[h].at = "publish" /\ task[h].ch = c

LEMMA InitListed == Init => Listed
  BY DEF Init, EvalInit, Listed, Idle

LEMMA ListedElsewhere ==
    ASSUME Listed, UNCHANGED <<jury, regVars>>, NEW h \in Handlers, OneHandler, TypeOK,
           task[h].at \notin {"publish"} \/ task[h].ch \notin evReg,
           NEW t, Become(h, t), t.at \notin {"register", "publish"}
    PROVE  Listed'
  <1>1. \A g \in Handlers : g = h /\ task'[g] = t
    BY DEF Become, TypeOK, EvalTypeOK, OneHandler
  <1>2. \A c \in evReg : jury[c] \subseteq evJury[c]
    BY <1>1 DEF Listed
  <1>. QED
    BY <1>1, <1>2 DEF Listed, regVars

LEMMA ListedUnmoved ==
    ASSUME Listed, UNCHANGED <<jury, task, chReg>>, evReg' \subseteq evReg,
           \A c \in evReg' : evJury'[c] = evJury[c]
    PROVE  Listed'
  BY DEF Listed

LEMMA AssigningKeepsListed ==
    ASSUME TypeOK, IInv, OneHandler, Listed, NEW h \in Handlers, Assigning(h)
    PROVE  Listed'
  <1>0. task[h] \in Task /\ \A g \in Handlers : g = h
    BY DEF TypeOK, EvalTypeOK, OneHandler
  <1>1. CASE ScanWaiting(h) \/ ReEnqueueJurors(h) \/ \E c \in Challenges : DeferAssignment(h, c)
    <2>1. PICK todo : Become(h, NextAssignment(todo))
      BY <1>1 DEF ScanWaiting, ReEnqueueJurors, DeferAssignment
    <2>2. task[h].at # "publish" /\ UNCHANGED <<jury, regVars>>
      BY <1>1 DEF ScanWaiting, ReEnqueueJurors, DeferAssignment, storeVars, dbVars
    <2>. QED
      BY <2>1, <2>2, NextAssignmentAt, ListedElsewhere
  <1>2. CASE PopJurors(h) \/ \E c \in Challenges : CountJurors(h, c)
    <2>1. PICK t : Become(h, t) /\ t.at \in {"pop", "save"}
      <3>1. CASE PopJurors(h)
        <4>1. PICK S : Become(h, [at |-> "save", todo |-> task[h].todo, ch |-> task[h].ch,
                                  picked |-> S])
          BY <3>1 DEF PopJurors
        <4>2. [at |-> "save", todo |-> task[h].todo, ch |-> task[h].ch, picked |-> S].at = "save"
          OBVIOUS
        <4>. QED
          BY <4>1, <4>2
      <3>2. ASSUME NEW c \in Challenges, CountJurors(h, c)
            PROVE  \E t : Become(h, t) /\ t.at \in {"pop", "save"}
        <4>1. [at |-> "pop", todo |-> task[h].todo \ {c}, ch |-> c].at = "pop"
          OBVIOUS
        <4>. QED
          BY <3>2, <4>1 DEF CountJurors
      <3>. QED
        BY <1>2, <3>1, <3>2
    <2>2. task[h].at # "publish" /\ UNCHANGED <<jury, regVars>>
      BY <1>2 DEF PopJurors, CountJurors, storeVars, dbVars
    <2>. QED
      BY <2>1, <2>2, ListedElsewhere
  <1>3. CASE SaveJury(h)
    <2>1. task[h] \in [at : {"save", "publish"}, todo : SUBSET Challenges, ch : Challenges,
                       picked : SUBSET Users]
      BY <1>0, <1>3 DEF SaveJury, Task
    <2>2. /\ task'[h].at = "publish" /\ task'[h].ch = task[h].ch
          /\ task'[h].picked = task[h].picked
      BY <1>3, <2>1 DEF SaveJury, Become, TypeOK, EvalTypeOK
    <2>3. jury[task[h].ch] = {}
      BY <1>3, <2>1 DEF SaveJury, IInv, Panels
    <2>4. /\ jury'[task[h].ch] = task[h].picked
          /\ \A c \in Challenges \ {task[h].ch} : jury'[c] = jury[c]
          /\ UNCHANGED regVars
      BY <1>3, <2>1, <2>3 DEF SaveJury, TypeOK, StoreTypeOK
    <2>5. \A c \in evReg \ {task[h].ch} : jury[c] \subseteq evJury[c]
      BY <1>0, <1>3 DEF Listed, SaveJury
    <2>. QED
      BY <1>0, <2>2, <2>4, <2>5 DEF Listed, regVars, TypeOK, StoreTypeOK
  <1>4. CASE PublishJury(h)
    <2>1. PICK c \in Challenges : c = task[h].ch
      BY <1>0, <1>4, TaskLocals DEF PublishJury
    <2>2. jury[c] = task[h].picked /\ \A d \in evReg \ {c} : jury[d] \subseteq evJury[d]
      BY <1>0, <1>4, <2>1 DEF Listed, PublishJury
    <2>3. /\ jury' = jury /\ evReg' = evReg \cup {c}
          /\ evJury' = [evJury EXCEPT ![c] = task[h].picked]
      BY <1>4, <2>1 DEF PublishJury, RegisterEvaluation, dbVars
    <2>4. \A d \in evReg' : jury'[d] \subseteq evJury'[d]
      BY <2>2, <2>3 DEF TypeOK, StoreTypeOK
    <2>5. task'[h] = NextAssignment(task[h].todo)
      BY <1>4 DEF PublishJury, Become, TypeOK, EvalTypeOK
    <2>. QED
      BY <1>0, <2>4, <2>5, NextAssignmentAt DEF Listed
  <1>. QED
    BY <1>1, <1>2, <1>3, <1>4 DEF Assigning

LEMMA NextKeepsListed ==
    ASSUME TypeOK, IInv, OneHandler, Listed, [Next]_vars
    PROVE  Listed'
  <1>1. CASE UNCHANGED <<jury, regVars, task>>
    BY <1>1, ListedUnmoved DEF regVars
  <1>2. CASE Requests
    <2>1. ASSUME NEW h \in Handlers, NEW u \in Users, JuryJoin(h, u) PROVE Listed'
      BY <2>1, ListedElsewhere DEF JuryJoin, Idle, storeVars, dbVars
    <2>2. ASSUME NEW h \in Handlers, NEW u \in Users, NEW c \in Challenges, SubmitForm(h, u, c)
          PROVE  Listed'
      BY <2>2, ListedElsewhere DEF SubmitForm, Idle, storeVars, dbVars
    <2>3. \A u \in Users : /\ JuryLeave(u) => UNCHANGED <<jury, regVars, task>>
                           /\ \A c \in Challenges : OpenForm(u, c) => UNCHANGED <<jury, regVars, task>>
      BY DEF JuryLeave, OpenForm, storeVars, dbVars
    <2>. QED
      BY <1>1, <1>2, <2>1, <2>2, <2>3 DEF Requests
  <1>3. CASE Monitoring
    <2>1. ASSUME NEW c \in Challenges, FailEvaluation(c) PROVE Listed'
      <3>1. /\ UNCHANGED <<jury, task, chReg>> /\ evReg' \subseteq evReg
            /\ \A d \in evReg' : evJury'[d] = evJury[d]
        BY <2>1 DEF FailEvaluation, UnregisterEvaluation, dbVars, TypeOK, StoreTypeOK
      <3>. QED
        BY <3>1, ListedUnmoved
    <2>2. StartPass \/ CommitPass \/ PassFails \/ (\E c \in Challenges : SendReminder(c))
            => UNCHANGED <<jury, regVars, task>>
      BY DEF StartPass, CommitPass, PassFails, SendReminder, storeVars, dbVars
    <2>. QED
      BY <1>1, <1>3, <2>1, <2>2 DEF Monitoring
  <1>4. ASSUME NEW h \in Handlers, Voting(h) PROVE Listed'
    <2>1. CASE CastVote(h)
      <3>1. PICK t : Become(h, t) /\ (t = Idle \/ \E c : t = [at |-> "close", ch |-> c])
        BY <2>1 DEF CastVote
      <3>2. t.at \notin {"register", "publish"}
        BY <3>1 DEF Idle
      <3>. QED
        BY <2>1, <3>1, <3>2, ListedElsewhere DEF CastVote, VoteAccepted
    <2>2. CASE RejectVote(h) \/ CloseTimesOut(h)
      BY <2>2, ListedElsewhere DEF RejectVote, CloseTimesOut, Idle, storeVars, dbVars
    <2>3. CASE CloseEvaluation(h)
      <3>1. \A g \in Handlers : g = h /\ task[g].at # "publish" /\ task'[g] = Idle
        BY <2>3 DEF CloseEvaluation, Become, TypeOK, EvalTypeOK, OneHandler
      <3>2. /\ jury' = jury /\ evReg' \subseteq evReg
            /\ \A d \in evReg' : evJury'[d] = evJury[d]
        BY <2>3 DEF CloseEvaluation, UnregisterEvaluation, dbVars, TypeOK, StoreTypeOK
      <3>. QED
        BY <3>1, <3>2 DEF Listed, Idle
    <2>. QED
      BY <1>4, <2>1, <2>2, <2>3 DEF Voting
  <1>5. ASSUME NEW h \in Handlers, RequestFails(h) PROVE Listed'
    BY <1>5, ListedElsewhere DEF RequestFails, Idle, storeVars, dbVars
  <1>6. ASSUME NEW c \in Challenges, Wait(c) PROVE Listed'
    BY <1>1, <1>6 DEF Wait, storeVars, dbVars
  <1>7. ASSUME NEW h \in Handlers, NEW c \in Challenges, Deliver(h, c) PROVE Listed'
    <2>1. jury[c] = {} /\ UNCHANGED <<jury, regVars>>
      BY <1>7 DEF Deliver, IInv, Panels
    <2>2. \A g \in Handlers : g = h /\ task[g].at = "idle" /\ task'[g] = [at |-> "register", ch |-> c]
      BY <1>7 DEF Deliver, Become, Idle, TypeOK, EvalTypeOK, OneHandler
    <2>. QED
      BY <2>1, <2>2 DEF Listed, regVars
  <1>8. ASSUME NEW h \in Handlers, RegisterDelivered(h) PROVE Listed'
    <2>1. PICK c \in Challenges : c = task[h].ch
      BY <1>8, TaskLocals DEF RegisterDelivered, TypeOK, EvalTypeOK
    <2>2. /\ \A g \in Handlers : g = h
          /\ jury[c] = {} /\ \A d \in evReg \ {c} : jury[d] \subseteq evJury[d]
      BY <1>8, <2>1 DEF Listed, RegisterDelivered, OneHandler
    <2>3. /\ jury' = jury /\ evReg' = evReg \cup {c}
          /\ evJury' = [evJury EXCEPT ![c] = {}]
      BY <1>8, <2>1 DEF RegisterDelivered, RegisterEvaluation, dbVars
    <2>4. \A d \in evReg' : jury'[d] \subseteq evJury'[d]
      BY <2>2, <2>3 DEF TypeOK, StoreTypeOK
    <2>5. task'[h] = NextAssignment({c})
      BY <1>8, <2>1 DEF RegisterDelivered, Become, TypeOK, EvalTypeOK
    <2>. QED
      BY <2>2, <2>4, <2>5, NextAssignmentAt DEF Listed
  <1>9. CASE Restart
    BY <1>9 DEF Restart, EvalRestart, RebuildRegistry, RestoredEvaluations, dbVars, Listed, Idle,
                TypeOK, StoreTypeOK
  <1>10. CASE UNCHANGED vars
    BY <1>1, <1>10 DEF vars, storeVars, dbVars, evalVars
  <1>. QED
    BY <1>2, <1>3, <1>4, <1>5, <1>6, <1>7, <1>8, <1>9, <1>10, AssigningKeepsListed
       DEF Next, EvalStep, Delivery
=============================================================================
