---------------------------- MODULE JuryEvaluation ----------------------------
(***************************************************************************)
(* How a submitted challenge gets its jury and its score: the jury queue,  *)
(* the assignment coroutine, the evaluation forms and the evaluation       *)
(* monitor, all working on the tables and the registry of ChallengeStore.  *)
(*                                                                         *)
(* A Slack request runs in a thread of its own, its coroutines on one      *)
(* shared event loop: between two awaits no other coroutine runs, but      *)
(* another request's thread may.  A step below is what happens between two *)
(* awaits, or between two points where another thread can be observed.     *)
(***************************************************************************)
EXTENDS ChallengeStore

VARIABLES
    jq,      \* members of jury_queue; any of them may be popped
    forms,   \* <<u, c>>: u has the evaluation form of c on the screen
    task,    \* what each handler is doing
    age,     \* time since evaluation_started_at: 0, 1 (reminder) or 2 (fail)
    reminded,\* challenges whose meta holds evaluation_reminder_sent
    mon      \* the running pass of the evaluation monitor

evalVars == <<jq, forms, task, age, reminded, mon>>

Ages == 0..2

\* A handler and the locals it holds across awaits. todo is what is left of
\* the list _try_assign_waiting_challenges walks through.
Idle == [at |-> "idle"]
Task == [at : {"idle", "scan"}]
    \cup [at : {"register", "close"}, ch : Challenges]
    \cup [at : {"assign"}, todo : SUBSET Challenges]
    \cup [at : {"pop"}, todo : SUBSET Challenges, ch : Challenges]
    \cup [at : {"save", "publish"}, todo : SUBSET Challenges, ch : Challenges,
          picked : SUBSET Users]
    \cup [at : {"vote"}, ch : Challenges, who : Users,
          panel : SUBSET Users, done : SUBSET Users]

\* The monitor: the challenges its query returned that are still to be failed
\* or reminded, and those it has failed or reminded but not yet committed.
MonIdle == [at |-> "idle"]
Monitor == [at : {"idle"}]
    \cup [at : {"pass"}, fail : SUBSET Challenges, remind : SUBSET Challenges,
          failed : SUBSET Challenges, sent : SUBSET Challenges]

EvalTypeOK ==
    /\ jq \subseteq Users
    /\ forms \subseteq Users \X Challenges
    /\ task \in [Handlers -> Task]
    /\ age \in [Challenges -> Ages]
    /\ reminded \subseteq Challenges
    /\ mon \in Monitor

EvalInit ==
    /\ jq = {}
    /\ forms = {}
    /\ task = [h \in Handlers |-> Idle]
    /\ age = [c \in Challenges |-> 0]
    /\ reminded = {}
    /\ mon = MonIdle

Become(h, t) == task' = [task EXCEPT ![h] = t]

\* Between count_excluding and pop_n_excluding there is no await: only the
\* threads of other requests run, never another coroutine.
LoopFree == \A g \in Handlers : task[g].at # "pop"

\* Mutant: the team is not excluded.
EligibleTeamToo(c) == jq

Eligible(c) == jq \ Team[c]

\* The next challenge of the list, or the end of the coroutine.
NextAssignment(todo) ==
    IF todo = {} THEN Idle ELSE [at |-> "assign", todo |-> todo]

-----------------------------------------------------------------------------
(* /jury join and /jury leave                                               *)

JuryJoin(h, u) ==
    /\ task[h] = Idle
    /\ u \notin jq
    /\ jq' = jq \cup {u}
    /\ Become(h, [at |-> "scan"])
    /\ UNCHANGED <<storeVars, forms, age, reminded, mon>>

JuryLeave(u) ==
    /\ u \in jq
    /\ jq' = jq \ {u}
    /\ UNCHANGED <<storeVars, forms, task, age, reminded, mon>>

\* Mutant: only one of the waiting challenges is looked at.
ScanOne(h) ==
    /\ task[h].at = "scan"
    /\ LET waiting == {c \in ech : status[c] = "COMPLETED"} IN
       \/ waiting = {} /\ Become(h, Idle)
       \/ \E c \in waiting : Become(h, NextAssignment({c}))
    /\ UNCHANGED <<storeVars, jq, forms, age, reminded, mon>>

\* _try_assign_waiting_challenges reads the challenges that wait for a jury.
ScanWaiting(h) ==
    /\ task[h].at = "scan"
    /\ Become(h, NextAssignment({c \in ech : status[c] = "COMPLETED"}))
    /\ UNCHANGED <<storeVars, jq, forms, age, reminded, mon>>

-----------------------------------------------------------------------------
(* _assign_jury_to_challenge                                                *)

\* Too few jurors outside the team: the challenge goes on waiting.
DeferAssignment(h, c) ==
    /\ task[h].at = "assign" /\ c \in task[h].todo
    /\ LoopFree
    /\ Cardinality(Eligible(c)) < JuryCount
    /\ Become(h, NextAssignment(task[h].todo \ {c}))
    /\ UNCHANGED <<storeVars, jq, forms, age, reminded, mon>>

CountJurors(h, c) ==
    /\ task[h].at = "assign" /\ c \in task[h].todo
    /\ LoopFree
    /\ Cardinality(Eligible(c)) >= JuryCount
    /\ Become(h, [at |-> "pop", todo |-> task[h].todo \ {c}, ch |-> c])
    /\ UNCHANGED <<storeVars, jq, forms, age, reminded, mon>>

\* pop_n_excluding: JuryCount eligible members leave the queue, or nobody if a
\* /jury leave got in between and there are no longer enough.
Pop(c) == {S \in SUBSET Eligible(c) : Cardinality(S) = JuryCount}

PopJurors(h) ==
    /\ task[h].at = "pop"
    /\ \E S \in IF Cardinality(Eligible(task[h].ch)) < JuryCount
                THEN {{}} ELSE Pop(task[h].ch) :
         /\ jq' = jq \ S
         /\ Become(h, [at |-> "save", todo |-> task[h].todo, ch |-> task[h].ch,
                       picked |-> S])
    /\ UNCHANGED <<storeVars, forms, age, reminded, mon>>

\* Mutant: the status is not checked again under the lock.
SaveUnchecked(h) ==
    LET c == task[h].ch IN
    /\ task[h].at = "save"
    /\ status' = [status EXCEPT ![c] = "IN_EVALUATION"]
    /\ jury' = [jury EXCEPT ![c] = @ \cup task[h].picked]
    /\ age' = [age EXCEPT ![c] = 0]
    /\ Become(h, [task[h] EXCEPT !.at = "publish"])
    /\ UNCHANGED <<cch, ech, scored, regVars, jq, forms, reminded, mon>>

\* _save, with the row locked: the panel sits.
SaveJury(h) ==
    LET c == task[h].ch IN
    /\ task[h].at = "save"
    /\ status[c] = "COMPLETED"
    /\ status' = [status EXCEPT ![c] = "IN_EVALUATION"]
    /\ jury' = [jury EXCEPT ![c] = @ \cup task[h].picked]
    /\ age' = [age EXCEPT ![c] = 0]
    /\ Become(h, [task[h] EXCEPT !.at = "publish"])
    /\ UNCHANGED <<cch, ech, scored, regVars, jq, forms, reminded, mon>>

\* Somebody else assigned a jury first: the jurors go back to the queue.
ReEnqueueJurors(h) ==
    /\ task[h].at = "save"
    /\ LoopFree
    /\ status[task[h].ch] # "COMPLETED"
    /\ jq' = jq \cup task[h].picked
    /\ Become(h, NextAssignment(task[h].todo))
    /\ UNCHANGED <<storeVars, forms, age, reminded, mon>>

\* set_evaluation_jury, or register_evaluation when the record is missing:
\* both leave a record with this jury.
PublishJury(h) ==
    /\ task[h].at = "publish"
    /\ RegisterEvaluation(task[h].ch, task[h].picked)
    /\ Become(h, NextAssignment(task[h].todo))
    /\ UNCHANGED <<dbVars, chReg, jq, forms, age, reminded, mon>>

-----------------------------------------------------------------------------
(* /challenge evaluate and the form it opens                                *)

\* The form outlives everything but its submission, and a juror who ran the
\* command twice has two of them: a form is not used up.
OpenForm(u, c) ==
    /\ c \in evReg /\ c \in ech
    /\ status[c] \in {"COMPLETED", "IN_EVALUATION"}
    /\ u \in jury[c] \ scored[c]
    /\ forms' = forms \cup {<<u, c>>}
    /\ UNCHANGED <<storeVars, jq, task, age, reminded, mon>>

\* SELECT ... FOR UPDATE OF challenges: the jury rows come from the snapshot
\* the statement takes when it starts, before it waits for the lock.
SubmitForm(h, u, c) ==
    /\ task[h] = Idle
    /\ <<u, c>> \in forms
    /\ Become(h, [at |-> "vote", ch |-> c, who |-> u,
                  panel |-> jury[c], done |-> scored[c]])
    /\ UNCHANGED <<storeVars, jq, forms, age, reminded, mon>>

\* Mutant: a vote is taken whatever the status has become.
VoteAnyStatus(h) ==
    /\ task[h].at = "vote"
    /\ task[h].who \in task[h].panel \ task[h].done

\* With the lock: the status is the current one, the jury rows are the
\* snapshot's.
VoteAccepted(h) ==
    /\ task[h].at = "vote"
    /\ status[task[h].ch] \in {"COMPLETED", "IN_EVALUATION"}
    /\ task[h].who \in task[h].panel \ task[h].done

\* Mutant: any vote counts as the last.
AnyJuryIsLast(h) == task[h].who \in task[h].panel

IsLastJury(h) == task[h].done \cup {task[h].who} = task[h].panel

\* Mutant: the scores of the snapshot are written back with the new one.
CastVoteStale(h) ==
    LET c == task[h].ch IN
    /\ VoteAccepted(h)
    /\ scored' = [scored EXCEPT ![c] = task[h].done \cup {task[h].who}]
    /\ IF IsLastJury(h)
       THEN /\ status' = [status EXCEPT ![c] = "EVALUATED"]
            /\ Become(h, [at |-> "close", ch |-> c])
       ELSE /\ Become(h, Idle)
            /\ UNCHANGED status
    /\ UNCHANGED <<cch, ech, jury, regVars, jq, forms, age, reminded, mon>>

CastVote(h) ==
    LET c == task[h].ch IN
    /\ VoteAccepted(h)
    /\ scored' = [scored EXCEPT ![c] = @ \cup {task[h].who}]
    /\ IF IsLastJury(h)
       THEN /\ status' = [status EXCEPT ![c] = "EVALUATED"]
            /\ Become(h, [at |-> "close", ch |-> c])
       ELSE /\ Become(h, Idle)
            /\ UNCHANGED status
    /\ UNCHANGED <<cch, ech, jury, regVars, jq, forms, age, reminded, mon>>

RejectVote(h) ==
    /\ task[h].at = "vote" /\ ~ VoteAccepted(h)
    /\ Become(h, Idle)
    /\ UNCHANGED <<storeVars, jq, forms, age, reminded, mon>>

\* The thread of the last juror takes the channel out of the registry.
CloseEvaluation(h) ==
    /\ task[h].at = "close"
    /\ UnregisterEvaluation(task[h].ch)
    /\ Become(h, Idle)
    /\ UNCHANGED <<dbVars, chReg, jq, forms, age, reminded, mon>>

-----------------------------------------------------------------------------
(* EvaluationMonitor.check_evaluations: one session, one commit at its end. *)

Wait(c) ==
    /\ status[c] = "IN_EVALUATION" /\ age[c] < 2
    /\ age' = [age EXCEPT ![c] = @ + 1]
    /\ UNCHANGED <<storeVars, jq, forms, task, reminded, mon>>

\* Mutant: the reminder threshold is tested before the fail threshold.
StartPassReminderFirst ==
    /\ mon = MonIdle
    /\ LET open == {c \in Challenges : status[c] = "IN_EVALUATION"} IN
       mon' = [at |-> "pass", fail |-> {},
               remind |-> {c \in open : age[c] >= 1} \ reminded,
               failed |-> {}, sent |-> {}]
    /\ UNCHANGED <<storeVars, jq, forms, task, age, reminded>>

StartPass ==
    /\ mon = MonIdle
    /\ LET open == {c \in Challenges : status[c] = "IN_EVALUATION"} IN
       mon' = [at |-> "pass",
               fail   |-> {c \in open : age[c] = 2},
               remind |-> {c \in open : age[c] = 1} \ reminded,
               failed |-> {}, sent |-> {}]
    /\ UNCHANGED <<storeVars, jq, forms, task, age, reminded>>

\* Announce and archive the channel (both awaited), then unregister it; the
\* new status stays in the session until the commit.
FailEvaluation(c) ==
    /\ mon.at = "pass" /\ c \in mon.fail
    /\ IF c \in ech THEN UnregisterEvaluation(c) ELSE UNCHANGED <<evReg, evJury>>
    /\ mon' = [mon EXCEPT !.fail = @ \ {c}, !.failed = @ \cup {c}]
    /\ UNCHANGED <<dbVars, chReg, jq, forms, task, age, reminded>>

SendReminder(c) ==
    /\ mon.at = "pass" /\ c \in mon.remind
    /\ mon' = [mon EXCEPT !.remind = @ \ {c}, !.sent = @ \cup {c}]
    /\ UNCHANGED <<storeVars, jq, forms, task, age, reminded>>

\* The commit writes the rows the pass changed whatever they hold by now.
CommitPass ==
    /\ mon.at = "pass" /\ mon.fail = {} /\ mon.remind = {}
    /\ status' = [c \in Challenges |->
                    IF c \in mon.failed THEN "EVALUATION_DELAYED" ELSE status[c]]
    /\ ech' = ech \ mon.failed
    /\ reminded' = reminded \cup mon.sent
    /\ mon' = MonIdle
    /\ UNCHANGED <<cch, jury, scored, regVars, jq, forms, task, age>>

-----------------------------------------------------------------------------
(* What can go wrong                                                        *)

\* A database error ends the coroutine: what it wrote is rolled back, and the
\* items it has popped from the queue are lost with its locals.  The answer to
\* /jury join is sent before the scan, and nothing catches its failure.
RequestFails(h) ==
    /\ \/ /\ "db" \in Faults
          /\ \/ task[h].at \in {"scan", "assign", "save", "vote"}
             \/ task[h].at = "publish" /\ task[h].ch \notin evReg
       \/ "slack" \in Faults /\ task[h].at = "scan"
    /\ Become(h, Idle)
    /\ UNCHANGED <<storeVars, jq, forms, age, reminded, mon>>

\* An exception in the pass or in its commit: the session is rolled back.
PassFails ==
    /\ "db" \in Faults
    /\ mon.at = "pass"
    /\ mon' = MonIdle
    /\ UNCHANGED <<storeVars, jq, forms, task, age, reminded>>

\* run_async gives up after 30 s: the vote is stored, the thread is gone.
CloseTimesOut(h) ==
    /\ "timeout" \in Faults
    /\ task[h].at = "close"
    /\ Become(h, Idle)
    /\ UNCHANGED <<storeVars, jq, forms, age, reminded, mon>>

\* Memory is lost; the forms are in Slack and stay.
EvalRestart ==
    /\ jq' = {}
    /\ task' = [h \in Handlers |-> Idle]
    /\ mon' = MonIdle
    /\ UNCHANGED <<forms, age, reminded>>

Restart ==
    /\ "restart" \in Faults
    /\ EvalRestart
    /\ RebuildRegistry
    /\ UNCHANGED dbVars

-----------------------------------------------------------------------------
(* The environment: ChallengeSubmission hands over a challenge.             *)

\* A submission is committed and its evaluation channel written to the row ...
Deliver(h, c) ==
    /\ task[h] = Idle
    /\ status[c] = "STARTED"
    /\ status' = [status EXCEPT ![c] = "COMPLETED"]
    /\ cch' = cch \ {c}
    /\ ech' = ech \cup {c}
    /\ Become(h, [at |-> "register", ch |-> c])
    /\ UNCHANGED <<jury, scored, regVars, jq, forms, age, reminded, mon>>

\* ... and only then registered, with an empty jury, before a jury is sought.
RegisterDelivered(h) ==
    LET c == task[h].ch IN
    /\ task[h].at = "register"
    /\ UnregisterChallenge(c)
    /\ RegisterEvaluation(c, {})
    /\ Become(h, NextAssignment({c}))
    /\ UNCHANGED <<dbVars, jq, forms, age, reminded, mon>>

-----------------------------------------------------------------------------

vars == <<storeVars, evalVars>>

Init ==
    /\ status = [c \in Challenges |-> "STARTED"]
    /\ cch = Challenges /\ chReg = Challenges
    /\ ech = {} /\ evReg = {}
    /\ jury = [c \in Challenges |-> {}]
    /\ scored = [c \in Challenges |-> {}]
    /\ evJury = [c \in Challenges |-> {}]
    /\ EvalInit

Assigning(h) ==
    \/ ScanWaiting(h) \/ PopJurors(h) \/ SaveJury(h) \/ ReEnqueueJurors(h)
    \/ PublishJury(h)
    \/ \E c \in Challenges : DeferAssignment(h, c) \/ CountJurors(h, c)

Voting(h) == CastVote(h) \/ RejectVote(h) \/ CloseEvaluation(h) \/ CloseTimesOut(h)

Monitoring ==
    \/ StartPass \/ CommitPass \/ PassFails
    \/ \E c \in Challenges : FailEvaluation(c) \/ SendReminder(c)

Requests ==
    \/ \E h \in Handlers, u \in Users : JuryJoin(h, u)
    \/ \E u \in Users : JuryLeave(u)
    \/ \E u \in Users, c \in Challenges : OpenForm(u, c)
    \/ \E h \in Handlers, u \in Users, c \in Challenges : SubmitForm(h, u, c)

EvalStep ==
    \/ Requests
    \/ Monitoring
    \/ \E h \in Handlers : Assigning(h) \/ Voting(h) \/ RequestFails(h)
    \/ \E c \in Challenges : Wait(c)

Delivery == \E h \in Handlers : RegisterDelivered(h) \/ \E c \in Challenges : Deliver(h, c)

Next == EvalStep \/ Delivery \/ Restart

Spec == Init /\ [][Next]_vars

\* The event loop runs what is started, the monitor starts its passes, time
\* passes; nobody has to join, leave, evaluate or submit.
Running(h) ==
    \/ ScanWaiting(h) \/ PopJurors(h) \/ SaveJury(h) \/ ReEnqueueJurors(h)
    \/ PublishJury(h) \/ CastVote(h) \/ RejectVote(h) \/ CloseEvaluation(h)
    \/ RegisterDelivered(h)
    \/ \E c \in Challenges : DeferAssignment(h, c) \/ CountJurors(h, c)

PassRuns == \/ StartPass \/ CommitPass
            \/ \E c \in Challenges : FailEvaluation(c) \/ SendReminder(c)

FairSpec ==
    /\ Spec
    /\ \A h \in Handlers : WF_vars(Running(h))
    /\ \A c \in Challenges : WF_vars(Wait(c))
    /\ WF_vars(PassRuns)

-----------------------------------------------------------------------------
(* Properties                                                               *)

TypeOK == StoreTypeOK /\ EvalTypeOK

\* No handler is in the middle of anything, nor is the monitor.
Quiescent == mon = MonIdle /\ \A h \in Handlers : task[h] = Idle

\* Nobody is appointed to judge a project of a team they are a member of,
\* whatever joins, leaves and re-enqueues happen around the pop.
JurorsOutsideTeam == \A c \in Challenges : jury[c] \cap Team[c] = {}

\* Two coroutines that assign a jury to the same challenge do not both: a panel
\* has evaluation_jury_count members or, after a late /jury leave, none.
PanelSize == \A c \in Challenges : jury[c] = {} \/ Cardinality(jury[c]) = JuryCount

\* A challenge is EVALUATED only by a panel all of whose members have scored it,
\* stale jury rows and repeated forms notwithstanding.
VerdictIsEarned ==
    \A c \in Challenges : status[c] = "EVALUATED" => jury[c] # {} /\ scored[c] = jury[c]

\* When nothing is going on, no challenge with an evaluation channel waits for
\* a jury while enough jurors wait for a challenge: no join is overlooked.
NoStrandedChallenge ==
    Quiescent => \A c \in ech : status[c] = "COMPLETED"
                                => Cardinality(Eligible(c)) < JuryCount

\* When nothing is going on, a sitting panel's channel is registered, so that
\* /challenge evaluate works in it.
PanelReachable ==
    Quiescent => \A c \in Challenges : status[c] = "IN_EVALUATION" => c \in evReg

\* A panel, once appointed, keeps its members, and a score once stored stays.
PanelKept ==
    \A c \in Challenges : /\ jury[c] # {} => jury'[c] = jury[c]
                          /\ scored[c] \subseteq scored'[c]
PanelFinal == [][PanelKept]_vars

\* The service keeps the promise EvaluationPromise states of the evaluation of
\* a challenge: it sees the panel, the votes, and the stage it is in.
Stage ==
    [c \in Challenges |->
        CASE status[c] = "COMPLETED"          -> "waiting"
          [] status[c] = "IN_EVALUATION"      -> "sitting"
          [] status[c] = "EVALUATED"          -> "decided"
          [] status[c] = "EVALUATION_DELAYED" -> "lapsed"
          [] OTHER                            -> "working"]

Promise == INSTANCE EvaluationPromise WITH stage <- Stage, panel <- jury, votes <- scored

KeepsPromise == Promise!Spec

\* The monitor ends every evaluation that the jury does not.
EvaluationEnds ==
    \A c \in Challenges :
        status[c] = "IN_EVALUATION" ~> status[c] \in {"EVALUATED", "EVALUATION_DELAYED"}

(* What the documentation says and the code does not keep                   *)

\* "Tum juri tamamladi, skor belirlendi": once everybody on a panel has scored,
\* the challenge has a verdict.
LastVoteDecides ==
    Quiescent => \A c \in Challenges :
        status[c] = "IN_EVALUATION" /\ jury[c] # {} => scored[c] # jury[c]

\* A challenge goes into evaluation only with enough jurors.
PanelNeverEmpty == \A c \in Challenges : status[c] = "IN_EVALUATION" => jury[c] # {}
=============================================================================
