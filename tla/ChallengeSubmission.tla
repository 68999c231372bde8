-------------------------- MODULE ChallengeSubmission --------------------------
(***************************************************************************)
(* How a challenge stops being STARTED: /challenge submit opens a window   *)
(* and posts two buttons, the form delivers the project and its handler    *)
(* opens the evaluation channel, the other button surrenders, and the      *)
(* deadline monitor closes what is overdue.                                *)
(*                                                                         *)
(* The steps are those of JuryEvaluation: what a coroutine does between    *)
(* two awaits, or a request's thread between two coroutines it waits for.  *)
(***************************************************************************)
EXTENDS ChallengeStore

CONSTANT Typed   \* the rows with a challenge_type: a category may have none

ASSUME TypedAssumption == Typed \subseteq Challenges

VARIABLES
    window,   \* challenges with an open submission window (active_state)
    buttons,  \* challenges whose channel shows the two buttons
    subForms, \* challenges with a submission form on somebody's screen
    meta,     \* Challenge.meta: who opened the form, what has been recorded
    sub,      \* what each handler is doing
    dl,       \* the running pass of the deadline monitor
    overdue   \* challenges whose end time has passed

subVars == <<window, buttons, subForms, meta, sub, dl, overdue>>

\* opener is empty or holds the one user of submission_modal_opened_by.
Meta == [opener : SUBSET Users, has : SUBSET {"submission", "surrender"}]

\* The steps of a handler, and the row it carries over an await in seen.
SubIdle == [at |-> "idle"]
Sub == [at : {"idle"}]
    \cup [at : {"offer", "accept", "create", "store", "swap", "hand", "close"},
          ch : Challenges]
    \cup [at : {"track"}, ch : Challenges, who : Users]
    \cup [at : {"opener"}, ch : Challenges, who : Users, seen : Meta]
    \cup [at : {"surrender"}, ch : Challenges, seen : Meta]
    \cup [at : {"clear"}, ch : Challenges, next : {"idle", "create", "close"}]

\* The monitor: challenges still to be expired, and those expired but not yet
\* committed.
DlIdle == [at |-> "idle"]
Deadline == [at : {"idle"}]
       \cup [at : {"pass"}, todo : SUBSET Challenges, done : SUBSET Challenges]

SubTypeOK ==
    /\ window \subseteq Challenges
    /\ buttons \subseteq Challenges
    /\ subForms \subseteq Challenges
    /\ meta \in [Challenges -> Meta]
    /\ sub \in [Handlers -> Sub]
    /\ dl \in Deadline
    /\ overdue \subseteq Challenges

SubInit ==
    /\ window = {} /\ buttons = {} /\ subForms = {}
    /\ meta = [c \in Challenges |-> [opener |-> {}, has |-> {}]]
    /\ sub = [h \in Handlers |-> SubIdle]
    /\ dl = DlIdle
    /\ overdue = {}

Goto(h, t) == sub' = [sub EXCEPT ![h] = t]

\* Mutant: the next step forgets which challenge it is about.
AfterBare(at, c) == [at |-> at]

After(at, c) == IF at = "idle" THEN SubIdle ELSE [at |-> at, ch |-> c]

-----------------------------------------------------------------------------
(* /challenge submit                                                        *)

FindStarted(h, c) ==
    /\ sub[h] = SubIdle
    /\ c \in chReg /\ c \in cch /\ status[c] = "STARTED"
    /\ Goto(h, [at |-> "offer", ch |-> c])
    /\ UNCHANGED <<storeVars, window, buttons, subForms, meta, dl, overdue>>

\* Back in the thread: unless a window is open, open one and post the buttons.
OfferSubmission(h) ==
    LET c == sub[h].ch IN
    /\ sub[h].at = "offer"
    /\ window' = window \cup {c}
    /\ buttons' = IF c \in window THEN buttons ELSE buttons \cup {c}
    /\ Goto(h, SubIdle)
    /\ UNCHANGED <<storeVars, subForms, meta, dl, overdue>>

\* Ten minutes have passed.
WindowExpires(c) ==
    /\ c \in window
    /\ window' = window \ {c}
    /\ UNCHANGED <<storeVars, buttons, subForms, meta, sub, dl, overdue>>

\* The buttons stay in the channel; the form is shown before its opener is
\* recorded.
OpenSubmissionForm(h, u, c) ==
    /\ sub[h] = SubIdle
    /\ c \in buttons /\ c \in window
    /\ subForms' = subForms \cup {c}
    /\ Goto(h, [at |-> "track", ch |-> c, who |-> u])
    /\ UNCHANGED <<storeVars, window, buttons, meta, dl, overdue>>

\* _track_modal_open reads the row ...
ReadOpener(h) ==
    LET c == sub[h].ch IN
    /\ sub[h].at = "track"
    /\ \/ /\ meta[c].opener = {}
          /\ Goto(h, [at |-> "opener", ch |-> c, who |-> sub[h].who, seen |-> meta[c]])
       \/ /\ meta[c].opener # {}
          /\ Goto(h, SubIdle)
    /\ UNCHANGED <<storeVars, window, buttons, subForms, meta, dl, overdue>>

\* ... and stores the whole of the meta it read, with the opener added.
WriteOpener(h) ==
    /\ sub[h].at = "opener"
    /\ meta' = [meta EXCEPT ![sub[h].ch] =
                    [sub[h].seen EXCEPT !.opener = {sub[h].who}]]
    /\ Goto(h, SubIdle)
    /\ UNCHANGED <<storeVars, window, buttons, subForms, dl, overdue>>

-----------------------------------------------------------------------------
(* team_submission_view                                                     *)

SubmitProject(h, c) ==
    /\ sub[h] = SubIdle
    /\ c \in subForms /\ c \in window
    /\ Goto(h, [at |-> "accept", ch |-> c])
    /\ UNCHANGED <<storeVars, window, buttons, subForms, meta, dl, overdue>>

\* Mutant: the status is read before the lock is waited for.
AcceptAny(h) ==
    LET c == sub[h].ch IN
    /\ sub[h].at = "accept"
    /\ status' = [status EXCEPT ![c] = "COMPLETED"]
    /\ meta' = [meta EXCEPT ![c].has = @ \cup {"submission"}]
    /\ Goto(h, [at |-> "clear", ch |-> c, next |-> "create"])
    /\ UNCHANGED <<cch, ech, jury, scored, regVars,
                   window, buttons, subForms, dl, overdue>>

\* _process_submission: the row is read with the lock held.
AcceptSubmission(h) ==
    LET c == sub[h].ch IN
    /\ sub[h].at = "accept"
    /\ status[c] = "STARTED"
    /\ status' = [status EXCEPT ![c] = "COMPLETED"]
    /\ meta' = [meta EXCEPT ![c].has = @ \cup {"submission"}]
    /\ Goto(h, [at |-> "clear", ch |-> c, next |-> "create"])
    /\ UNCHANGED <<cch, ech, jury, scored, regVars,
                   window, buttons, subForms, dl, overdue>>

RejectSubmission(h) ==
    LET c == sub[h].ch IN
    /\ sub[h].at = "accept"
    /\ status[c] # "STARTED"
    /\ Goto(h, [at |-> "clear", ch |-> c, next |-> "idle"])
    /\ UNCHANGED <<storeVars, window, buttons, subForms, meta, dl, overdue>>

\* clear_submission_deadline: accepted or not, the window is closed.
ClearWindow(h) ==
    /\ sub[h].at = "clear"
    /\ window' = window \ {sub[h].ch}
    /\ Goto(h, After(sub[h].next, sub[h].ch))
    /\ UNCHANGED <<storeVars, buttons, subForms, meta, dl, overdue>>

-----------------------------------------------------------------------------
(* _open_eval_channel                                                       *)

\* The Slack calls block the loop; without a channel the handler gives up.
CreateChannel(h) ==
    LET c == sub[h].ch IN
    /\ sub[h].at = "create"
    /\ \/ Goto(h, [at |-> "store", ch |-> c])
       \/ "slack" \in Faults /\ Goto(h, SubIdle)
    /\ UNCHANGED <<storeVars, window, buttons, subForms, meta, dl, overdue>>

\* Mutant: the new channel is not written to the row.
StoreNothing(h) ==
    LET c == sub[h].ch IN
    /\ sub[h].at = "store"
    /\ cch' = cch \ {c}
    /\ Goto(h, [at |-> "swap", ch |-> c])
    /\ UNCHANGED <<status, ech, jury, scored, regVars,
                   window, buttons, subForms, meta, dl, overdue>>

StoreChannel(h) ==
    LET c == sub[h].ch IN
    /\ sub[h].at = "store"
    /\ cch' = cch \ {c}
    /\ ech' = ech \cup {c}
    /\ Goto(h, [at |-> "swap", ch |-> c])
    /\ UNCHANGED <<status, jury, scored, regVars,
                   window, buttons, subForms, meta, dl, overdue>>

\* The challenge channel leaves the registry, the evaluation channel enters it
\* with an empty jury.
SwapRegistration(h) ==
    LET c == sub[h].ch IN
    /\ sub[h].at = "swap"
    /\ UnregisterChallenge(c)
    /\ RegisterEvaluation(c, {})
    /\ Goto(h, [at |-> "hand", ch |-> c])
    /\ UNCHANGED <<dbVars, window, buttons, subForms, meta, dl, overdue>>

\* The thread goes on to assign a jury (JuryEvaluation).
HandOver(h) ==
    /\ sub[h].at = "hand"
    /\ Goto(h, SubIdle)
    /\ UNCHANGED <<storeVars, window, buttons, subForms, meta, dl, overdue>>

-----------------------------------------------------------------------------
(* surrender_challenge                                                      *)

\* _surrender reads the row without a lock; the window does not matter.
PressSurrender(h, c) ==
    /\ sub[h] = SubIdle
    /\ c \in buttons
    /\ \/ /\ status[c] = "STARTED"
          /\ Goto(h, [at |-> "surrender", ch |-> c, seen |-> meta[c]])
       \/ /\ status[c] # "STARTED"
          /\ Goto(h, [at |-> "clear", ch |-> c, next |-> "idle"])
    /\ UNCHANGED <<storeVars, window, buttons, subForms, meta, dl, overdue>>

\* What is stored depends on the row that was read, not on the row there is.
WriteSurrender(h) ==
    LET c == sub[h].ch IN
    /\ sub[h].at = "surrender"
    /\ status' = [status EXCEPT ![c] = "NOT_COMPLETED"]
    /\ meta' = [meta EXCEPT ![c] = [sub[h].seen EXCEPT !.has = @ \cup {"surrender"}]]
    /\ Goto(h, [at |-> "clear", ch |-> c, next |-> "close"])
    /\ UNCHANGED <<cch, ech, jury, scored, regVars,
                   window, buttons, subForms, dl, overdue>>

CloseChannel(h) ==
    /\ sub[h].at = "close"
    /\ UnregisterChallenge(sub[h].ch)
    /\ Goto(h, SubIdle)
    /\ UNCHANGED <<dbVars, evReg, evJury, window, buttons, subForms, meta, dl, overdue>>

-----------------------------------------------------------------------------
(* DeadlineMonitor.check_deadlines: one session, one commit at its end.     *)

BecomeOverdue(c) ==
    /\ status[c] = "STARTED" /\ c \notin overdue
    /\ overdue' = overdue \cup {c}
    /\ UNCHANGED <<storeVars, window, buttons, subForms, meta, sub, dl>>

\* Mutant: the comparison with the end time is the wrong way round.
StartDeadlinePassEarly ==
    /\ dl = DlIdle
    /\ dl' = [at |-> "pass", done |-> {},
              todo |-> {c \in Typed \ overdue : status[c] = "STARTED"}]
    /\ UNCHANGED <<storeVars, window, buttons, subForms, meta, sub, overdue>>

\* A row without a type is skipped.
StartDeadlinePass ==
    /\ dl = DlIdle
    /\ dl' = [at |-> "pass", done |-> {},
              todo |-> {c \in Typed \cap overdue : status[c] = "STARTED"}]
    /\ UNCHANGED <<storeVars, window, buttons, subForms, meta, sub, overdue>>

\* Announce and archive (both awaited), then unregister. The row had a channel
\* when it was read.
ExpireChallenge(c) ==
    /\ dl.at = "pass" /\ c \in dl.todo
    /\ UnregisterChallenge(c)
    /\ dl' = [dl EXCEPT !.todo = @ \ {c}, !.done = @ \cup {c}]
    /\ UNCHANGED <<dbVars, evReg, evJury, window, buttons, subForms, meta, sub, overdue>>

\* The commit writes the rows the pass changed whatever they hold by now.
CommitDeadlinePass ==
    /\ dl.at = "pass" /\ dl.todo = {}
    /\ status' = [c \in Challenges |->
                    IF c \in dl.done THEN "NOT_COMPLETED" ELSE status[c]]
    /\ cch' = cch \ dl.done
    /\ dl' = DlIdle
    /\ UNCHANGED <<ech, jury, scored, regVars, window, buttons, subForms, meta, sub, overdue>>

-----------------------------------------------------------------------------
(* What can go wrong                                                        *)

\* A database error ends the coroutine and the thread that waits for it.
SubmissionFails(h) ==
    /\ "db" \in Faults
    /\ sub[h].at \in {"track", "opener", "accept", "create", "store", "hand",
                      "surrender", "close"}
    /\ Goto(h, SubIdle)
    /\ UNCHANGED <<storeVars, window, buttons, subForms, meta, dl, overdue>>

DeadlinePassFails ==
    /\ "db" \in Faults
    /\ dl.at = "pass"
    /\ dl' = DlIdle
    /\ UNCHANGED <<storeVars, window, buttons, subForms, meta, sub, overdue>>

\* run_async gives up after 30 s: the coroutine has done its work, but the
\* thread that should go on from there is gone.
ThreadGone(h) ==
    /\ "timeout" \in Faults
    /\ sub[h].at \in {"clear", "hand", "close"}
    /\ Goto(h, SubIdle)
    /\ UNCHANGED <<storeVars, window, buttons, subForms, meta, dl, overdue>>

\* Memory is lost, the windows with it; buttons and forms are in Slack.
SubRestart ==
    /\ window' = {}
    /\ sub' = [h \in Handlers |-> SubIdle]
    /\ dl' = DlIdle
    /\ UNCHANGED <<buttons, subForms, meta, overdue>>

Restart ==
    /\ "restart" \in Faults
    /\ SubRestart
    /\ RebuildRegistry
    /\ UNCHANGED dbVars

-----------------------------------------------------------------------------

vars == <<storeVars, subVars>>

Init ==
    /\ status = [c \in Challenges |-> "STARTED"]
    /\ cch = Challenges /\ chReg = Challenges
    /\ ech = {} /\ evReg = {}
    /\ jury = [c \in Challenges |-> {}]
    /\ scored = [c \in Challenges |-> {}]
    /\ evJury = [c \in Challenges |-> {}]
    /\ SubInit

Offering(h) ==
    \/ OfferSubmission(h) \/ ReadOpener(h) \/ WriteOpener(h)
    \/ \E c \in Challenges : FindStarted(h, c)
    \/ \E u \in Users, c \in Challenges : OpenSubmissionForm(h, u, c)

Delivering(h) ==
    \/ AcceptSubmission(h) \/ RejectSubmission(h) \/ ClearWindow(h)
    \/ CreateChannel(h) \/ StoreChannel(h) \/ SwapRegistration(h)
    \/ \E c \in Challenges : SubmitProject(h, c)

Surrendering(h) ==
    \/ WriteSurrender(h) \/ CloseChannel(h)
    \/ \E c \in Challenges : PressSurrender(h, c)

Expiring ==
    \/ StartDeadlinePass \/ CommitDeadlinePass \/ DeadlinePassFails
    \/ \E c \in Challenges : ExpireChallenge(c)

Passing == \E c \in Challenges : WindowExpires(c) \/ BecomeOverdue(c)

\* Everything but the hand-over and a restart, which ChallengeLifecycle joins
\* to those of the evaluation.
SubStep ==
    \/ \E h \in Handlers : Offering(h) \/ Delivering(h) \/ Surrendering(h)
                           \/ SubmissionFails(h) \/ ThreadGone(h)
    \/ Expiring
    \/ Passing

Next == SubStep \/ (\E h \in Handlers : HandOver(h)) \/ Restart

Spec == Init /\ [][Next]_vars

\* The loop runs what is started and the monitor makes its passes.
RunningSub(h) ==
    \/ OfferSubmission(h) \/ ReadOpener(h) \/ WriteOpener(h)
    \/ AcceptSubmission(h) \/ RejectSubmission(h) \/ ClearWindow(h)
    \/ CreateChannel(h) \/ StoreChannel(h) \/ SwapRegistration(h) \/ HandOver(h)
    \/ WriteSurrender(h) \/ CloseChannel(h)

DeadlineRuns ==
    \/ StartDeadlinePass \/ CommitDeadlinePass
    \/ \E c \in Challenges : ExpireChallenge(c)

FairSpec ==
    /\ Spec
    /\ \A h \in Handlers : WF_vars(RunningSub(h))
    /\ WF_vars(DeadlineRuns)

-----------------------------------------------------------------------------
(* Properties                                                               *)

TypeOK == StoreTypeOK /\ SubTypeOK

Quiescent == dl = DlIdle /\ \A h \in Handlers : sub[h] = SubIdle

\* The handlers that are going to create, or are writing down, the evaluation
\* channel of c.
Opening(h, c) ==
    /\ sub[h].at \in {"clear", "create", "store"}
    /\ sub[h].ch = c
    /\ sub[h].at = "clear" => sub[h].next = "create"

\* Of any number of simultaneous submissions one opens an evaluation channel,
\* and none does once there is one: no second channel is created.
OneEvaluationChannel ==
    \A c \in Challenges : \A h, g \in Handlers :
        Opening(h, c) => c \notin ech /\ (Opening(g, c) => g = h)

\* A challenge that was given up or has expired is not delivered afterwards, by
\* a form or a handler that was under way when it ended.
ClosedStaysClosed ==
    [][\A c \in Challenges : status[c] = "NOT_COMPLETED" => status'[c] = "NOT_COMPLETED"]_vars

\* When nothing is going on, the registry is what the rows say: the challenge
\* channels of the STARTED rows, which /challenge submit needs, and the
\* evaluation channels of the delivered ones.
RegistryMatchesRows ==
    Quiescent => \A c \in Challenges :
        /\ c \in chReg <=> status[c] = "STARTED"
        /\ status[c] = "COMPLETED" /\ c \in ech => c \in evReg /\ c \notin cch

\* Without faults a delivered challenge has an evaluation channel as soon as
\* its handler is done, whatever else was tried at the same time.
DeliveredHasChannel ==
    Quiescent => \A c \in Challenges : status[c] = "COMPLETED" => c \in ech \cap evReg

\* The monitor ends every challenge with a type that is overdue.
DeadlineEnds ==
    \A c \in Typed : status[c] = "STARTED" /\ c \in overdue ~> status[c] # "STARTED"

(* What the documentation says and the code does not keep                   *)

\* NOT_COMPLETED means not delivered: a delivered challenge does not get there.
SubmittedStays ==
    [][\A c \in Challenges : status[c] = "COMPLETED" => status'[c] # "NOT_COMPLETED"]_vars
=============================================================================
