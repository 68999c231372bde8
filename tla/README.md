# Verification of the Slack community agent

The repository is a set of Slack services (challenge, event, feature request,
English practice, summary) over shared packages (PostgreSQL access, Slack
client, settings, logging, e-mail, embeddings).  Each service is one process:
Slack Bolt runs every request in a thread, the asynchronous parts of the
requests and the periodic monitors run as coroutines of one shared event loop,
and the state is split between database rows and process memory.  That split,
and the places where a request gives up the thread or the loop in the middle of
what it does, is what this project models.

## Inventory

| Component | State | Operations | What makes it correct |
|---|---|---|---|
| Challenge tables, channel registry | rows of `challenges`, jury and team rows; registry of challenge and evaluation channels | register, unregister, set jury, restore on start-up | the registry agrees with the rows whenever nothing is going on |
| Matchmaking | category queues, pending challenges, join and start modals | `/challenge join`, `start`, `leave`, pending TTL, launch | a user is in one place; a pending is launched once; nobody is lost |
| Submission and deadlines | 10-minute windows, buttons and forms in Slack, `meta` of the row | `/challenge submit`, form, surrender, deadline monitor, opening the evaluation channel | a challenge leaves STARTED once, for one reason, and what was submitted is kept |
| Jury and evaluation | jury queue, jury rows, forms, assignment coroutines, evaluation monitor | `/jury join`, `leave`, assignment, `/challenge evaluate`, vote, time-out | one panel from outside the team, a verdict only from all its votes, no evaluation that never ends |
| Channel guard | members of the registered channels | periodic kick of strangers | nobody who belongs to a channel is removed from it |
| Waiting queue (`CustomQueue`) | items, order by score | add, remove, pop, pop_n, pop_n_excluding | order and items agree; longest waiting first |
| Service start and stop | in-memory state, monitors | clean or resume start-up, shutdown | a restart restores what the rows say |
| Events | event rows, interests, `meta`, admin messages | create, approve, reject, update, cancel, interest, four periodic checks | one decision per request, quota, one reminder each |
| Feature requests | request rows with a status, cluster labels | submit, edit, bypass, clustering pipeline, weekly report, retries | quota, no request lost between runs, reported once |
| English practice | sessions in memory | level, mode, writing, quiz | the index stays in the quiz, one session per user |
| Summary | none (per request) | fetch, chunk, summarise | every message is in one chunk, in order, within budget |
| Packages | pool, retries, settings, model cache | sessions, Slack calls with retry, embedding | all or nothing per session; bounded retries |

How they interact: matchmaking writes a row and registers its channel; the
submission handler moves the row to COMPLETED, opens the evaluation channel and
calls the jury assignment; assignment, votes and the evaluation monitor work on
the same row; all of them share the registry, which decides which commands a
channel accepts and whether a user is busy.  Events, feature requests, English
practice and summaries share only the packages with the rest.

Where it is hard: every handler of the challenge service runs in its own thread
and hands its coroutines to one loop (`run_async`, which gives up after 30
seconds while the coroutine goes on); only some reads of a row take its lock;
three stores (rows, registry, queues) are changed one after another; Slack
refuses calls; and a restart rebuilds the registry from the rows alone.

## Modules

| Module | Models | Code |
|---|---|---|
| `ChallengeStore` | the rows and the registry that the challenge modules share, and what start-up restores | `packages/database/models/challenge.py`, `core/queue/channel_registry.py` |
| `JuryEvaluation` | jury queue, assignment, forms, votes, evaluation monitor, restarts | `handlers/commands/jury.py`, `handlers/commands/evaluation.py`, `handlers/events/evaluation.py`, `handlers/events/internal.py`, `core/monitor/evaluation_monitor.py` |
| `EvaluationPromise` | what an evaluation promises, without any of the machinery | refined by `JuryEvaluation` |
| `ChallengeSubmission` | submission window, form, delivery, evaluation channel, surrender, deadline monitor | `handlers/commands/internal.py`, `handlers/events/internal.py`, `api/state.py`, `core/monitor/deadline_monitor.py` |
| `ChallengeLifecycle` | submission and evaluation together on the same rows, registry and handlers | `handle_team_submission_view`, `manager.py` |
| `Matchmaking` | category queues, waiting groups, join, start, leave, launch, expiry | `handlers/events/challenge.py`, `handlers/commands/challenge.py`, `core/monitor/challenge_monitor.py`, `manager.py` |
| `ChannelGuard` | who is inside the private channels and the pass that removes strangers, beside all of `JuryEvaluation` | `core/monitor/challenge_monitor.py`, `utils/slack_helpers.py` |
| `WaitingQueue` | the queue with its dictionary, its sorted list and what callers hold | `core/queue/challenge_queue.py` |
| `SetQueue` | the set of users that the other modules use in its place | refined by `WaitingQueue` |
| `Events` | event requests, decisions, updates, interest, and the scheduler's four checks | `event_service/handlers`, `event_service/core/scheduler.py`, `packages/database/models/event.py` |
| `Features` | feature requests, drafts, edits, the weekly job in its three ways, retries, clean-up | `feature_request_service/service.py`, its handlers and monitor |
| `English` | a session, its quiz, its writing task, and how questions and tasks are chosen | `english_service/manager.py`, `core/quiz_mode.py`, `core/writing_mode.py` and around |
| `Summary` | one request: channels, pages, threads, chunks, calls to the model, what is left out | `summary_service/handlers/commands/summary.py`, `core/message_fetcher.py`, `core/chunker.py`, `core/summarizer.py` |
| `*_proofs` | the theorems about the module of that name; those about `WaitingQueue` are in `Matchmaking_proofs`, those about `English` and `Summary` in `EnglishSummary_proofs` | |
| `MC*` | model values, data and symmetry for TLC | |

`ChallengeLifecycle` composes `JuryEvaluation` and `ChallengeSubmission`;
`ChannelGuard` composes `JuryEvaluation` with the guard.  The other services
share no state with the challenge service or with one another, so their modules
stand alone.

### State and steps

A step is what a coroutine does between two awaits, or what a thread does
between two points another thread can observe.  `task[h]`, `sub[h]` and
`req[h]` are the place where handler `h` stands and the locals it carries on:
the values it has read and will act upon later.  Monitors and jobs have a place
of their own (`mon`, `dl`, `sch`, `week`, `guard`), holding what their pass has
read.

**Challenges.**  A transaction that holds the row's lock is one step; a
transaction without it is split at its awaits.  What `SELECT ... FOR UPDATE OF
challenges` read before it waited for the lock (the joined jury rows, under READ
COMMITTED) is read in an earlier step (`SubmitForm`).  The monitors read their
challenges at the start of a pass, treat them one at a time, and write all of
them in the commit at its end (`StartPass` ... `CommitPass`,
`StartDeadlinePass` ... `CommitDeadlinePass`).  `ChallengeStore` declares
`status`, `cch`, `ech`, `jury`, `scored` (rows) and `chReg`, `evReg`, `evJury`
(registry).  `JuryEvaluation` on its own replaces the submission by two stubs,
`Deliver` and `RegisterDelivered`; in `ChallengeLifecycle` they are gone and
`HandOver` passes a delivered challenge from the handler that submitted it to
the assignment it calls.  `ChallengeSubmission` on its own ends a handler there.

**Matchmaking** has `queue` (who waits in a category), `group` (the pending
challenges; a closed one stays, as threads keep references to the dictionary
entry), `expired` (groups the clean-up has deleted and not yet put back),
`teams` (the registry) and `req`.  A join that finds a group adds the user under
`pending_lock` (`JoinGroup`), counts without it (`CountMembers`) and takes the
group under it (`TakeGroup`, or `GroupGone`).

**The guard** copies the registered juries when a pass begins and visits the
rooms one at a time: it asks for the members (`CheckRoom`) and kicks those the
copy does not know, one call each (`Kick`), without looking again.  `inside` is
who is in which room; `JuryEvaluation`'s steps that invite or archive change it.

**The waiting queue** has `joined` (the dictionary) and `before` (the list, as
the pairs of users in their order).  Adding and removing sort, popping edits
both by hand; `held` is what callers have popped and may put back with the
moment it had.

**Events.**  A session reads a row in one step and stores the columns it changed
in a later one, whatever the row holds by then; there are no row locks.  The
messages that follow a commit are a step of the same thread.  `said` and `told`
are what members have been told, `sch` the scheduler with what it holds over its
awaits, `lastMorning` what only its memory knows, `lost` what a fault has taken.

**Features.**  `status` and `text` are columns, `week` what the weekly job holds
between its two database sessions and over its calls to the language model.
`sent` and `excused` are history: what reports have counted, and what a fault or
an edit in the middle of the job has hit.

**English.**  `session` is the `Session` of one user, which no thread locks: a
step is one write of one field, or one read that is used after it, and `req` is
where each thread stands.  `/english` sets the step (`Start`) and then clears
field by field (`Clear`), as the button Quiz does with the fields of the task
(`AskQuiz`); a task is stored with its type, its text, its history and the step
last (`StoreType` ... `StoreWaiting`), a quiz with its questions, its index, the
step and its history (`StoreQuiz` ... `StorePrevious`); an answer reads the
questions, then the index, and writes it back (`ReadQuestions`, `ReadIndex`,
`JudgeAnswer`).  `judged`, `late`, `crossed` and `torn` are history: what was
judged, and which writes of different threads met.  Quiz selection, completion
and fallback are operators over sequences of questions.

**Summary** follows the one thread of a request through its `Stages`; paging,
reversal, threads and chunks are operators over sequences, and each call that
can fail has an action that fails.

### Abstractions

* Queues are sets of users in `JuryEvaluation` and `Matchmaking`: any choice of
  the size that is popped.  `WaitingQueue` has the order, and `QueueIsASet`
  proves that it is one of those choices.
* Messages, texts and scores are left out; an evaluation is the set of jurors
  who have voted, time is the few values the monitors tell apart (`age`,
  `overdue`, `stale`, a day with two moments).
* `handle_leave` removes a user from all queues in one step (the code visits one
  queue after another), and the clean-up adds all members of a group at once;
  no two queues are read together elsewhere.
* The row of a launched team and its entry in the registry are one step.  The
  team is in neither place before it, as in the code.  `TeamEnds` stands for all
  that ends a challenge, in `Matchmaking` alone.
* Guard: administrators and the bot are in all rooms and left out; an archived
  room is empty; who enters a room is let in by somebody inside.
* Whether a feature request is refused, kept as a draft or taken is a choice
  (quota, similarity and fraud scores are not computed), as is how requests fall
  into clusters and noise.
* English: a history is read, extended and stored in one step, and the level
  and the history a selection depends on are read in the step that stores its
  questions (two threads that extend one history at the same instant may lose an
  entry in the code, which no property is about).  Looking a session up and
  creating it is one step, and a session only expires while nothing is under way.  The texts of the two
  kinds of writing are cleared together, as no thread reads both.  The mode, the
  context and the smallest number of words are left out; nothing that is modelled
  depends on them.
* What the language model writes as quiz questions is any choice from a set with
  flawed, alike and same-pattern members.
* A summary line is its length; a channel has one of seven histories.

## Runs

| Run | Instance | Question |
|---|---|---|
| `JurySafety` | 1 challenge, 4 users, panels of 2, 2 requests, restart, db, timeout | are panel, votes and verdict consistent? |
| `JuryTwo` | 2 challenges, 2 users, panels of 1, 1 request at a time beside `/jury leave`, fair, timeout | does the scan reach every challenge, is the promise kept, does every evaluation end? |
| `JuryLateVote` | 1 challenge, 2 jurors | the finding below |
| `Submit` | 2 requests, fair; 2 challenges and no fault, or 1 challenge and every fault | one evaluation channel, nothing delivered after its end; while nothing fails, does a delivery get its channel and an overdue challenge its end? |
| `Lifecycle` | 1 challenge, 1 user in no team, panel of 1, 2 requests, restarts | does the whole never go back, is no delivered challenge overlooked, do rows and registry agree? |
| `Match` | 2 users, 2 groups of 2, 2 requests, every fault, fair | is a group taken once, none left full, nobody lost, and does every group end? |
| `ChannelGuard` | 1 challenge, 3 users, 1 request at a time, every fault, fair | do strangers leave, and does the panel that sat stay? |
| `Events` | 1 event, 1 request at a time beside the scheduler, 3 moments on 2 days, every fault, fair | do reminders survive failures, is what is decided never pending again, does what is due end? |
| `EventsTwo` | 1 event, 2 concurrent requests beside the scheduler, no fault | is only what was approved public, do members know what the row holds, how far is the quota passed? |
| `Features` | 3 requests of 1 member, 1 edit, 1 failing embedding, all three ways of the job, every fault, fair | is anything lost or reported twice, and is every request reported? |
| `English` | 1 user, 2 threads, 2 quizzes of 2 questions, 1 writing task, restarts | is a quiz whole, does the session wait only for what is there, does a quiz end with its last question? |
| `Summary` | 2 channels with any of 7 histories, pages of 2, chunks of 3 tokens, every failure | do chunks fit, is a message lost, is every channel accounted for? |

Why these sizes are enough.  The guards of the code are about two parties (two
assignments, two votes, a vote and the monitor, two deliveries, a join and a
launch, a request and the scheduler), and a third request would meet one of the
two in a state they already reach one after the other.  Two challenges compete
for the same juror; two groups are needed for a user to be in both.
`Lifecycle` and `ChannelGuard` are products of modules, so they have one
challenge: everything about several is checked in the modules on their own.  A
third user matters to matchmaking only when a group is overfilled; the safety
properties of `Match` are proved for any number of users, groups and sizes.  The
rows of events and feature requests are independent except for the quota, the
job's batch and its thresholds: three requests reach the direct dump, the
preview, and clusters (`DirectMax` 1, `HdbscanMin` 3).  Sessions of English
practice share nothing, so there is one user; two threads are two clicks, or a
click and a call of the model that is under way.  A task and a quiz that are
stored while `/english` clears need no third.  The level is the one that has
rules of its own, or none yet; the histories hold one entry, so that they drop one.  The
numbers of `Summary` are such that a message is cut, a history has several
pages, and lines fall into several chunks.

Bounds: `Groups` are the ids a run may use (a start needs one left, `IdsLeft`),
`Events` the ids of rows, `LastMoment` the end of time, `MaxRows`, `MaxEdits`
and `MaxFailing` what members send and edit, `MaxQuizzes` the quizzes of a
session.  There is no other bound on counters.

Faults are chosen per run: `restart` (the process loses its memory), `db` (a
transaction fails), `slack` (a call is refused; for `/jury join` the answer that is sent
between joining and looking for challenges), `timeout` (`run_async` gives up
while the coroutine goes on), `gone` (a thread ends wherever it is), `pass` (a
pass of the scheduler ends early, or its process restarts), `embed`, `compute`,
`week` (a stage of the pipeline fails), `history`, `replies`, `list`, `model`,
`answer` (a call of a summary fails).  Properties that a fault breaks are run
without it or name the excuse; see the known gaps.  Deadlock is checked in every
run.

Each module also has a `TypeOK` (`SummaryTypeOK`).  It is checked in
`Submit` and `Match`, and proved for every module (of
`WaitingQueue` as a part of its invariant); in the other instances it holds as
well and can be added to the `INVARIANTS` of the cfg.

### Fairness

* `JuryEvaluation`, `ChallengeSubmission`: a coroutine that was started goes on,
  time passes and the monitors make their passes.
* `Matchmaking`: the age of a group passes its limit and the clean-up runs.
* `ChannelGuard`: the guard goes on, and in the end Slack answers it and the
  service stays up.
* `Events`: the scheduler goes on, and its errors and restarts come to an end.
* `Features`: the retry, the pipeline and the weekly report run again and again,
  and failures of a stage come to an end.

This is what the event loop, Bolt's thread pool and the `while self._running`
loops give.  Users need not do anything: no command, form, vote or button has
any fairness.  `English` and `Summary` are checked for safety only.

## Proofs

All theorems are for every value of the constants, under the named assumptions
of the modules (finite sets of users, a positive number of jurors, teams that
are sets of users, known fault sets).  `EnglishAssumption` says of the data that
the fallback table has enough different questions and none that validation
refuses, that every kind of writing has a task, and that limits are positive;
`SummaryAssumption` that a line is not empty, that limits are natural numbers
(positive for messages and pages), that the model takes at least two tokens, and
that a token is at least three characters, which the three dots of a cut line
need (the code has three).

* `JuryEvaluation_proofs`: type correctness, `JurorsOutsideTeam`, `PanelSize`,
  `VerdictIsEarned`, that a panel once chosen never changes, and that
  `JuryEvaluation` implements `EvaluationPromise` step by step.  The safety
  properties are not inductive: a vote in flight carries the jury rows of an
  earlier state.  `IInv` relates them to the present ones (a panel read as
  non-empty is the panel there is, scores that were read are among the present
  ones), and says that what an assignment holds was eligible and that the
  monitor's pass only holds challenges that have been IN_EVALUATION.
  `NoStrandedChallenge` is proved with one request at a time, or with several
  about one challenge, while no session fails and Slack refuses nothing
  (`OneOfOne`; beyond that it does not hold, see the known gaps).  What is inductive is `NoneMissed`: every
  waiting challenge is in the hands of some assignment or still on its list, or
  the queue and the jurors in hand, taken together, are too few for it.  Jurors in hand are
  counted because a panel that cannot be stored puts them back.
* `ChallengeSubmission_proofs`: type correctness, `OneEvaluationChannel`,
  `ClosedStaysClosed`.  The invariant says that a handler which opens the
  channel of a challenge holds a challenge that has left STARTED
  (`OpeningKnown`), is alone with it (`OpeningUnique`), and that whatever has an
  evaluation channel has left STARTED (`EvaluatedLeft`).  The registry is what
  the rows say if only restarts go wrong (`RegistryMatches`): a failed session,
  a lost thread or a refused call between the row and the registry leaves them
  apart.  Without any fault every delivery gets its channel
  (`EveryDeliveryHasChannel`): it is being opened, or it is there.
* `ChallengeLifecycle_proofs`: the invariants of the two parts hold in the whole.
  The proofs of the parts are instantiated (`JE`, `CS`) and their lemmas used for
  their own steps; what is proved here is what each part does to the rows of the
  other.  From that come type correctness, `NeverGoesBack`, the panel and vote
  properties, `OneEvaluationChannel`, and `PanelHasChannel`, which neither part
  can state alone and whose strengthening is that a challenge reaches an
  assignment only with its channel stored, or ended (`ChannelFirst`).
  `RegistryMatchesRows` is proved for restarts, `NoStrandedChallenge` as above
  and while no thread is lost between the delivery and the assignment.
  Two properties of the parts do not hold in the whole, and are stated of the
  parts only: `KeepsPromise`, since a surrender that read the row early may end
  a challenge under evaluation, and `ClosedStaysClosed`, since the evaluation
  monitor may store EVALUATION_DELAYED over what was so closed.
* `ChannelGuard_proofs`: type correctness, and `SeatedJurorsStay` for one request
  at a time.  It rests on `Listed`, proved in `JuryEvaluation_proofs`: the
  registry lists every stored panel except the one an assignment has just stored
  and is about to register.  A pass begins with a copy of that list, and
  `GuardReads` says that it never holds anybody for removal who is on its copy.
* `Matchmaking_proofs`: type correctness, `TakenOnce`, `FullIsLaunched`,
  `NobodyDropped`.  The invariant says that what the clean-up holds is closed
  (`ExpiredClosed`), that what a launch holds is closed and its own
  (`LaunchClosed`), and that every full open group is watched: some request is
  about to count it or take it (`FullWatched`).  The last is why a count outside
  the lock is enough for a group not to be left full, whatever is interleaved.
* `Matchmaking_proofs` ends with `WaitingQueue`: the list is complete and sorted
  at any time (`ListStaysSorted`), nobody who is taken has waited less than an
  eligible user who stays (`NobodyPassedOver`), and the queue implements
  `SetQueue` (`QueueIsASet`, for finitely many users).  The key lemma is that
  what a pop leaves of the list is a list of those who stay, so that no sorting
  is needed.  `WaitingQueue` has theorems and no run; on three users and three
  moments TLC finds the same.
* `Events_proofs`: type correctness, `PublicOnlyApproved`, `RowIsTold`,
  `MarkedIsReminded`, `MorningOnce`, `QuotaOvershoot`, `NeverPendingAgain`.  A
  session writes columns it read earlier, so the invariant says that what a
  request holds of a row is `Sound` in every later state; that rests on facts no
  step takes away (what was approved, announced or reminded stays so) and on the
  scheduler marking only what it has reminded.
* `Features_proofs`: type correctness, `ReportedOnce`, `NothingLost`.  The
  invariant orders the copies of a text: those the weekly job holds are newer
  than all that reports have counted (`HeldIsNew`) and never newer than the row
  (`HeldIsCurrent`), what the job marks is spent for good (`SpentForGood`), and a
  row that is reported has been counted or is about to be (`ReportedIsCounted`).
* `EnglishSummary_proofs` begins with folds.  `FoldLeft` is defined by a choice
  over recursive functions on subsets of the indices; that such a function
  exists is proved by induction over the indices as a statement about a set of
  numbers (`Induction`, which needs no operator as a parameter), and that
  makes every fold equal to the last of its steps (`FoldIsResult`).
  - English: type correctness, `QuizIsWhole`, `WaitsForSomething`,
    `FinishedAfterAll`.  Selecting, completing and falling back each keep a quiz
    free of repetitions and fill it up, because the table has `Count` different
    questions.  The invariant says that every thread that makes a quiz has a
    number reserved (`NumbersReserved`).  Beside a thread that clears, every one
    that stores a task is crossed, and as long as one is not, the session has
    its task or is being given it (`TasksStored`); so a text is waited for
    with its task unless a quiz is being made (`TextWaits`), and a quiz that
    waits has a question left or a thread that will see that it has not
    (`QuizWaits`).  What lies before any index, stored or carried by a thread,
    was judged (`JudgedInOrder`), and a thread that saw the end of the present
    quiz is right (`EndsSeen`): this is why two clicks on one button cannot end a
    quiz early.
  - Summary: type correctness, `ChunksFit`, `NothingLeftOut`, `Accounted`.  What
    was kept is always what the pages read so far have to give (`PagesHold`), so
    it does not matter where pages end; threads add lines but no roots
    (`ExpandedFacts`); a chunk stays within what its lines were charged for and
    the chunks put together are the lines (`ChunksFacts`).  `ChannelsHold` says
    that of the listed channels those behind are settled and those to come
    untouched, and that no channel is listed twice: this is why a channel is
    counted under one reason only.

The invariants were run through TLC as invariants of instances before they were
proved.

Only model-checked: all liveness (`EvaluationEnds`, `CalmEnds`, `GroupEnds`,
`StrangersLeave`, `DueIsEnded`, `EveryRequestEnds`), since fairness is out of the
prover's reach, and `CalmDelivered`, the instance's form of
`EveryDeliveryHasChannel`.

## Finding

`JuryLateVote` is a behaviour of the code: two last jurors vote at once, each
counts without the other's score, and nobody gives the verdict
(`handlers/events/evaluation.py:105`), although the documentation says of
EVALUATED that all jurors have finished (`docs/challenge-service.md:187`).

## Known gaps

Statements a reader might expect, that the code does not keep and that have no
run of their own.  Those in code font are defined in the modules, under "What
the documentation says and the code does not keep" or among the properties: add
one to the cfg named in brackets to see its trace.  The others are actions or
choices of the models.

Jury
* `PanelNeverEmpty` (`JurySafety`): a `/jury leave` between counting and taking
  the jurors starts an evaluation with an empty panel (`internal.py:375`;
  `docs/challenge-service.md:218` has a jury invited when there is one).
* A juror's second form, sent at the same time, replaces the first answers.  A
  pass of the evaluation monitor that read a challenge before its last vote
  stores a failure over the verdict.  Jurors popped by an assignment whose
  transaction raises do not return to the queue.
* With two requests at a time a challenge may be left waiting although the queue
  has enough jurors: one assignment defers it while another holds jurors that it
  puts back.

Submission and lifecycle
* `SubmittedStays` (`Submit`): a surrender or deadline pass that read the row
  first stores NOT_COMPLETED over a delivery (`internal.py:541`,
  `deadline_monitor.py:105`; `docs/challenge-service.md:188`).
* Of two members who open the form at the same time the later one is recorded.
  Recording the opener stores the whole `meta` as it was read, and so removes
  the `submission` entry of a delivery committed in between (`internal.py:135`).
* A Slack error, a lost thread or a restart between the delivery and its
  evaluation channel leaves the challenge without one for good.  Challenges
  without a type have no deadline, and their pass never ends them.
* `PanelListed` (`Lifecycle`): registering the evaluation channel empties the
  jury that was registered since the row was stored (`internal.py:320`;
  `docs/challenge-service.md:345`).  With a second handler in `ChannelGuard` the
  guard then removes the sitting panel on every pass: `SeatedJurorsStay` holds
  with one request at a time only.

Guard
* A juror appointed while a pass is under way is taken for a stranger, kicked,
  and not invited again (`docs/challenge-service.md:276` has only those removed
  who belong neither to the team nor to the jury).

Matchmaking
* `TeamAsAsked` (`Match`): a member who leaves between the count and the launch
  makes the team smaller than was asked for; with a third user, two joins at
  once make it larger (`handlers/events/challenge.py:65`).
* When the channel cannot be created, who started the challenge and everybody of
  a group filled by a join is dropped, while the documentation has the
  participants return to the queue (`docs/challenge-service.md:447`).  Those a
  closed group returns to the queue get a new place at its end; those a failed
  launch returns keep theirs.
* A user can be in a queue and a group, or in two groups, as the busy check and
  the joining are separate steps; leaving leaves the first group only.
  `/challenge start` takes any number; with 1 or less a team of one starts.  A
  team whose row failed stays registered under the id "unknown" until a restart.

Events
* Two decisions taken at once are both announced and the later one is stored; a
  CANCELLED event may be overwritten by an earlier read.  The form of an update
  stores what it changed without asking again who owns the event.
* The reference to the admin message is stored with all of the meta read before
  and may remove the mark of the reminder; an event that is moved keeps the
  mark and has no second reminder.  The admin buttons stay when a request is
  decided before the reference is stored.
* The morning summary is taken for sent on a day that is empty at its hour.
  Dates in the past are accepted.

Features
* A report that Slack refuses is taken for sent (`service.py:1492`) and the
  clean-up deletes its requests; a failed week leaves reported rows that the
  next clean-up deletes; a week without any cluster drops the unmatched.  These
  are the excuses of `NothingLost`.
* The weekly quota is not looked at again when a draft is approved, and two
  similar requests at once are both taken.  An edit of a deleted request is
  answered as if it had been stored; a retried embedding may be of an old text.

English
* `NeverIgnored` (`English`): `/english` sets the step before it clears the
  fields (`flow_engine.py:22`), a task and a quiz are stored with their step
  last (`writing_mode.py:41`, `quiz_mode.py:165`).  When the two meet, or when
  the button Quiz clears a task that is being stored, the session waits for a
  text or an answer that nothing was asked for, until the next command or button.
  A text is then answered with "Unknown writing task type", or judged without a
  task; an answer ends the empty quiz.  This is the exception of `WaitsForSomething` (`torn`).
* An evaluation that arrives late, or a button of an old quiz, ends the waiting
  for another task: the next text is ignored without a word, which
  `english_service/manager.py:10` means to prevent.  Buttons are not tied to
  a quiz; two clicks at once judge one question twice, and a click that was read
  before a new quiz moves the index of the new one or ends it (`late`).
* The table of fallback questions has near copies that its own validation would
  refuse; `QuizIsWhole` allows them.

Summary
* The channel list swallows its errors: a part of it counts as all of it, and
  the message for a list that failed is never sent.  A reply that also went to
  the channel appears twice; replies to roots older than the window, and of
  roots beyond the limit of threads, are missed.
* A chunk may exceed the budget by up to three characters for each of its lines:
  what the division drops, the line break, and the three dots of a cut line.  The post of the answer is not guarded.
* The documentation calls the buttons `summary_brief_all` and
  `summary_detailed_all`, the code `summary_all_brief` and
  `summary_all_detailed`.

## Not modelled

PROJECT.json lists every component with the reason.  Notifications, e-mail,
Block Kit layout, logging, settings, migrations and seeds are I/O or data
without behaviour that the properties could be about.  The bounded retry of
Slack calls appears as a call that succeeds or fails.  The clean-up of a fresh
start runs before any handler or monitor and empties everything; the one of a
resumed start removes rows that no code writes.  Queries and listings only read.
The numeric algorithms (embeddings, UMAP, HDBSCAN, fraud scores) and the answers
of language models are arbitrary choices; numbers and labels of clusters, the
preview of `/cemil-report`, and prompts and words are left out.

## Plan

The code that keeps state and has concurrent or failing steps is modelled, and
the safety properties of every module are proved, two of them (`NoStrandedChallenge`,
`SeatedJurorsStay`) with the restrictions named above.  What is left:

| # | For | What |
|---|---|---|
| 1 | `JuryEvaluation` | `NoStrandedChallenge` for any number of requests, weakened by the case that fails: an assignment that puts back jurors while another defers a challenge |
| 2 | `ChannelGuard` | `SeatedJurorsStay` for any number of requests, except for panels whose registration was overwritten |
