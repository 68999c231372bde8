-------------------------------- MODULE English --------------------------------
(***************************************************************************)
(* The English practice of one user: a session in memory that goes from    *)
(* the level over the mode to a quiz or a writing task, and the threads    *)
(* that handle the user's buttons and messages at the same time.  Nothing  *)
(* is locked, and no button says which quiz or task it belongs to.         *)
(* Sessions of different users share nothing.                              *)
(*                                                                         *)
(* A step of a thread is one write of a field of the session, or one read  *)
(* that is used after it.                                                  *)
(***************************************************************************)
EXTENDS Naturals, FiniteSets, SequencesExt

CONSTANTS
    Handlers,      \* threads that handle a request of the user
    Generated,     \* what the language model writes as questions of a quiz
    Flawed,        \* those of them that fail a check of their form or explanation
    Table,         \* the fallback questions, in the order of their table
    Kind,          \* Kind[q]: the target type of a question
    Pattern,       \* Pattern[q]: the sentence pattern it counts for, or "none"
    Levels,        \* the levels; only "advanced" has rules of its own
    Alike,         \* pairs of questions or tasks that count as repeated
    Count,         \* MIN_VALID_QUESTIONS
    PatternLimit,  \* questions of one pattern at most, 2 in the code
    HistoryLimit,  \* PREVIOUS_QUIZ_LIMIT
    Pool,          \* Pool[t]: the tasks of a writing type
    RecentLimit,   \* RECENT_TOPIC_LIMIT, RECENT_TRANSLATION_LIMIT
    MaxQuizzes,    \* bound: quizzes a session is given
    Faults

Questions == Generated \cup ToSet(Table)
WritingTypes == DOMAIN Pool
Tasks == UNION {Pool[t] : t \in WritingTypes}
Steps == {"start", "select_level", "select_mode", "select_writing_type",
          "waiting_writing", "writing_completed", "waiting_quiz_answer", "quiz_finished"}

ASSUME EnglishAssumption ==
    /\ IsFiniteSet(Handlers)
    /\ Flawed \subseteq Generated \ ToSet(Table) /\ Table \in Seq(Questions)
    /\ Kind \in [Questions -> STRING] /\ Pattern \in [Questions -> STRING]
    /\ Count \in Nat \ {0} /\ Count <= Len(Table) /\ IsInjective(Table)
    /\ {PatternLimit, HistoryLimit, RecentLimit, MaxQuizzes} \subseteq Nat \ {0}
    /\ \A t \in WritingTypes : Pool[t] # {}
    /\ "none" \notin Tasks \cup WritingTypes
    /\ Faults \subseteq {"restart"}

VARIABLES
    session,   \* the Session of the user, None when there is none
    req,       \* what each thread is doing
    judged,    \* history: positions of the present quiz that were judged
    late,      \* history: an answer to an earlier quiz moved or ended the present one
    crossed,   \* history: threads whose task another began to clear meanwhile
    torn       \* history: the step that waits was set by a thread so crossed

seen == <<judged, late, crossed, torn>>
vars == <<session, req, seen>>

None == [step |-> "none"]

NewSession ==
    [step |-> "start", level |-> "none", quiz |-> <<>>, number |-> 0, index |-> 0,
     type |-> "none", text |-> [t \in WritingTypes |-> "none"],
     previous |-> <<>>, recent |-> [t \in WritingTypes |-> <<>>]]

Session ==
    [step : Steps, level : Levels \cup {"none"}, quiz : Seq(Questions),
     number : 0..MaxQuizzes, index : 0..Count, type : WritingTypes \cup {"none"},
     text : [WritingTypes -> Tasks \cup {"none"}],
     previous : Seq(Questions), recent : [WritingTypes -> Seq(Tasks)]]

\* What /english clears, one key after the other; the button Quiz begins with
\* those of the task.
Keys == 1..5
TaskKey == 4
Cleared(s, key) ==
    [s EXCEPT !.level = IF key = 1 THEN NewSession.level ELSE @,
              !.quiz  = IF key = 2 THEN NewSession.quiz ELSE @,
              !.index = IF key = 3 THEN NewSession.index ELSE @,
              !.type  = IF key = 4 THEN NewSession.type ELSE @,
              !.text  = IF key = 5 THEN NewSession.text ELSE @]

Idle == [do |-> "idle"]
Request ==
    {Idle} \cup [do : {"clearing"}, key : Keys, quiz : BOOLEAN]
    \cup [do : {"asking", "sending", "grading", "formatting"}]
    \cup [do : {"choosing"}, type : WritingTypes, past : SUBSET Tasks]
    \cup [do : {"store_text", "store_recent", "store_waiting"}, type : WritingTypes, task : Tasks]
    \cup [do : {"generating", "validating"}, previous : SUBSET Questions]
    \cup [do : {"store_index", "store_step", "store_previous"}, quiz : Seq(Questions)]
    \cup [do : {"looking"}, why : {"answer", "question"}, length : {0, Count},
          number : 0..MaxQuizzes]
    \cup [do : {"answering"}, number : 0..MaxQuizzes, index : 0..(Count - 1)]
    \cup [do : {"choosing_mode"}] \cup [do : {"finishing"}, number : 0..MaxQuizzes]

TypeOK ==
    /\ session \in Session \cup {None}
    /\ req \in [Handlers -> Request]
    /\ judged \subseteq 1..Count /\ late \in BOOLEAN
    /\ crossed \subseteq Handlers /\ torn \in BOOLEAN
    /\ session # None => Len(session.previous) <= HistoryLimit
                      /\ \A t \in WritingTypes : Len(session.recent[t]) <= RecentLimit

-----------------------------------------------------------------------------
(* Making a quiz                                                            *)

\* is_semantically_repeated; a text is as similar as can be to itself.
Repeated(x, others) == \E y \in others : x = y \/ <<x, y>> \in Alike \/ <<y, x>> \in Alike

\* _basic_validate_questions, over the questions in their order.
Validate(questions, previous) ==
    FoldLeft(LAMBDA kept, q :
               IF q \in Flawed \/ Repeated(q, previous \cup ToSet(kept))
               THEN kept ELSE Append(kept, q),
             <<>>, questions)

\* _advanced_pattern_key and its count.
PatternFull(q, chosen, level) ==
    /\ level = "advanced" /\ Pattern[q] # "none"
    /\ Cardinality({i \in DOMAIN chosen : Pattern[chosen[i]] = Pattern[q]}) >= PatternLimit

\* What a loop over the questions asks of one before it takes it.
May(rules, q, chosen, level) ==
    /\ "type" \in rules => Kind[q] \notin {Kind[p] : p \in ToSet(chosen)}
    /\ "pattern" \in rules => ~ PatternFull(q, chosen, level)

\* One turn of it, which does nothing when there are Count, ...
Turn(chosen, q, rules, level) ==
    IF Len(chosen) < Count /\ q \notin ToSet(chosen) /\ May(rules, q, chosen, level)
    THEN Append(chosen, q) ELSE chosen

\* ... and the loop.
Take(start, order, rules, level) ==
    FoldLeft(LAMBDA chosen, q : Turn(chosen, q, rules, level), start, order)

\* _select_balanced_questions for one outcome of the shuffle: first a question
\* of each type, then what the patterns allow, then anything.
Balanced(order, level) ==
    LET types == Take(<<>>, order, {"type", "pattern"}, level)
        more  == Take(types, order, {"pattern"}, level)
    IN  IF level # "advanced" /\ Len(order) <= Count THEN order
        ELSE Take(more, order, {}, level)

Selections(questions, level) == {Balanced(o, level) : o \in SetToSeqs(ToSet(questions))}

\* _complete_with_fallback_questions for one outcome of its shuffle.
Completed(questions, order) ==
    Take(Take(questions, order, {"type"}, "none"), order, {}, "none")

Completions(questions, previous) ==
    LET usable == Validate(Table, previous \cup ToSet(questions))
    IN  {Completed(questions, o) : o \in SetToSeqs(ToSet(usable))}

\* Mutant: the fallback asks what is left of the table.
FallbackFresh(s) == Selections(Validate(Table, ToSet(s.previous)), s.level)

\* _start_fallback_quiz: when too little of the table is new, all of it counts.
Fallback(s) ==
    LET fresh == Validate(Table, ToSet(s.previous))
    IN  Selections(IF Len(fresh) < Count THEN Table ELSE fresh, s.level)

\* values[-limit:]
Latest(values, limit) ==
    IF Len(values) <= limit THEN values
    ELSE SubSeq(values, Len(values) - limit + 1, Len(values))

\* A history with the values appended that are neither in it nor excluded.
Extended(history, values, excluded) ==
    FoldLeft(LAMBDA all, x : IF x \in excluded \cup ToSet(all) THEN all ELSE Append(all, x),
             history, values)

\* _store_previous_questions: a question that was asked before keeps its place,
\* and the last HistoryLimit stay.
Remember(previous, quiz) == Latest(Extended(previous, quiz, {}), HistoryLimit)

\* generate_topic_task, generate_translation_task: a task unlike what was given
\* before, else one that is not the same, else any.
Candidates(type, history) ==
    LET unlike == {x \in Pool[type] : ~ Repeated(x, history)}
        other  == Pool[type] \ history
    IN  IF unlike # {} THEN unlike ELSE IF other # {} THEN other ELSE Pool[type]

\* _append_unique_limited: here the value moves to the end; no value is twice
\* in a history that grows by nothing else.
AppendRecent(recent, x) == Latest(Append(Extended(<<>>, recent, {x}), x), RecentLimit)

-----------------------------------------------------------------------------
(* Commands, buttons and messages                                           *)

Become(h, r) == req' = [req EXCEPT ![h] = r]

\* The threads that have begun to store a task, or to clear.
Placing == {h \in Handlers : req[h].do \in {"store_text", "store_recent", "store_waiting"}}
Clearing == {h \in Handlers : req[h].do = "clearing"}

Cross == crossed' = crossed \cup Placing

\* /english: create_or_get, then back to the first step; the histories stay ...
Start(h) ==
    /\ req[h] = Idle
    /\ session' = [(IF session = None THEN NewSession ELSE session) EXCEPT !.step = "select_level"]
    /\ Become(h, [do |-> "clearing", key |-> 1, quiz |-> FALSE])
    /\ Cross /\ torn' = FALSE
    /\ UNCHANGED <<judged, late>>

\* ... and only then everything else is cleared.  The texts of the two types
\* are popped one after the other, but no thread reads both.
Clear(h) ==
    /\ req[h].do = "clearing"
    /\ session' = Cleared(session, req[h].key)
    /\ Become(h, IF req[h].key + 1 \in Keys THEN [req[h] EXCEPT !.key = @ + 1]
                 ELSE IF req[h].quiz THEN [do |-> "asking"] ELSE Idle)
    /\ Cross
    /\ UNCHANGED <<judged, late, torn>>

\* The buttons stay in the channel and work at every step.
SelectLevel(h, level) ==
    /\ session # None /\ req[h] = Idle
    /\ session' = [session EXCEPT !.level = level]
    /\ Become(h, [do |-> "choosing_mode"])
    /\ UNCHANGED seen

SelectMode(h) ==
    /\ req[h].do = "choosing_mode"
    /\ session' = [session EXCEPT !.step = "select_mode"]
    /\ torn' = FALSE
    /\ Become(h, Idle)
    /\ UNCHANGED <<judged, late, crossed>>

SelectWriting ==
    /\ session # None
    /\ session' = [session EXCEPT !.step = "select_writing_type"]
    /\ torn' = FALSE
    /\ UNCHANGED <<req, judged, late, crossed>>

\* The task of a writing type is drawn from the history as it is read ...
ChooseTask(h, type) ==
    /\ session # None /\ req[h] = Idle
    /\ Become(h, [do |-> "choosing", type |-> type, past |-> ToSet(session.recent[type])])
    /\ UNCHANGED <<session, seen>>

\* ... and stored, whatever the session is at by then: the type, the text, ...
StoreType(h) ==
    /\ req[h].do = "choosing"
    /\ session' = [session EXCEPT !.type = req[h].type]
    /\ \E x \in Candidates(req[h].type, req[h].past) :
         Become(h, [do |-> "store_text", type |-> req[h].type, task |-> x])
    /\ crossed' = IF Clearing # {} THEN crossed \cup {h} ELSE crossed \ {h}
    /\ UNCHANGED <<judged, late, torn>>

StoreText(h) ==
    /\ req[h].do = "store_text"
    /\ session' = [session EXCEPT !.text[req[h].type] = req[h].task]
    /\ Become(h, [req[h] EXCEPT !.do = "store_recent"])
    /\ UNCHANGED seen

StoreRecent(h) ==
    /\ req[h].do = "store_recent"
    /\ session' = [session EXCEPT !.recent[req[h].type] = AppendRecent(@, req[h].task)]
    /\ Become(h, [req[h] EXCEPT !.do = "store_waiting"])
    /\ UNCHANGED seen

\* ... and the step after them.
StoreWaiting(h) ==
    /\ req[h].do = "store_waiting"
    /\ session' = [session EXCEPT !.step = "waiting_writing"]
    /\ torn' = (h \in crossed)
    /\ crossed' = crossed \ {h}
    /\ Become(h, Idle)
    /\ UNCHANGED <<judged, late>>

HasTask(s) == s.type # "none" /\ s.text[s.type] # "none"

\* A message while a text is waited for.  One that is too short, or comes when
\* the task was cleared, is answered and changes nothing.
SendText(h) ==
    /\ session # None /\ req[h] = Idle
    /\ session.step = "waiting_writing"
    /\ Become(h, [do |-> "sending"])
    /\ UNCHANGED <<session, seen>>

ReadTask(h) ==
    /\ req[h].do = "sending"
    /\ \/ session.type # "none" /\ Become(h, [do |-> "grading"])
       \/ Become(h, Idle)
    /\ UNCHANGED <<session, seen>>

\* The feedback of the model, parsed or made up, ends the waiting.
GradeText(h) ==
    /\ req[h].do = "grading"
    /\ session' = [session EXCEPT !.step = "writing_completed"]
    /\ torn' = FALSE
    /\ Become(h, Idle)
    /\ UNCHANGED <<judged, late, crossed>>

GradingFails(h) ==
    /\ req[h].do = "grading"
    /\ Become(h, Idle)
    /\ UNCHANGED <<session, seen>>

-----------------------------------------------------------------------------
(* The quiz                                                                 *)

\* The threads that will yet set the index of a new quiz.
Making ==
    {h \in Handlers : \/ req[h].do \in {"asking", "generating", "validating", "store_index"}
                      \/ req[h].do = "clearing" /\ req[h].quiz}

\* The button Quiz clears the writing task ...
AskQuiz(h) ==
    /\ session # None /\ req[h] = Idle
    /\ session.number + Cardinality(Making) < MaxQuizzes
    /\ Become(h, [do |-> "clearing", key |-> TaskKey, quiz |-> TRUE])
    /\ Cross
    /\ UNCHANGED <<session, judged, late, torn>>

\* ... and asks the model.
AskModel(h) ==
    /\ req[h].do = "asking"
    /\ Become(h, [do |-> "generating", previous |-> ToSet(session.previous)])
    /\ UNCHANGED <<session, seen>>

\* The end of start_quiz and of _start_fallback_quiz, over whatever quiz, task
\* or step the session is at by then: the questions, ...
StoreQuiz(h, quiz) ==
    /\ session' = [session EXCEPT !.quiz = quiz]
    /\ Become(h, [do |-> "store_index", quiz |-> quiz])
    /\ UNCHANGED seen

\* Mutant: the index of the quiz before is kept.
StoreIndexKeeping(h) ==
    /\ req[h].do = "store_index"
    /\ session' = [session EXCEPT !.number = @ + 1]
    /\ judged' = {} /\ late' = FALSE
    /\ Become(h, [req[h] EXCEPT !.do = "store_step"])
    /\ UNCHANGED <<crossed, torn>>

\* ... the index, with which the quiz begins, ...
StoreIndex(h) ==
    /\ req[h].do = "store_index"
    /\ session' = [session EXCEPT !.index = 0, !.number = @ + 1]
    /\ judged' = {} /\ late' = FALSE
    /\ Become(h, [req[h] EXCEPT !.do = "store_step"])
    /\ UNCHANGED <<crossed, torn>>

\* ... the step, which is torn if an /english is still to clear the questions, ...
StoreStep(h) ==
    /\ req[h].do = "store_step"
    /\ session' = [session EXCEPT !.step = "waiting_quiz_answer"]
    /\ torn' = \E g \in Clearing : req[g].key <= 2
    /\ Become(h, [req[h] EXCEPT !.do = "store_previous"])
    /\ UNCHANGED <<judged, late, crossed>>

\* ... and the history.
StorePrevious(h) ==
    /\ req[h].do = "store_previous"
    /\ session' = [session EXCEPT !.previous = Remember(@, req[h].quiz)]
    /\ Become(h, [do |-> "formatting"])
    /\ UNCHANGED seen

\* What the model may answer.
Answers == UNION {SetToSeqs(S) : S \in {T \in SUBSET Generated : IsFiniteSet(T)}}

\* No answer, none that can be parsed, or none with a question of use.
StartFallback(h) ==
    /\ req[h].do \in {"generating", "validating"}
    /\ \E quiz \in Fallback(session) : StoreQuiz(h, quiz)

\* The questions of use are sent to the model again, to be checked.
Generate(h) ==
    /\ req[h].do = "generating"
    /\ \E a \in Answers : Validate(a, req[h].previous) # <<>>
    /\ Become(h, [req[h] EXCEPT !.do = "validating"])
    /\ UNCHANGED <<session, seen>>

\* What comes back is validated once more and completed from the table.
StartQuiz(h) ==
    /\ req[h].do = "validating"
    /\ \E a \in Answers :
         LET valid == Validate(a, req[h].previous)
             full  == IF Len(valid) >= Count THEN {valid} ELSE Completions(valid, req[h].previous)
         IN  \E questions \in full :
               \E quiz \in IF Len(questions) < Count THEN Fallback(session)
                           ELSE Selections(questions, session.level) :
                  StoreQuiz(h, quiz)

\* A click on an option, and the question that is to be shown after it or at
\* the beginning: the questions are read ...
ReadQuestions(h) ==
    /\ session # None /\ (req[h] = Idle \/ req[h].do = "formatting")
    /\ Become(h, [do |-> "looking", why |-> IF req[h] = Idle THEN "answer" ELSE "question",
                  length |-> Len(session.quiz), number |-> session.number])
    /\ UNCHANGED <<session, seen>>

Over(index, length) == index >= length

\* Mutant: the end is only looked for when an answer comes.
ReadIndexEndless(h) ==
    /\ req[h].do = "looking"
    /\ Become(h, IF req[h].why = "question" THEN Idle
                 ELSE IF Over(session.index, req[h].length)
                 THEN [do |-> "finishing", number |-> req[h].number]
                 ELSE [do |-> "answering", number |-> req[h].number, index |-> session.index])
    /\ UNCHANGED <<session, seen>>

\* ... and the index, which shows that the quiz is over, if there is one, or
\* what is asked now.
ReadIndex(h) ==
    /\ req[h].do = "looking"
    /\ Become(h, IF Over(session.index, req[h].length)
                 THEN [do |-> "finishing", number |-> req[h].number]
                 ELSE IF req[h].why = "question" THEN Idle
                 ELSE [do |-> "answering", number |-> req[h].number, index |-> session.index])
    /\ UNCHANGED <<session, seen>>

\* finish_quiz, perhaps of a quiz that another has replaced.
FinishQuiz(h) ==
    /\ req[h].do = "finishing"
    /\ session' = [session EXCEPT !.step = "quiz_finished"]
    /\ late' = (late \/ req[h].number # session.number)
    /\ torn' = FALSE
    /\ Become(h, Idle)
    /\ UNCHANGED <<judged, crossed>>

\* The index is set to the one after it, whatever it is by now.
JudgeAnswer(h) ==
    /\ req[h].do = "answering"
    /\ session' = [session EXCEPT !.index = req[h].index + 1]
    /\ judged' = judged \cup {req[h].index + 1}
    /\ late' = (late \/ req[h].number # session.number)
    /\ Become(h, [do |-> "formatting"])
    /\ UNCHANGED <<crossed, torn>>

-----------------------------------------------------------------------------

\* The next request comes more than 900 seconds after the last one, which is
\* longer than any call of the model takes.
Expire ==
    /\ session # None
    /\ \A h \in Handlers : req[h] = Idle
    /\ session' = None /\ judged' = {} /\ late' = FALSE /\ crossed' = {} /\ torn' = FALSE
    /\ UNCHANGED req

Restart ==
    /\ "restart" \in Faults
    /\ session' = None /\ judged' = {} /\ late' = FALSE /\ crossed' = {} /\ torn' = FALSE
    /\ req' = [h \in Handlers |-> Idle]

Init ==
    /\ session = None
    /\ req = [h \in Handlers |-> Idle]
    /\ judged = {} /\ late = FALSE /\ crossed = {} /\ torn = FALSE

Clicking(h) ==
    \/ Start(h) \/ AskQuiz(h) \/ SendText(h)
    \/ \E l \in Levels : SelectLevel(h, l)
    \/ \E t \in WritingTypes : ChooseTask(h, t)

Writing(h) ==
    \/ StoreType(h) \/ StoreText(h) \/ StoreRecent(h) \/ StoreWaiting(h)
    \/ ReadTask(h) \/ GradeText(h) \/ GradingFails(h)

Quizzing(h) ==
    \/ AskModel(h) \/ Generate(h) \/ StartQuiz(h) \/ StartFallback(h)
    \/ StoreIndex(h) \/ StoreStep(h) \/ StorePrevious(h)
    \/ ReadQuestions(h) \/ ReadIndex(h) \/ FinishQuiz(h) \/ JudgeAnswer(h)

Next ==
    \/ SelectWriting \/ Expire \/ Restart
    \/ \E h \in Handlers : Clicking(h) \/ Clear(h) \/ SelectMode(h) \/ Writing(h) \/ Quizzing(h)

Spec == Init /\ [][Next]_vars

-----------------------------------------------------------------------------
(* Properties                                                               *)

Whole(quiz) ==
    /\ Len(quiz) = Count /\ IsInjective(quiz)
    /\ ToSet(quiz) \cap Flawed = {}
    /\ \A x, y \in ToSet(quiz) :
          x # y /\ <<x, y>> \in Alike => {x, y} \subseteq ToSet(Table)

\* The quiz a user is asked is whole, whatever the model wrote and however
\* much of the table was asked before: Count different questions that passed
\* the checks, no two alike unless both come from the table.
QuizIsWhole ==
    session # None /\ session.quiz # <<>> => Whole(session.quiz)

\* When no thread is at work and the session waits for the user, there is
\* something to answer: a text that is waited for has its task and a quiz that
\* waits has a question left, whatever overtook whatever between the buttons and
\* the calls of the model.  The exception is a step that was set by a thread
\* whose own writes met those of an /english, or of a button Quiz that cleared
\* the task: nothing keeps the two apart, and the session waits for nothing.
WaitsForSomething ==
    (session # None /\ ~ torn /\ \A h \in Handlers : req[h] = Idle) =>
       /\ session.step = "waiting_writing" => HasTask(session)
       /\ session.step = "waiting_quiz_answer" => session.index < Len(session.quiz)

\* A quiz is only finished when each of its questions was judged, however often
\* the buttons were pressed at once, and once no new quiz is being put in its
\* place; the one exception is a click that was read before the present quiz
\* began and written after.
FinishedAfterAll ==
    (/\ session # None /\ session.step = "quiz_finished" /\ ~ late
     /\ \A h \in Handlers : req[h].do \notin {"store_index", "store_step"}) =>
       1..Len(session.quiz) \subseteq judged

(* What the comments say and the code does not keep                         *)

\* "The wrong step and the silent ignoring are prevented": without the exception.
NeverIgnored ==
    (/\ session # None /\ session.step = "waiting_writing"
     /\ \A h \in Handlers : req[h] = Idle) => HasTask(session)
=============================================================================
