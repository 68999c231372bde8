------------------------- MODULE EnglishSummary_proofs -------------------------
(***************************************************************************)
(* Proofs about English and about Summary, which are built from folds.     *)
(* What a fold returns for every sequence comes first, by the unfolding of *)
(* its definition; the rest follows from it.                               *)
(*                                                                         *)
(* English: whatever the model writes and whatever overtakes whatever, a   *)
(* quiz is whole; a waiting session has something to wait for and a quiz   *)
(* ends after its last answer, but for what a late write does to either.   *)
(* Summary: the chunks fit the model, nothing is lost on the way to it,    *)
(* and the answer accounts for every channel.                              *)
(***************************************************************************)
EXTENDS English, Summary, FiniteSetTheorems, FunctionTheorems, WellFoundedInduction, TLAPS

-----------------------------------------------------------------------------
(* The inductive invariant                                                  *)

\* Threads by what they will yet do to the session: set the step for a new
\* quiz, ...
Replacing == {h \in Handlers : h \in Making \/ req[h].do = "store_step"}
Indexing == {h \in Handlers : req[h].do = "store_index"}

\* ... ask whether the quiz is over, or have seen that it is.
Checking ==
    {h \in Handlers :
       \/ req[h].do \in {"store_previous", "formatting", "answering", "finishing"}
       \/ /\ req[h].do = "looking"
          /\ \/ req[h].why = "answer"
             \/ req[h].length = Len(session.quiz) /\ req[h].length <= session.index}

\* The task of the session is there, or a thread has its text to store.
TaskComing ==
    /\ session.type # "none"
    /\ \/ session.text[session.type] # "none"
       \/ \E h \in Handlers : req[h].do = "store_text" /\ req[h].type = session.type

\* Without a session no thread is at work, and a quiz in it is whole.
SessionHolds ==
    /\ session = None => \A h \in Handlers : req[h] = Idle
    /\ session # None /\ session.quiz # <<>> => Whole(session.quiz)

\* Each thread that makes a quiz has its number reserved, and what a thread
\* has read belongs to a quiz that was given.
NumbersReserved ==
    /\ session # None => session.number + Cardinality(Making) <= MaxQuizzes
    /\ \A h \in Handlers :
         req[h].do \in {"looking", "answering", "finishing"} => req[h].number <= session.number

\* No thread stores a task beside one that clears without being crossed; and
\* as long as one is not, the session has its task or is given it.
TasksStored ==
    /\ Clearing # {} => Placing \subseteq crossed
    /\ Placing \subseteq crossed \/ TaskComing

\* A text is waited for with its task, unless a quiz is being made that ends
\* the waiting.
TextWaits ==
    (session # None /\ session.step = "waiting_writing" /\ ~ torn) =>
      /\ TaskComing \/ Replacing # {}
      /\ \A h \in Clearing : req[h].quiz

\* A quiz that waits has a question left, or a thread will see that it has not.
QuizWaits ==
    (session # None /\ session.step = "waiting_quiz_answer" /\ ~ torn) =>
      /\ session.index < Len(session.quiz) \/ Replacing # {} \/ Checking # {}
      /\ \A h \in Clearing : req[h].key > 2

\* What is before the index was judged, before the index of the session and
\* before the one a thread has read from the same quiz.
JudgedInOrder ==
    (session # None /\ ~ late) =>
      /\ 1..session.index \subseteq judged
      /\ \A h \in Handlers :
           req[h].do = "answering" /\ req[h].number = session.number
             => 1..req[h].index \subseteq judged

\* There is nothing left to judge, or a new quiz is about to begin.
AllJudged == session.quiz = <<>> \/ 1..Count \subseteq judged \/ Indexing # {}

\* A thread that saw no questions, or the end of a quiz, saw what is so still.
EndsSeen ==
    \A h \in Handlers :
      req[h].do \in {"looking", "finishing"} /\ req[h].number = session.number =>
        /\ req[h].do = "looking" /\ req[h].length = 0 => session.quiz = <<>> \/ Indexing # {}
        /\ req[h].do = "finishing" /\ ~ late => AllJudged

\* A quiz is finished when all is judged, until the step of a new one is set.
FinishHolds ==
    (session # None /\ session.step = "quiz_finished" /\ ~ late) =>
      AllJudged \/ \E h \in Handlers : req[h].do = "store_step"

IInv ==
    /\ TypeOK
    /\ SessionHolds /\ NumbersReserved
    /\ TasksStored /\ TextWaits
    /\ QuizWaits /\ JudgedInOrder /\ EndsSeen /\ FinishHolds

-----------------------------------------------------------------------------
(* Folds over a sequence                                                    *)

\* Induction over an interval: a set that holds 0 and with every number the
\* next one holds them all.  The set stands for the predicate.
LEMMA Induction ==
    ASSUME NEW n \in Nat, NEW S, 0 \in S, \A k \in 1..n : k - 1 \in S => k \in S
    PROVE  \A k \in 0..n : k \in S
  <1> DEFINE Out == {k \in 0..n : k \notin S}
  <1>1. SUFFICES ASSUME Out # {} PROVE FALSE
    BY <1>1
  <1>2. PICK R : IsWellFoundedOn(R, Nat) /\ R = {p \in Nat \X Nat : p[1] < p[2]}
    <2>1. IsWellFoundedOn({p \in Nat \X Nat : p[1] < p[2]}, Nat)
      BY NatLessThanWellFounded DEF OpToRel
    <2>. QED
      BY <2>1
  <1>3. Out \subseteq Nat
    OBVIOUS
  <1>4. PICK k \in Out : \A j \in Out : <<j, k>> \notin R
    <2>. HIDE DEF Out
    <2>. QED
      BY <1>1, <1>2, <1>3, WFMin
  <1>5. k # 0
    BY <1>4
  <1>6. k - 1 \in Out
    BY <1>5
  <1>7. <<k - 1, k>> \in R
    BY <1>2, <1>3, <1>6
  <1>. QED
    BY <1>4, <1>6, <1>7

\* The function a fold over n positions is defined by, for a step G over
\* positions and values, and
IsFold(g, n, base, G) ==
    /\ g[{}] = base
    /\ \A x \in SUBSET (1..n) : x # {} =>
         Max(x) \in x /\ g[x] = G[<<Max(x), g[x \ {Max(x)}]>>]

\* that there is one: it takes the positions from the last to the first.
LEMMA FoldExists ==
    ASSUME NEW A, NEW n \in Nat, NEW base \in A, NEW G \in [(1..n) \X A -> A]
    PROVE  \E g \in [SUBSET (1..n) -> A] : IsFold(g, n, base, G)
  <1> DEFINE Good(k, g) ==
               /\ g[{}] = base
               /\ \A x \in SUBSET (1..k) : x # {} =>
                    Max(x) \in x /\ g[x] = G[<<Max(x), g[x \ {Max(x)}]>>]
             Has(k) == \E g \in [SUBSET (1..k) -> A] : Good(k, g)
             S == {k \in 0..n : Has(k)}
  <1>1. Has(0)
    <2> DEFINE g == [x \in SUBSET (1..0) |-> base]
    <2>1. g \in [SUBSET (1..0) -> A]
      OBVIOUS
    <2>2. \A x \in SUBSET (1..0) : x = {} /\ g[x] = base
      OBVIOUS
    <2>. QED
      BY <2>1, <2>2
  <1>2. ASSUME NEW k \in 1..n, Has(k - 1)
        PROVE  Has(k)
    <2>2. PICK f \in [SUBSET (1..(k - 1)) -> A] : Good(k - 1, f)
      BY <1>2
    <2> DEFINE g == [x \in SUBSET (1..k) |-> IF k \in x THEN G[<<k, f[x \ {k}]>>] ELSE f[x]]
    <2>3. \A x \in SUBSET (1..k) : x \ {k} \in SUBSET (1..(k - 1))
      OBVIOUS
    <2>4. g \in [SUBSET (1..k) -> A]
      <3>1. SUFFICES ASSUME NEW x \in SUBSET (1..k)
                     PROVE  (IF k \in x THEN G[<<k, f[x \ {k}]>>] ELSE f[x]) \in A
        BY <3>1, Zenon
      <3>2. f[x \ {k}] \in A
        BY <2>3
      <3>3. k \notin x => x \in SUBSET (1..(k - 1))
        BY <2>3
      <3>. QED
        BY <3>2, <3>3
    <2>5. ASSUME NEW x \in SUBSET (1..k)
          PROVE  /\ g[{}] = base
                 /\ x # {} => Max(x) \in x /\ g[x] = G[<<Max(x), g[x \ {Max(x)}]>>]
      <3>1. CASE k \in x
        <4>1. Max(x) = k
          <5>1. \A y \in x : k >= y
            OBVIOUS
          <5>2. \A z \in x : (\A y \in x : z >= y) => z = k
            BY <3>1, <5>1
          <5>. QED
            BY <3>1, <5>1, <5>2 DEF Max
        <4>2. g[x] = G[<<k, f[x \ {k}]>>]
          BY <3>1
        <4>3. g[x \ {k}] = f[x \ {k}]
          OBVIOUS
        <4>4. g[x] = G[<<Max(x), g[x \ {Max(x)}]>>]
          <5>. HIDE DEF g
          <5>. QED
            BY <4>1, <4>2, <4>3
        <4>5. g[{}] = base
          BY <2>2
        <4>. QED
          BY <3>1, <4>1, <4>4, <4>5
      <3>2. CASE k \notin x
        <4>1. x \in SUBSET (1..(k - 1))
          BY <2>3, <3>2
        <4>2. g[x] = f[x] /\ g[x \ {Max(x)}] = f[x \ {Max(x)}]
          BY <3>2
        <4>. QED
          BY <2>2, <4>1, <4>2
      <3>. QED
        BY <3>1, <3>2
    <2>. QED
      BY <2>4, <2>5
  <1>3. n \in S
    <2>. HIDE DEF Has
    <2>1. 0 \in S /\ \A k \in 1..n : k - 1 \in S => k \in S
      BY <1>1, <1>2
    <2>. HIDE DEF S
    <2>. QED
      BY <2>1, Induction
  <1>. QED
    BY <1>3 DEF IsFold

\* The intervals a fold runs through.
LEMMA Intervals ==
    ASSUME NEW n \in Nat, NEW k \in 1..n
    PROVE  /\ 1..k \in SUBSET (1..n) /\ 1..k # {} /\ 1..0 = {}
           /\ Max(1..k) = k /\ (1..k) \ {k} = 1..(k - 1)
  <1>1. k \in 1..k /\ \A y \in 1..k : k >= y
    OBVIOUS
  <1>2. \A z \in 1..k : (\A y \in 1..k : z >= y) => z = k
    OBVIOUS
  <1>3. Max(1..k) = k
    BY <1>1, <1>2 DEF Max
  <1>. QED
    BY <1>1, <1>3

LEMMA SeqFacts ==
    ASSUME NEW A, NEW s \in Seq(A)
    PROVE  /\ Len(s) \in Nat /\ DOMAIN s = 1..Len(s)
           /\ \A k \in 1..Len(s) : s[k] \in A
           /\ ToSet(s) \subseteq A
  BY DEF ToSet

\* Validate goes through the questions in their order.
LEMMA ValidateSteps ==
    ASSUME NEW s \in Seq(Questions), NEW previous
    PROVE  \E h \in [0..Len(s) -> Seq(Questions)] :
             /\ h[0] = <<>> /\ Validate(s, previous) = h[Len(s)]
             /\ \A k \in 1..Len(s) :
                  h[k] = IF s[k] \in Flawed \/ Repeated(s[k], previous \cup ToSet(h[k - 1]))
                         THEN h[k - 1] ELSE Append(h[k - 1], s[k])
  <1> DEFINE n == Len(s)
             A == Seq(Questions)
             Step(t, q) == IF q \in Flawed \/ Repeated(q, previous \cup ToSet(t))
                           THEN t ELSE Append(t, q)
             G == [p \in (1..n) \X A |-> Step(p[2], s[p[1]])]
  <1>1. n \in Nat /\ DOMAIN s = 1..n /\ \A k \in 1..n : s[k] \in Questions
    BY SeqFacts
  <1>2. \A k \in 1..n, t \in A : Step(t, s[k]) \in A
    BY <1>1
  <1>3. G \in [(1..n) \X A -> A] /\ <<>> \in A
    BY <1>2
  <1>4. PICK g \in [SUBSET (1..n) -> A] : IsFold(g, n, <<>>, G)
    <2>1. n \in Nat
      BY <1>1
    <2>. HIDE DEF G, A, n
    <2>. QED
      BY <2>1, <1>3, FoldExists
  <1>5. \A x \in SUBSET (1..n) : x # {} =>
          G[<<Max(x), g[x \ {Max(x)}]>>] = Step(g[x \ {Max(x)}], s[Max(x)])
    <2>. HIDE DEF Step, A
    <2>. QED
      BY <1>4 DEF IsFold
  <1>6. g = [x \in SUBSET DOMAIN s |->
               IF x = {} THEN <<>> ELSE Step(g[x \ {Max(x)}], s[Max(x)])]
    <2>. HIDE DEF Step, G, A, n
    <2>. QED
      BY <1>1, <1>4, <1>5 DEF IsFold
  <1>7. \E f : /\ Validate(s, previous) = f[DOMAIN s]
               /\ f = [x \in SUBSET DOMAIN s |->
                        IF x = {} THEN <<>> ELSE Step(f[x \ {Max(x)}], s[Max(x)])]
    BY <1>6, Zenon DEF Validate, FoldLeft, MapThenFoldSet
  <1>8. PICK f : /\ Validate(s, previous) = f[1..n]
                 /\ f = [x \in SUBSET (1..n) |->
                          IF x = {} THEN <<>> ELSE Step(f[x \ {Max(x)}], s[Max(x)])]
    BY <1>1, <1>7, Zenon
  <1> DEFINE h == [k \in 0..n |-> f[1..k]]
  <1>9. h[0] = <<>>
    BY <1>1, <1>8
  <1>10. ASSUME NEW k \in 1..n
         PROVE  h[k] = Step(h[k - 1], s[k])
    <2>1. f[1..k] = Step(f[1..(k - 1)], s[k])
      <3>1. /\ 1..k \in SUBSET (1..n) /\ 1..k # {}
            /\ Max(1..k) = k /\ (1..k) \ {k} = 1..(k - 1)
        BY <1>1, Intervals
      <3>. HIDE DEF Step, n
      <3>. QED
        BY <1>8, <3>1
    <2>2. h[k] = f[1..k] /\ h[k - 1] = f[1..(k - 1)]
      BY <1>1
    <2>. QED
      BY <2>1, <2>2
  <1>11. \A k \in 0..n : h[k] \in A
    <2> DEFINE S == {k \in 0..n : h[k] \in A}
    <2>1. 0 \in S
      <3>. HIDE DEF A, h
      <3>. QED
        BY <1>1, <1>3, <1>9
    <2>2. \A k \in 1..n : k - 1 \in S => k \in S
      <3>. HIDE DEF Step, A, h
      <3>. QED
        BY <1>1, <1>2, <1>10
    <2>3. \A k \in 0..n : k \in S
      <3>. HIDE DEF S
      <3>. QED
        BY <1>1, <2>1, <2>2, Induction
    <2>. QED
      BY <2>3
  <1>12. h \in [0..n -> A]
    BY <1>11
  <1>13. h[n] = f[1..n]
    BY <1>1
  <1>. HIDE DEF h
  <1>. QED
    BY <1>8, <1>9, <1>10, <1>12, <1>13

\* Take goes through the questions in their order: its run over them.
TakeRun(h, start, s, rules, level) ==
    /\ h[0] = start /\ Take(start, s, rules, level) = h[Len(s)]
    /\ \A k \in 1..Len(s) : h[k] = Turn(h[k - 1], s[k], rules, level)

LEMMA TakeSteps ==
    ASSUME NEW s \in Seq(Questions), NEW start \in Seq(Questions), NEW rules, NEW level
    PROVE  \E h \in [0..Len(s) -> Seq(Questions)] : TakeRun(h, start, s, rules, level)
  <1> DEFINE n == Len(s)
             A == Seq(Questions)
             Step(t, q) == Turn(t, q, rules, level)
             G == [p \in (1..n) \X A |-> Step(p[2], s[p[1]])]
  <1>1. n \in Nat /\ DOMAIN s = 1..n /\ \A k \in 1..n : s[k] \in Questions
    BY SeqFacts
  <1>2. \A k \in 1..n, t \in A : Step(t, s[k]) \in A
    BY <1>1 DEF Turn
  <1>3. G \in [(1..n) \X A -> A] /\ start \in A
    BY <1>2
  <1>4. PICK g \in [SUBSET (1..n) -> A] : IsFold(g, n, start, G)
    <2>1. n \in Nat
      BY <1>1
    <2>. HIDE DEF G, A, n
    <2>. QED
      BY <2>1, <1>3, FoldExists
  <1>5. \A x \in SUBSET (1..n) : x # {} =>
          G[<<Max(x), g[x \ {Max(x)}]>>] = Step(g[x \ {Max(x)}], s[Max(x)])
    <2>. HIDE DEF Step, A
    <2>. QED
      BY <1>4 DEF IsFold
  <1>6. g = [x \in SUBSET DOMAIN s |->
               IF x = {} THEN start ELSE Step(g[x \ {Max(x)}], s[Max(x)])]
    <2>. HIDE DEF Step, G, A, n
    <2>. QED
      BY <1>1, <1>4, <1>5 DEF IsFold
  <1>7. \E f : /\ Take(start, s, rules, level) = f[DOMAIN s]
               /\ f = [x \in SUBSET DOMAIN s |->
                        IF x = {} THEN start ELSE Step(f[x \ {Max(x)}], s[Max(x)])]
    BY <1>6, Zenon DEF Take, FoldLeft, MapThenFoldSet
  <1>8. PICK f : /\ Take(start, s, rules, level) = f[1..n]
                 /\ f = [x \in SUBSET (1..n) |->
                          IF x = {} THEN start ELSE Step(f[x \ {Max(x)}], s[Max(x)])]
    BY <1>1, <1>7, Zenon
  <1> DEFINE h == [k \in 0..n |-> f[1..k]]
  <1>9. h[0] = start
    BY <1>1, <1>8
  <1>10. ASSUME NEW k \in 1..n
         PROVE  h[k] = Step(h[k - 1], s[k])
    <2>1. f[1..k] = Step(f[1..(k - 1)], s[k])
      <3>1. /\ 1..k \in SUBSET (1..n) /\ 1..k # {}
            /\ Max(1..k) = k /\ (1..k) \ {k} = 1..(k - 1)
        BY <1>1, Intervals
      <3>. HIDE DEF Step, n
      <3>. QED
        BY <1>8, <3>1
    <2>2. h[k] = f[1..k] /\ h[k - 1] = f[1..(k - 1)]
      BY <1>1
    <2>. QED
      BY <2>1, <2>2
  <1>11. \A k \in 0..n : h[k] \in A
    <2> DEFINE S == {k \in 0..n : h[k] \in A}
    <2>1. 0 \in S
      <3>. HIDE DEF A, h
      <3>. QED
        BY <1>1, <1>3, <1>9
    <2>2. \A k \in 1..n : k - 1 \in S => k \in S
      <3>. HIDE DEF Step, A, h
      <3>. QED
        BY <1>1, <1>2, <1>10
    <2>3. \A k \in 0..n : k \in S
      <3>. HIDE DEF S
      <3>. QED
        BY <1>1, <2>1, <2>2, Induction
    <2>. QED
      BY <2>3
  <1>12. h \in [0..n -> A]
    BY <1>11
  <1>13. h[n] = f[1..n]
    BY <1>1
  <1>. HIDE DEF h
  <1>. QED
    BY <1>8, <1>9, <1>10, <1>12, <1>13 DEF TakeRun

\* What a history is extended by keeps its type.
LEMMA ExtendedType ==
    ASSUME NEW Values, NEW s \in Seq(Values), NEW start \in Seq(Values), NEW excluded
    PROVE  Extended(start, s, excluded) \in Seq(Values)
  <1> DEFINE n == Len(s)
             A == Seq(Values)
             Step(t, q) == IF q \in excluded \cup ToSet(t) THEN t ELSE Append(t, q)
             G == [p \in (1..n) \X A |-> Step(p[2], s[p[1]])]
  <1>1. n \in Nat /\ DOMAIN s = 1..n /\ \A k \in 1..n : s[k] \in Values
    BY SeqFacts
  <1>2. \A k \in 1..n, t \in A : Step(t, s[k]) \in A
    BY <1>1
  <1>3. G \in [(1..n) \X A -> A] /\ start \in A
    BY <1>2
  <1>4. PICK g \in [SUBSET (1..n) -> A] : IsFold(g, n, start, G)
    <2>1. n \in Nat
      BY <1>1
    <2>. HIDE DEF G, A, n
    <2>. QED
      BY <2>1, <1>3, FoldExists
  <1>5. \A x \in SUBSET (1..n) : x # {} =>
          G[<<Max(x), g[x \ {Max(x)}]>>] = Step(g[x \ {Max(x)}], s[Max(x)])
    <2>. HIDE DEF Step, A
    <2>. QED
      BY <1>4 DEF IsFold
  <1>6. g = [x \in SUBSET DOMAIN s |->
               IF x = {} THEN start ELSE Step(g[x \ {Max(x)}], s[Max(x)])]
    <2>. HIDE DEF Step, G, A, n
    <2>. QED
      BY <1>1, <1>4, <1>5 DEF IsFold
  <1>7. \E f : /\ Extended(start, s, excluded) = f[DOMAIN s]
               /\ f = [x \in SUBSET DOMAIN s |->
                        IF x = {} THEN start ELSE Step(f[x \ {Max(x)}], s[Max(x)])]
    BY <1>6, Zenon DEF Extended, FoldLeft, MapThenFoldSet
  <1>8. PICK f : /\ Extended(start, s, excluded) = f[1..n]
                 /\ f = [x \in SUBSET (1..n) |->
                          IF x = {} THEN start ELSE Step(f[x \ {Max(x)}], s[Max(x)])]
    BY <1>1, <1>7, Zenon
  <1> DEFINE h == [k \in 0..n |-> f[1..k]]
  <1>9. h[0] = start
    BY <1>1, <1>8
  <1>10. ASSUME NEW k \in 1..n
         PROVE  h[k] = Step(h[k - 1], s[k])
    <2>1. f[1..k] = Step(f[1..(k - 1)], s[k])
      <3>1. /\ 1..k \in SUBSET (1..n) /\ 1..k # {}
            /\ Max(1..k) = k /\ (1..k) \ {k} = 1..(k - 1)
        BY <1>1, Intervals
      <3>. HIDE DEF Step, n
      <3>. QED
        BY <1>8, <3>1
    <2>2. h[k] = f[1..k] /\ h[k - 1] = f[1..(k - 1)]
      BY <1>1
    <2>. QED
      BY <2>1, <2>2
  <1>11. \A k \in 0..n : h[k] \in A
    <2> DEFINE S == {k \in 0..n : h[k] \in A}
    <2>1. 0 \in S
      <3>. HIDE DEF A, h
      <3>. QED
        BY <1>1, <1>3, <1>9
    <2>2. \A k \in 1..n : k - 1 \in S => k \in S
      <3>. HIDE DEF Step, A, h
      <3>. QED
        BY <1>1, <1>2, <1>10
    <2>3. \A k \in 0..n : k \in S
      <3>. HIDE DEF S
      <3>. QED
        BY <1>1, <2>1, <2>2, Induction
    <2>. QED
      BY <2>3
  <1>12. h \in [0..n -> A]
    BY <1>11
  <1>13. h[n] = f[1..n]
    BY <1>1
  <1>14. h[n] \in A
    <2>. HIDE DEF h, A
    <2>. QED
      BY <1>1, <1>11
  <1>. HIDE DEF h
  <1>. QED
    BY <1>8, <1>13, <1>14

LEMMA AppendFacts ==
    ASSUME NEW A, NEW s \in Seq(A), NEW x \in A
    PROVE  /\ Append(s, x) \in Seq(A) /\ Len(Append(s, x)) = Len(s) + 1
           /\ ToSet(Append(s, x)) = ToSet(s) \cup {x}
           /\ IsInjective(s) /\ x \notin ToSet(s) => IsInjective(Append(s, x))
  <1>1. /\ Len(s) \in Nat /\ DOMAIN s = 1..Len(s)
        /\ Append(s, x) \in Seq(A) /\ Len(Append(s, x)) = Len(s) + 1
        /\ DOMAIN Append(s, x) = 1..(Len(s) + 1)
        /\ \A i \in 1..Len(s) : Append(s, x)[i] = s[i]
        /\ Append(s, x)[Len(s) + 1] = x
    OBVIOUS
  <1>2. ToSet(Append(s, x)) = ToSet(s) \cup {x}
    BY <1>1 DEF ToSet
  <1>3. ASSUME IsInjective(s), x \notin ToSet(s)
        PROVE  IsInjective(Append(s, x))
    <2>1. SUFFICES ASSUME NEW i \in 1..(Len(s) + 1), NEW j \in 1..(Len(s) + 1),
                          Append(s, x)[i] = Append(s, x)[j]
                   PROVE  i = j
      BY <1>1, <2>1 DEF IsInjective
    <2>2. \A k \in 1..Len(s) : s[k] # x
      BY <1>1, <1>3 DEF ToSet
    <2>3. \A k, l \in 1..Len(s) : s[k] = s[l] => k = l
      BY <1>1, <1>3 DEF IsInjective
    <2>. QED
      BY <1>1, <2>1, <2>2, <2>3
  <1>. QED
    BY <1>1, <1>2, <1>3

\* What Validate keeps: questions of the list without a flaw, unlike the ones
\* asked before and unlike each other.
LEMMA ValidateFacts ==
    ASSUME NEW s \in Seq(Questions), NEW previous
    PROVE  LET v == Validate(s, previous) IN
           /\ v \in Seq(Questions) /\ IsInjective(v)
           /\ ToSet(v) \subseteq ToSet(s) /\ ToSet(v) \cap Flawed = {}
           /\ \A x \in ToSet(v) : ~ Repeated(x, previous)
           /\ \A x, y \in ToSet(v) : x # y => <<x, y>> \notin Alike
  <1> DEFINE Good == {v \in Seq(Questions) :
               /\ IsInjective(v)
               /\ ToSet(v) \subseteq ToSet(s) /\ ToSet(v) \cap Flawed = {}
               /\ \A x \in ToSet(v) : ~ Repeated(x, previous)
               /\ \A x, y \in ToSet(v) : x # y => <<x, y>> \notin Alike}
  <1>1. PICK h \in [0..Len(s) -> Seq(Questions)] :
             /\ h[0] = <<>> /\ Validate(s, previous) = h[Len(s)]
             /\ \A k \in 1..Len(s) :
                  h[k] = IF s[k] \in Flawed \/ Repeated(s[k], previous \cup ToSet(h[k - 1]))
                         THEN h[k - 1] ELSE Append(h[k - 1], s[k])
    BY ValidateSteps
  <1>2. Len(s) \in Nat /\ \A k \in 1..Len(s) : s[k] \in Questions /\ s[k] \in ToSet(s)
    BY SeqFacts DEF ToSet
  <1>3. <<>> \in Good
    <2>1. ToSet(<<>>) = {} /\ IsInjective(<<>>) /\ <<>> \in Seq(Questions)
      BY DEF ToSet, IsInjective
    <2>. QED
      BY <2>1
  <1>4. ASSUME NEW v \in Good, NEW q \in Questions, q \in ToSet(s), q \notin Flawed,
               ~ Repeated(q, previous \cup ToSet(v))
        PROVE  Append(v, q) \in Good
    <2>1. q \notin ToSet(v)
      BY <1>4 DEF Repeated
    <2>2. /\ Append(v, q) \in Seq(Questions) /\ ToSet(Append(v, q)) = ToSet(v) \cup {q}
          /\ IsInjective(Append(v, q))
      BY <2>1, AppendFacts
    <2>3. ~ Repeated(q, previous)
      BY <1>4 DEF Repeated
    <2>4. \A y \in ToSet(v) : <<q, y>> \notin Alike /\ <<y, q>> \notin Alike
      BY <1>4 DEF Repeated
    <2>. QED
      BY <1>4, <2>2, <2>3, <2>4
  <1> DEFINE S == {k \in 0..Len(s) : h[k] \in Good}
  <1>5. 0 \in S
    <2>. HIDE DEF Good
    <2>. QED
      BY <1>1, <1>2, <1>3
  <1>6. ASSUME NEW k \in 1..Len(s), k - 1 \in S
        PROVE  k \in S
    <2>1. k \in 0..Len(s) /\ h[k - 1] \in Good /\ s[k] \in Questions /\ s[k] \in ToSet(s)
      BY <1>2, <1>6
    <2>. HIDE DEF Good
    <2>2. CASE s[k] \in Flawed \/ Repeated(s[k], previous \cup ToSet(h[k - 1]))
      BY <1>1, <2>1, <2>2
    <2>3. CASE ~ (s[k] \in Flawed \/ Repeated(s[k], previous \cup ToSet(h[k - 1])))
      <3>1. h[k] = Append(h[k - 1], s[k])
        BY <1>1, <2>3
      <3>2. Append(h[k - 1], s[k]) \in Good
        BY <1>4, <2>1, <2>3
      <3>. QED
        BY <2>1, <3>1, <3>2
    <2>. QED
      BY <2>2, <2>3
  <1>7. Len(s) \in S
    <2>. HIDE DEF S
    <2>1. \A k \in 1..Len(s) : k - 1 \in S => k \in S
      BY <1>6
    <2>2. \A k \in 0..Len(s) : k \in S
      BY <1>2, <1>5, <2>1, Induction
    <2>. QED
      BY <1>2, <2>2
  <1>. QED
    BY <1>1, <1>7

\* What Take returns: what it starts with and questions of the list, none twice
\* and Count at most; without rules it takes the whole list or fills up.
LEMMA TakeFacts ==
    ASSUME NEW s \in Seq(Questions), NEW start \in Seq(Questions), NEW rules, NEW level,
           IsInjective(start), Len(start) <= Count
    PROVE  LET t == Take(start, s, rules, level) IN
           /\ t \in Seq(Questions) /\ IsInjective(t) /\ Len(t) <= Count
           /\ ToSet(start) \subseteq ToSet(t) /\ ToSet(t) \subseteq ToSet(start) \cup ToSet(s)
           /\ rules = {} => Len(t) = Count \/ ToSet(s) \subseteq ToSet(t)
  <1> DEFINE Good == {t \in Seq(Questions) :
               /\ IsInjective(t) /\ Len(t) <= Count
               /\ ToSet(start) \subseteq ToSet(t) /\ ToSet(t) \subseteq ToSet(start) \cup ToSet(s)}
  <1>1. PICK h \in [0..Len(s) -> Seq(Questions)] :
          TakeRun(h, start, s, rules, level)
    BY TakeSteps
  <1>2. /\ Len(s) \in Nat /\ DOMAIN s = 1..Len(s) /\ Count \in Nat
        /\ \A k \in 1..Len(s) : s[k] \in Questions /\ s[k] \in ToSet(s)
    BY SeqFacts, EnglishAssumption DEF ToSet
  <1>3. start \in Good
    OBVIOUS
  <1>4. ASSUME NEW t \in Good, NEW q \in Questions, q \in ToSet(s),
               Len(t) < Count, q \notin ToSet(t)
        PROVE  Append(t, q) \in Good
    <2>1. /\ Append(t, q) \in Seq(Questions) /\ ToSet(Append(t, q)) = ToSet(t) \cup {q}
          /\ IsInjective(Append(t, q)) /\ Len(Append(t, q)) = Len(t) + 1
      BY <1>4, AppendFacts
    <2>. QED
      BY <1>2, <1>4, <2>1
  <1> DEFINE Full(k) == Len(h[k]) = Count \/ \A j \in 1..k : s[j] \in ToSet(h[k])
             S == {k \in 0..Len(s) : h[k] \in Good /\ (rules = {} => Full(k))}
  <1>5. 0 \in S
    <2>. HIDE DEF Good
    <2>. QED
      BY <1>1, <1>2, <1>3 DEF TakeRun
  <1>6. ASSUME NEW k \in 1..Len(s), k - 1 \in S
        PROVE  k \in S
    <2>1. /\ k \in 0..Len(s) /\ h[k - 1] \in Good /\ h[k - 1] \in Seq(Questions)
          /\ s[k] \in Questions /\ s[k] \in ToSet(s)
          /\ Len(h[k - 1]) \in Nat /\ Len(h[k - 1]) <= Count
      BY <1>2, <1>6
    <2>2. rules = {} => Full(k - 1)
      BY <1>6
    <2>3. CASE /\ Len(h[k - 1]) < Count /\ s[k] \notin ToSet(h[k - 1])
               /\ May(rules, s[k], h[k - 1], level)
      <3>1. h[k] = Append(h[k - 1], s[k])
        BY <1>1, <2>3 DEF Turn, TakeRun
      <3>2. h[k] \in Good
        <4>. HIDE DEF Good
        <4>. QED
          BY <1>4, <2>1, <2>3, <3>1
      <3>3. ToSet(h[k]) = ToSet(h[k - 1]) \cup {s[k]}
        BY <2>1, <3>1, AppendFacts
      <3>4. rules = {} => Full(k)
        BY <2>2, <2>3, <3>3
      <3>. QED
        BY <2>1, <3>2, <3>4
    <2>4. CASE ~ /\ Len(h[k - 1]) < Count /\ s[k] \notin ToSet(h[k - 1])
                 /\ May(rules, s[k], h[k - 1], level)
      <3>1. h[k] = h[k - 1]
        BY <1>1, <2>4 DEF Turn, TakeRun
      <3>2. rules = {} => May(rules, s[k], h[k - 1], level)
        BY DEF May
      <3>3. rules = {} => Len(h[k]) = Count \/ s[k] \in ToSet(h[k])
        BY <1>2, <2>1, <2>4, <3>1, <3>2
      <3>4. rules = {} => Full(k)
        BY <2>2, <3>1, <3>3
      <3>. QED
        BY <2>1, <3>1, <3>4
    <2>. QED
      BY <2>3, <2>4
  <1>7. Len(s) \in S
    <2>. HIDE DEF S
    <2>1. \A k \in 1..Len(s) : k - 1 \in S => k \in S
      BY <1>6
    <2>2. \A k \in 0..Len(s) : k \in S
      BY <1>2, <1>5, <2>1, Induction
    <2>. QED
      BY <1>2, <2>2
  <1>8. rules = {} => Len(h[Len(s)]) = Count \/ ToSet(s) \subseteq ToSet(h[Len(s)])
    BY <1>2, <1>7 DEF ToSet
  <1>. QED
    BY <1>1, <1>7, <1>8 DEF TakeRun

\* A sequence without repetition is as long as its set is large, and no longer
\* than a sequence that holds its elements.
LEMMA Distinct ==
    ASSUME NEW A, NEW s \in Seq(A), IsInjective(s)
    PROVE  /\ IsFiniteSet(ToSet(s)) /\ Cardinality(ToSet(s)) = Len(s)
           /\ \A t \in Seq(A) : ToSet(s) \subseteq ToSet(t) => Len(s) <= Len(t)
  <1>1. ASSUME NEW t \in Seq(A)
        PROVE  t \in Surjection(1..Len(t), ToSet(t)) /\ Len(t) \in Nat
    BY DEF Surjection, ToSet
  <1>2. s \in Bijection(1..Len(s), ToSet(s))
    <2>1. s \in Injection(1..Len(s), ToSet(s))
      BY DEF Injection, IsInjective, ToSet
    <2>. QED
      BY <1>1, <2>1 DEF Bijection
  <1>3. IsFiniteSet(ToSet(s)) /\ Cardinality(ToSet(s)) = Len(s)
    <2>1. ExistsBijection(1..Len(s), ToSet(s)) /\ Len(s) \in Nat
      BY <1>2 DEF ExistsBijection
    <2>2. IsFiniteSet(1..Len(s)) /\ Cardinality(1..Len(s)) = Len(s)
      BY <2>1, FS_Interval
    <2>. QED
      BY <2>1, <2>2, FS_Bijection
  <1>4. ASSUME NEW t \in Seq(A), ToSet(s) \subseteq ToSet(t)
        PROVE  Len(s) <= Len(t)
    <2>1. IsFiniteSet(1..Len(t)) /\ Cardinality(1..Len(t)) = Len(t)
      <3>1. \A n \in Nat : IsFiniteSet(1..n) /\ Cardinality(1..n) = n
        BY FS_Interval
      <3>. QED
        BY <3>1
    <2>2. IsFiniteSet(ToSet(t)) /\ Cardinality(ToSet(t)) <= Len(t)
      BY <1>1, <2>1, FS_Surjection
    <2>3. Cardinality(ToSet(s)) <= Cardinality(ToSet(t))
      BY <1>4, <2>2, FS_Subset
    <2>4. Cardinality(ToSet(s)) \in Nat /\ Cardinality(ToSet(t)) \in Nat
      BY <1>3, <2>2, FS_CardinalityType
    <2>. QED
      BY <1>1, <1>3, <2>2, <2>3, <2>4
  <1>. QED
    BY <1>3, <1>4

-----------------------------------------------------------------------------
(* A quiz is whole                                                          *)

LEMMA ConstantFacts ==
    /\ Count \in Nat /\ Count > 0 /\ Table \in Seq(Questions) /\ IsInjective(Table)
    /\ Count <= Len(Table) /\ ToSet(Table) \cap Flawed = {} /\ ToSet(Table) \subseteq Questions
  BY EnglishAssumption, SeqFacts

\* From Count questions or more the selection takes Count of them.
LEMMA BalancedFacts ==
    ASSUME NEW order \in Seq(Questions), IsInjective(order), Len(order) >= Count, NEW level
    PROVE  LET b == Balanced(order, level) IN
           /\ b \in Seq(Questions) /\ IsInjective(b) /\ Len(b) = Count
           /\ ToSet(b) \subseteq ToSet(order)
  <1> DEFINE types == Take(<<>>, order, {"type", "pattern"}, level)
             more == Take(types, order, {"pattern"}, level)
             all == Take(more, order, {}, level)
  <1>0. Count \in Nat /\ Len(order) \in Nat
    BY ConstantFacts
  <1>1. /\ types \in Seq(Questions) /\ IsInjective(types) /\ Len(types) <= Count
        /\ ToSet(types) \subseteq ToSet(order)
    <2>1. <<>> \in Seq(Questions) /\ IsInjective(<<>>) /\ Len(<<>>) <= Count /\ ToSet(<<>>) = {}
      BY <1>0 DEF IsInjective, ToSet
    <2>. QED
      BY <2>1, TakeFacts
  <1>2. /\ more \in Seq(Questions) /\ IsInjective(more) /\ Len(more) <= Count
        /\ ToSet(more) \subseteq ToSet(order)
    <2>. HIDE DEF types
    <2>. QED
      BY <1>1, TakeFacts
  <1>3. /\ all \in Seq(Questions) /\ IsInjective(all) /\ Len(all) <= Count
        /\ ToSet(all) \subseteq ToSet(order)
        /\ Len(all) = Count \/ ToSet(order) \subseteq ToSet(all)
    <2>. HIDE DEF more
    <2>. QED
      BY <1>2, TakeFacts
  <1>4. Len(all) = Count
    <2>1. ToSet(order) \subseteq ToSet(all) => Len(order) <= Len(all)
      BY <1>3, Distinct
    <2>2. Len(all) \in Nat
      BY <1>3
    <2>. HIDE DEF all
    <2>. QED
      BY <1>0, <1>3, <2>1, <2>2
  <1>5. CASE level # "advanced" /\ Len(order) <= Count
    <2>1. Balanced(order, level) = order /\ Len(order) = Count
      BY <1>0, <1>5 DEF Balanced
    <2>. QED
      BY <2>1
  <1>6. CASE ~ (level # "advanced" /\ Len(order) <= Count)
    <2>1. Balanced(order, level) = all
      BY <1>6, Zenon DEF Balanced
    <2>. HIDE DEF all
    <2>. QED
      BY <1>3, <1>4, <2>1
  <1>. QED
    BY <1>5, <1>6

LEMMA SelectionsFacts ==
    ASSUME NEW s \in Seq(Questions), IsInjective(s), Len(s) >= Count, NEW level,
           NEW quiz \in Selections(s, level)
    PROVE  /\ quiz \in Seq(Questions) /\ IsInjective(quiz) /\ Len(quiz) = Count
           /\ ToSet(quiz) \subseteq ToSet(s)
  <1>1. PICK order \in SetToSeqs(ToSet(s)) : quiz = Balanced(order, level)
    BY DEF Selections
  <1>2. Cardinality(ToSet(s)) = Len(s) /\ Len(s) \in Nat /\ ToSet(s) \subseteq Questions
    BY Distinct, SeqFacts
  <1>3. /\ order \in [1..Len(s) -> ToSet(s)]
        /\ \A i, j \in 1..Len(s) : i # j => order[i] # order[j]
    BY <1>2 DEF SetToSeqs
  <1>4. /\ order \in Seq(Questions) /\ Len(order) = Len(s) /\ IsInjective(order)
        /\ ToSet(order) \subseteq ToSet(s)
    <2>1. order \in Seq(Questions) /\ Len(order) = Len(s)
      BY <1>2, <1>3
    <2>2. IsInjective(order)
      BY <1>3 DEF IsInjective
    <2>3. ToSet(order) \subseteq ToSet(s)
      BY <1>3 DEF ToSet
    <2>. QED
      BY <2>1, <2>2, <2>3
  <1>. QED
    BY <1>1, <1>4, BalancedFacts

\* The order of a shuffle in SetToSeqs for a set of questions kept from a list.
LEMMA ShuffleFacts ==
    ASSUME NEW s \in Seq(Questions), IsInjective(s), NEW order \in SetToSeqs(ToSet(s))
    PROVE  order \in Seq(Questions) /\ ToSet(order) \subseteq ToSet(s)
  <1>1. Cardinality(ToSet(s)) = Len(s) /\ Len(s) \in Nat /\ ToSet(s) \subseteq Questions
    BY Distinct, SeqFacts
  <1>2. order \in [1..Len(s) -> ToSet(s)]
    BY <1>1 DEF SetToSeqs
  <1>3. order \in Seq(Questions)
    BY <1>1, <1>2
  <1>4. ToSet(order) \subseteq ToSet(s)
    BY <1>2 DEF ToSet
  <1>. QED
    BY <1>3, <1>4

\* The fallback is whole, whatever was asked before.
LEMMA FallbackWhole ==
    ASSUME NEW s, NEW quiz \in Fallback(s)
    PROVE  quiz \in Seq(Questions) /\ Whole(quiz)
  <1> DEFINE fresh == Validate(Table, ToSet(s.previous))
  <1>1. PICK q : /\ q = Table \/ (q = fresh /\ ~ (Len(fresh) < Count))
                 /\ quiz \in Selections(q, s.level)
    BY DEF Fallback
  <1>2. /\ q \in Seq(Questions) /\ IsInjective(q) /\ ToSet(q) \subseteq ToSet(Table)
        /\ Len(q) >= Count
    <2>1. fresh \in Seq(Questions) /\ IsInjective(fresh) /\ ToSet(fresh) \subseteq ToSet(Table)
      BY ConstantFacts, ValidateFacts
    <2>2. Len(fresh) \in Nat
      BY <2>1
    <2>. HIDE DEF fresh
    <2>. QED
      BY <1>1, <2>1, <2>2, ConstantFacts
  <1>3. /\ quiz \in Seq(Questions) /\ IsInjective(quiz) /\ Len(quiz) = Count
        /\ ToSet(quiz) \subseteq ToSet(q)
    BY <1>1, <1>2, SelectionsFacts
  <1>. QED
    BY <1>2, <1>3, ConstantFacts DEF Whole

\* What the model may write is a sequence of questions.
LEMMA AnswersAreSequences ==
    ASSUME NEW a \in Answers
    PROVE  a \in Seq(Questions)
  <1>1. PICK S \in SUBSET Generated : IsFiniteSet(S) /\ a \in SetToSeqs(S)
    BY DEF Answers
  <1>2. Cardinality(S) \in Nat
    BY <1>1, FS_CardinalityType
  <1>3. a \in [1..Cardinality(S) -> Questions]
    BY <1>1 DEF SetToSeqs, Questions
  <1>. QED
    BY <1>2, <1>3

\* Questions of use, completed from the table where they are too few: none
\* twice or flawed, and two that are alike both come from the table.
LEMMA MadeFacts ==
    ASSUME NEW a \in Answers, NEW previous,
           NEW questions \in LET valid == Validate(a, previous)
                             IN  IF Len(valid) >= Count THEN {valid}
                                 ELSE Completions(valid, previous)
    PROVE  /\ questions \in Seq(Questions) /\ IsInjective(questions)
           /\ ToSet(questions) \cap Flawed = {}
           /\ \A x, y \in ToSet(questions) :
                x # y /\ <<x, y>> \in Alike => {x, y} \subseteq ToSet(Table)
  <1> DEFINE valid == Validate(a, previous)
             usable == Validate(Table, previous \cup ToSet(valid))
  <1>1. a \in Seq(Questions)
    BY AnswersAreSequences
  <1>2. /\ valid \in Seq(Questions) /\ IsInjective(valid) /\ ToSet(valid) \cap Flawed = {}
        /\ \A x, y \in ToSet(valid) : x # y => <<x, y>> \notin Alike
    BY <1>1, ValidateFacts
  <1>3. Len(valid) \in Nat /\ Count \in Nat
    <2>. HIDE DEF valid
    <2>. QED
      BY <1>2, ConstantFacts
  <1>4. CASE Len(valid) >= Count
    <2>1. questions = valid
      BY <1>4
    <2>. HIDE DEF valid
    <2>. QED
      BY <1>2, <2>1
  <1>5. CASE ~ (Len(valid) >= Count)
    <2>1. PICK o \in SetToSeqs(ToSet(usable)) : questions = Completed(valid, o)
      BY <1>5 DEF Completions
    <2>2. /\ usable \in Seq(Questions) /\ IsInjective(usable)
          /\ ToSet(usable) \subseteq ToSet(Table) /\ ToSet(usable) \cap Flawed = {}
          /\ \A x \in ToSet(usable) : ~ Repeated(x, previous \cup ToSet(valid))
      <3>. HIDE DEF valid
      <3>. QED
        BY ConstantFacts, ValidateFacts
    <2>3. \A x \in ToSet(usable), y \in ToSet(valid) :
            x # y /\ <<x, y>> \notin Alike /\ <<y, x>> \notin Alike
      <3>. HIDE DEF valid, usable
      <3>. QED
        BY <2>2 DEF Repeated
    <2>4. o \in Seq(Questions) /\ ToSet(o) \subseteq ToSet(usable)
      <3>. HIDE DEF usable
      <3>. QED
        BY <2>1, <2>2, ShuffleFacts
    <2> DEFINE new == Take(valid, o, {"type"}, "none")
    <2>5. /\ new \in Seq(Questions) /\ IsInjective(new) /\ Len(new) <= Count
          /\ ToSet(new) \subseteq ToSet(valid) \cup ToSet(o)
      <3>. HIDE DEF valid
      <3>1. Len(valid) <= Count
        BY <1>3, <1>5
      <3>. QED
        BY <1>2, <2>4, <3>1, TakeFacts
    <2>6. /\ questions \in Seq(Questions) /\ IsInjective(questions)
          /\ ToSet(questions) \subseteq ToSet(new) \cup ToSet(o)
      <3>1. questions = Take(new, o, {}, "none")
        BY <2>1 DEF Completed
      <3>. HIDE DEF new
      <3>. QED
        BY <2>4, <2>5, <3>1, TakeFacts
    <2>7. ToSet(questions) \subseteq ToSet(valid) \cup ToSet(usable)
      <3>. HIDE DEF valid, usable, new
      <3>. QED
        BY <2>4, <2>5, <2>6
    <2>. HIDE DEF valid, usable, new
    <2>. QED
      BY <1>2, <2>2, <2>3, <2>6, <2>7
  <1>. QED
    BY <1>4, <1>5

\* The quizzes StartQuiz may store.
LEMMA MadeWhole ==
    ASSUME NEW a \in Answers, NEW previous, NEW s,
           NEW questions \in LET valid == Validate(a, previous)
                             IN  IF Len(valid) >= Count THEN {valid}
                                 ELSE Completions(valid, previous),
           NEW quiz \in IF Len(questions) < Count THEN Fallback(s)
                        ELSE Selections(questions, s.level)
    PROVE  quiz \in Seq(Questions) /\ Whole(quiz)
  <1>1. /\ questions \in Seq(Questions) /\ IsInjective(questions)
        /\ ToSet(questions) \cap Flawed = {}
        /\ \A x, y \in ToSet(questions) :
             x # y /\ <<x, y>> \in Alike => {x, y} \subseteq ToSet(Table)
    BY MadeFacts, Zenon
  <1>2. CASE Len(questions) < Count
    BY <1>2, FallbackWhole
  <1>3. CASE ~ (Len(questions) < Count)
    <2>1. /\ quiz \in Seq(Questions) /\ IsInjective(quiz) /\ Len(quiz) = Count
          /\ ToSet(quiz) \subseteq ToSet(questions)
      <3>1. Len(questions) >= Count
        BY <1>1, <1>3, ConstantFacts
      <3>2. quiz \in Selections(questions, s.level)
        BY <1>3
      <3>. QED
        BY <1>1, <3>1, <3>2, SelectionsFacts
    <2>. QED
      BY <1>1, <2>1 DEF Whole
  <1>. QED
    BY <1>2, <1>3

-----------------------------------------------------------------------------
-----------------------------------------------------------------------------
(* Types                                                                    *)

LEMMA LatestFacts ==
    ASSUME NEW A, NEW s \in Seq(A), NEW limit \in Nat \ {0}
    PROVE  Latest(s, limit) \in Seq(A) /\ Len(Latest(s, limit)) <= limit
  BY DEF Latest

LEMMA RememberType ==
    ASSUME NEW previous \in Seq(Questions), NEW quiz \in Seq(Questions)
    PROVE  /\ Remember(previous, quiz) \in Seq(Questions)
           /\ Len(Remember(previous, quiz)) <= HistoryLimit
  <1>1. Extended(previous, quiz, {}) \in Seq(Questions)
    BY ExtendedType
  <1>2. HistoryLimit \in Nat \ {0}
    BY EnglishAssumption
  <1>. QED
    BY <1>1, <1>2, LatestFacts DEF Remember

LEMMA AppendRecentType ==
    ASSUME NEW recent \in Seq(Tasks), NEW x \in Tasks
    PROVE  /\ AppendRecent(recent, x) \in Seq(Tasks)
           /\ Len(AppendRecent(recent, x)) <= RecentLimit
  <1>1. <<>> \in Seq(Tasks)
    OBVIOUS
  <1>2. Extended(<<>>, recent, {x}) \in Seq(Tasks)
    BY <1>1, ExtendedType
  <1>3. Append(Extended(<<>>, recent, {x}), x) \in Seq(Tasks)
    BY <1>2
  <1>4. RecentLimit \in Nat \ {0}
    BY EnglishAssumption
  <1>. QED
    BY <1>3, <1>4, LatestFacts DEF AppendRecent

LEMMA SessionIsOne ==
    /\ None \notin Session /\ None.step = "none"
    /\ TypeOK /\ session # None => session \in Session
  <1>1. None.step = "none"
    BY DEF None
  <1>2. None \notin Session
    BY <1>1 DEF Session, Steps
  <1>. QED
    BY <1>1, <1>2 DEF TypeOK

LEMMA SessionFields ==
    ASSUME NEW s \in Session
    PROVE  /\ s.step \in Steps /\ s.level \in Levels \cup {"none"} /\ s.quiz \in Seq(Questions)
           /\ s.number \in 0..MaxQuizzes /\ s.index \in 0..Count
           /\ s.type \in WritingTypes \cup {"none"}
           /\ s.text \in [WritingTypes -> Tasks \cup {"none"}]
           /\ s.previous \in Seq(Questions)
           /\ s.recent \in [WritingTypes -> Seq(Tasks)]
  BY DEF Session

LEMMA NewSessionType ==
    /\ MaxQuizzes \in Nat /\ NewSession \in Session
    /\ NewSession.level = "none" /\ NewSession.quiz = <<>> /\ NewSession.index = 0
    /\ NewSession.number = 0 /\ NewSession.type = "none"
    /\ NewSession.text = [t \in WritingTypes |-> "none"]
    /\ NewSession.previous = <<>> /\ NewSession.recent = [t \in WritingTypes |-> <<>>]
  <1>1. MaxQuizzes \in Nat /\ Count \in Nat
    BY EnglishAssumption
  <1>. QED
    BY <1>1 DEF NewSession, Session, Steps

\* What a thread holds in each of its states.
LEMMA RequestFields ==
    ASSUME NEW r \in Request
    PROVE  /\ r.do \in {"idle", "clearing", "asking", "sending", "grading", "formatting",
                        "choosing", "store_text", "store_recent", "store_waiting",
                        "generating", "validating", "store_index", "store_step",
                        "store_previous", "looking", "answering", "choosing_mode",
                        "finishing"}
           /\ r.do = "idle" => r = Idle
           /\ r.do = "clearing" => r.key \in Keys /\ r.quiz \in BOOLEAN
           /\ r.do = "choosing" => r.type \in WritingTypes /\ r.past \in SUBSET Tasks
           /\ r.do \in {"store_text", "store_recent", "store_waiting"}
                => r.type \in WritingTypes /\ r.task \in Tasks
           /\ r.do \in {"generating", "validating"} => r.previous \in SUBSET Questions
           /\ r.do \in {"store_index", "store_step", "store_previous"} => r.quiz \in Seq(Questions)
           /\ r.do = "looking" => /\ r.why \in {"answer", "question"} /\ r.length \in {0, Count}
                                  /\ r.number \in 0..MaxQuizzes
           /\ r.do = "answering" => r.number \in 0..MaxQuizzes /\ r.index \in 0..(Count - 1)
           /\ r.do = "finishing" => r.number \in 0..MaxQuizzes
  BY DEF Request, Idle

\* A thread that goes on with what it holds.
LEMMA RequestSteps ==
    ASSUME NEW r \in Request
    PROVE  /\ r.do = "clearing" /\ r.key + 1 \in Keys =>
                LET n == [r EXCEPT !.key = @ + 1] IN
                n \in Request /\ n.do = r.do /\ n.key = r.key + 1 /\ n.quiz = r.quiz
           /\ r.do = "store_text" =>
                LET n == [r EXCEPT !.do = "store_recent"] IN
                n \in Request /\ n.do = "store_recent" /\ n.type = r.type /\ n.task = r.task
           /\ r.do = "store_recent" =>
                LET n == [r EXCEPT !.do = "store_waiting"] IN
                n \in Request /\ n.do = "store_waiting" /\ n.type = r.type /\ n.task = r.task
           /\ r.do = "generating" =>
                LET n == [r EXCEPT !.do = "validating"] IN n \in Request /\ n.do = "validating"
           /\ r.do = "store_index" =>
                LET n == [r EXCEPT !.do = "store_step"] IN n \in Request /\ n.do = "store_step"
           /\ r.do = "store_step" =>
                LET n == [r EXCEPT !.do = "store_previous"] IN
                n \in Request /\ n.do = "store_previous"
  BY DEF Request, Idle, Keys

\* A thread that becomes something else leaves the others as they are.
OthersStay(h) == \A g \in Handlers : g # h => req'[g] = req[g]

LEMMA BecomeFacts ==
    ASSUME req \in [Handlers -> Request], NEW h \in Handlers, NEW r \in Request, Become(h, r)
    PROVE  req' \in [Handlers -> Request] /\ req'[h] = r /\ OthersStay(h)
  BY DEF Become, OthersStay

LEMMA IdleFacts == Idle \in Request /\ Idle.do = "idle"
  BY DEF Request, Idle

\* A thread whose record is r makes a quiz, or is yet to set the step of one.
Makes(r) ==
    \/ r.do \in {"asking", "generating", "validating", "store_index"}
    \/ r.do = "clearing" /\ r.quiz
Replaces(r) == Makes(r) \/ r.do = "store_step"

LEMMA ThreadSets ==
    /\ Making = {h \in Handlers : Makes(req[h])}
    /\ Replacing = {h \in Handlers : Replaces(req[h])}
    /\ Making' = {h \in Handlers : Makes(req'[h])}
    /\ Replacing' = {h \in Handlers : Replaces(req'[h])}
  BY DEF Making, Replacing, Makes, Replaces

\* The threads that make a quiz are finitely many: how their number goes when
\* one thread changes.
LEMMA MakingCounts ==
    ASSUME NEW h \in Handlers, OthersStay(h)
    PROVE  /\ Cardinality(Making) \in Nat /\ Cardinality(Making') \in Nat
           /\ Makes(req[h]) <=> Makes(req'[h]) => Making' = Making
           /\ ~ Makes(req'[h]) => Cardinality(Making') <= Cardinality(Making)
           /\ Makes(req[h]) /\ ~ Makes(req'[h]) => Cardinality(Making') = Cardinality(Making) - 1
           /\ Cardinality(Making') <= Cardinality(Making) + 1
  <1>1. IsFiniteSet(Making) /\ Cardinality(Making) \in Nat
    BY EnglishAssumption, FS_Subset, FS_CardinalityType DEF Making
  <1>2. /\ Makes(req'[h]) => Making' = Making \cup {h}
        /\ ~ Makes(req'[h]) => Making' = Making \ {h}
        /\ h \in Making <=> Makes(req[h])
    BY ThreadSets DEF OthersStay
  <1>3. /\ IsFiniteSet(Making \cup {h})
        /\ Cardinality(Making \cup {h})
             = IF h \in Making THEN Cardinality(Making) ELSE Cardinality(Making) + 1
    BY <1>1, FS_AddElement
  <1>4. /\ IsFiniteSet(Making \ {h})
        /\ Cardinality(Making \ {h})
             = IF h \in Making THEN Cardinality(Making) - 1 ELSE Cardinality(Making)
    BY <1>1, FS_RemoveElement
  <1>5. Cardinality(Making \cup {h}) \in Nat /\ Cardinality(Making \ {h}) \in Nat
    BY <1>3, <1>4, FS_CardinalityType
  <1>6. CASE Makes(req[h]) /\ Makes(req'[h])
    <2>1. Making' = Making
      BY <1>2, <1>6
    <2>. QED
      BY <1>1, <1>6, <2>1
  <1>7. CASE ~ Makes(req[h]) /\ ~ Makes(req'[h])
    <2>1. Making' = Making
      BY <1>2, <1>7
    <2>. QED
      BY <1>1, <1>7, <2>1
  <1>8. CASE ~ Makes(req[h]) /\ Makes(req'[h])
    <2>1. /\ Making' = Making \cup {h} /\ h \notin Making
          /\ Cardinality(Making \cup {h}) = Cardinality(Making) + 1
      BY <1>2, <1>3, <1>8
    <2>. QED
      BY <1>1, <1>8, <2>1
  <1>9. CASE Makes(req[h]) /\ ~ Makes(req'[h])
    <2>1. /\ Making' = Making \ {h} /\ h \in Making
          /\ Cardinality(Making \ {h}) = Cardinality(Making) - 1
      BY <1>2, <1>4, <1>9
    <2>. QED
      BY <1>1, <1>5, <1>9, <2>1
  <1>. QED
    BY <1>6, <1>7, <1>8, <1>9, Zenon

-----------------------------------------------------------------------------
(* Steps                                                                    *)

LEMMA InvFacts ==
    ASSUME IInv
    PROVE  /\ req \in [Handlers -> Request] /\ judged \subseteq 1..Count /\ late \in BOOLEAN
           /\ crossed \subseteq Handlers /\ torn \in BOOLEAN
           /\ MaxQuizzes \in Nat /\ Count \in Nat \ {0}
           /\ session # None =>
                /\ session \in Session
                /\ Len(session.previous) <= HistoryLimit
                /\ \A t \in WritingTypes : Len(session.recent[t]) <= RecentLimit
                /\ Len(session.quiz) \in {0, Count}
                /\ Len(session.quiz) = 0 <=> session.quiz = <<>>
           /\ \A h \in Handlers : req[h] # Idle => session # None
           /\ \A h \in Handlers : req[h].do # "idle" => session # None
  <1>1. /\ req \in [Handlers -> Request] /\ judged \subseteq 1..Count /\ late \in BOOLEAN
        /\ crossed \subseteq Handlers /\ torn \in BOOLEAN
        /\ MaxQuizzes \in Nat /\ Count \in Nat \ {0}
        /\ session # None =>
             /\ session \in Session
             /\ Len(session.previous) <= HistoryLimit
             /\ \A t \in WritingTypes : Len(session.recent[t]) <= RecentLimit
    BY SessionIsOne, EnglishAssumption DEF IInv, TypeOK
  <1>2. session # None => /\ Len(session.quiz) \in {0, Count}
                          /\ Len(session.quiz) = 0 <=> session.quiz = <<>>
    <2>1. SUFFICES ASSUME session # None
                   PROVE  /\ Len(session.quiz) \in {0, Count}
                          /\ Len(session.quiz) = 0 <=> session.quiz = <<>>
      OBVIOUS
    <2>2. session.quiz \in Seq(Questions)
      BY <1>1, <2>1, SessionFields
    <2>3. session.quiz # <<>> => Len(session.quiz) = Count
      BY <2>1 DEF IInv, SessionHolds, Whole
    <2>. QED
      BY <2>2, <2>3
  <1>3. \A h \in Handlers : req[h].do # "idle" => req[h] # Idle
    BY IdleFacts
  <1>. QED
    BY <1>1, <1>2, <1>3 DEF IInv, SessionHolds

\* What TypeOK asks of a step that changes neither the histories of questions
\* and tasks ...
LEMMA TypeKept ==
    ASSUME IInv, session # None, session' \in Session,
           session'.previous = session.previous, session'.recent = session.recent,
           req' \in [Handlers -> Request], judged' \subseteq 1..Count, late' \in BOOLEAN,
           crossed' \subseteq Handlers, torn' \in BOOLEAN
    PROVE  TypeOK'
  BY InvFacts DEF TypeOK

\* A step of one thread that is, before and after, at none of what a writing
\* task is given or loses by.
LEMMA WritingKept ==
    ASSUME IInv, session # None,
           session'.type = session.type, session'.text = session.text, crossed' = crossed,
           session'.step = "waiting_writing" => session.step = "waiting_writing" /\ torn' = torn,
           NEW h \in Handlers, OthersStay(h),
           req[h].do \notin {"clearing", "store_text", "store_recent", "store_waiting"},
           req'[h].do \notin {"clearing", "store_text", "store_recent", "store_waiting"},
           session'.step = "waiting_writing" /\ Replaces(req[h]) => Replaces(req'[h])
    PROVE  TasksStored' /\ TextWaits'
  <1>1. /\ Clearing' = Clearing /\ Placing' = Placing
        /\ \A g \in Clearing : req'[g] = req[g]
    BY DEF Clearing, Placing, OthersStay
  <1>2. TaskComing' = TaskComing
    BY DEF TaskComing, OthersStay
  <1>3. TasksStored'
    BY <1>1, <1>2 DEF IInv, TasksStored
  <1>4. session'.step = "waiting_writing" /\ Replacing # {} => Replacing' # {}
    BY ThreadSets DEF OthersStay
  <1>5. TextWaits'
    BY <1>1, <1>2, <1>4 DEF IInv, TextWaits
  <1>. QED
    BY <1>3, <1>5

QuizDo == {"asking", "generating", "validating", "store_index", "store_step",
           "store_previous", "formatting", "looking", "answering", "finishing"}

\* A step of one thread that is, before and after, at nothing of a quiz.
LEMMA QuizKept ==
    ASSUME IInv, session # None, session' # None,
           session'.quiz = session.quiz, session'.number = session.number,
           session'.index = session.index, judged' = judged, late' = late,
           session'.step \in {"waiting_quiz_answer", "quiz_finished"} =>
             session'.step = session.step /\ torn' = torn,
           NEW h \in Handlers, OthersStay(h),
           req[h].do \notin QuizDo \cup {"clearing"},
           req'[h].do \notin QuizDo,
           req'[h].do = "clearing" => ~ req'[h].quiz /\ session'.step = "select_level"
    PROVE  SessionHolds' /\ NumbersReserved' /\ QuizWaits' /\ JudgedInOrder' /\ EndsSeen'
           /\ FinishHolds'
  <1>1. Making' = Making
    BY MakingCounts DEF Makes, QuizDo
  <1>2. Replacing' = Replacing /\ Indexing' = Indexing /\ Checking' = Checking
    BY <1>1 DEF Replacing, Indexing, Checking, OthersStay, QuizDo
  <1>3. session'.step = "waiting_quiz_answer" =>
          Clearing' = Clearing /\ \A g \in Clearing : req'[g] = req[g]
    BY DEF Clearing, OthersStay, QuizDo
  <1>4. SessionHolds'
    BY DEF IInv, SessionHolds
  <1>5. NumbersReserved'
    BY <1>1 DEF IInv, NumbersReserved, OthersStay, QuizDo
  <1>6. QuizWaits'
    BY <1>2, <1>3 DEF IInv, QuizWaits
  <1>7. JudgedInOrder'
    BY DEF IInv, JudgedInOrder, OthersStay, QuizDo
  <1>8. EndsSeen'
    BY <1>2 DEF IInv, EndsSeen, AllJudged, OthersStay, QuizDo
  <1>9. FinishHolds'
    <2>1. \A g \in Handlers : req[g].do = "store_step" => req'[g].do = "store_step"
      BY DEF OthersStay, QuizDo
    <2>. QED
      BY <1>2, <2>1 DEF IInv, FinishHolds, AllJudged
  <1>. QED
    BY <1>4, <1>5, <1>6, <1>7, <1>8, <1>9

LEMMA InitHolds == Init => IInv
  <1>. SUFFICES ASSUME Init PROVE IInv
    OBVIOUS
  <1>1. /\ session = None /\ req \in [Handlers -> Request] /\ judged = {} /\ late = FALSE
        /\ crossed = {} /\ torn = FALSE /\ \A h \in Handlers : req[h] = Idle
    BY IdleFacts DEF Init
  <1>2. TypeOK
    BY <1>1 DEF TypeOK
  <1>3. SessionHolds /\ NumbersReserved
    BY <1>1, IdleFacts DEF SessionHolds, NumbersReserved
  <1>4. TasksStored /\ TextWaits
    BY <1>1, IdleFacts DEF TasksStored, TextWaits, Clearing, Placing
  <1>5. QuizWaits /\ JudgedInOrder /\ EndsSeen /\ FinishHolds
    BY <1>1, IdleFacts DEF QuizWaits, JudgedInOrder, EndsSeen, FinishHolds
  <1>. QED
    BY <1>2, <1>3, <1>4, <1>5 DEF IInv

\* A step of one thread outside of both the quiz and the storing of a task,
\* which sets at most the level or a step that waits for no one.
LEMMA QuietStep ==
    ASSUME IInv, session \in Session, session' \in Session,
           session'.quiz = session.quiz, session'.number = session.number,
           session'.index = session.index, session'.type = session.type,
           session'.text = session.text, session'.previous = session.previous,
           session'.recent = session.recent,
           judged' = judged, late' = late, crossed' = crossed, torn' \in BOOLEAN,
           session'.step \in {"waiting_writing", "waiting_quiz_answer", "quiz_finished"} =>
             session'.step = session.step /\ torn' = torn,
           NEW h \in Handlers, OthersStay(h), req' \in [Handlers -> Request],
           req[h].do \in {"idle", "choosing_mode", "choosing", "sending", "grading"},
           req'[h].do \in {"idle", "choosing_mode", "choosing", "sending", "grading"}
    PROVE  IInv'
  <1>1. session # None /\ session' # None
    BY SessionIsOne
  <1>2. TypeOK'
    BY <1>1, InvFacts, TypeKept
  <1>3. TasksStored' /\ TextWaits'
    BY <1>1, WritingKept DEF Replaces, Makes
  <1>4. SessionHolds' /\ NumbersReserved' /\ QuizWaits' /\ JudgedInOrder' /\ EndsSeen'
        /\ FinishHolds'
    BY <1>1, QuizKept DEF QuizDo
  <1>. QED
    BY <1>2, <1>3, <1>4 DEF IInv

LEMMA SelectLevelStep ==
    ASSUME IInv, NEW h \in Handlers, NEW level \in Levels, SelectLevel(h, level)
    PROVE  IInv'
  <1> DEFINE r == [do |-> "choosing_mode"]
  <1>1. /\ session \in Session /\ req[h] = Idle /\ Become(h, r)
        /\ session' = [session EXCEPT !.level = level]
        /\ judged' = judged /\ late' = late /\ crossed' = crossed /\ torn' = torn
    BY InvFacts DEF SelectLevel, seen
  <1>2. r \in Request /\ r.do = "choosing_mode"
    BY DEF Request
  <1>. HIDE DEF r
  <1>3. session' \in Session /\ session'.quiz = session.quiz
        /\ session'.number = session.number /\ session'.index = session.index
        /\ session'.type = session.type /\ session'.text = session.text
        /\ session'.previous = session.previous /\ session'.recent = session.recent
        /\ session'.step = session.step
    BY <1>1 DEF Session
  <1>4. req' \in [Handlers -> Request] /\ req'[h] = r /\ OthersStay(h)
    BY <1>1, <1>2, BecomeFacts, InvFacts
  <1>. QED
    BY <1>1, <1>2, <1>3, <1>4, InvFacts, IdleFacts, QuietStep

LEMMA SelectModeStep ==
    ASSUME IInv, NEW h \in Handlers, SelectMode(h)
    PROVE  IInv'
  <1>1. /\ session \in Session /\ req[h].do = "choosing_mode" /\ Become(h, Idle)
        /\ session' = [session EXCEPT !.step = "select_mode"]
        /\ judged' = judged /\ late' = late /\ crossed' = crossed /\ torn' = FALSE
    BY InvFacts DEF SelectMode
  <1>3. session' \in Session /\ session'.quiz = session.quiz
        /\ session'.number = session.number /\ session'.index = session.index
        /\ session'.type = session.type /\ session'.text = session.text
        /\ session'.previous = session.previous /\ session'.recent = session.recent
        /\ session'.step = "select_mode"
    BY <1>1 DEF Session, Steps
  <1>4. req' \in [Handlers -> Request] /\ req'[h] = Idle /\ OthersStay(h)
    BY <1>1, IdleFacts, BecomeFacts, InvFacts
  <1>. QED
    BY <1>1, <1>3, <1>4, IdleFacts, QuietStep

\* The button Writing has no thread of its own: it is one step.
LEMMA SelectWritingStep ==
    ASSUME IInv, SelectWriting
    PROVE  IInv'
  <1>1. /\ session \in Session /\ session # None
        /\ session' = [session EXCEPT !.step = "select_writing_type"]
        /\ req' = req /\ judged' = judged /\ late' = late /\ crossed' = crossed /\ torn' = FALSE
    BY InvFacts DEF SelectWriting
  <1>2. /\ session' \in Session /\ session' # None /\ session'.quiz = session.quiz
        /\ session'.number = session.number /\ session'.index = session.index
        /\ session'.type = session.type /\ session'.text = session.text
        /\ session'.previous = session.previous /\ session'.recent = session.recent
        /\ session'.step = "select_writing_type"
    BY <1>1, SessionIsOne DEF Session, Steps
  <1>3. /\ Making' = Making /\ Indexing' = Indexing /\ Clearing' = Clearing
        /\ Placing' = Placing
    BY <1>1 DEF Making, Indexing, Clearing, Placing
  <1>4. TypeOK'
    BY <1>1, <1>2, InvFacts, TypeKept
  <1>5. SessionHolds' /\ NumbersReserved'
    BY <1>1, <1>2, <1>3 DEF IInv, SessionHolds, NumbersReserved
  <1>6. TasksStored'
    <2>1. TaskComing' = TaskComing
      BY <1>1, <1>2 DEF TaskComing
    <2>. QED
      BY <1>1, <1>3, <2>1 DEF IInv, TasksStored
  <1>7. TextWaits' /\ QuizWaits' /\ FinishHolds'
    BY <1>2 DEF TextWaits, QuizWaits, FinishHolds
  <1>8. JudgedInOrder' /\ EndsSeen'
    BY <1>1, <1>2, <1>3 DEF IInv, JudgedInOrder, EndsSeen, AllJudged
  <1>. QED
    BY <1>4, <1>5, <1>6, <1>7, <1>8 DEF IInv

LEMMA ChooseTaskStep ==
    ASSUME IInv, NEW h \in Handlers, NEW type \in WritingTypes, ChooseTask(h, type)
    PROVE  IInv'
  <1> DEFINE r == [do |-> "choosing", type |-> type, past |-> ToSet(session.recent[type])]
  <1>1. /\ session \in Session /\ req[h] = Idle /\ Become(h, r) /\ session' = session
        /\ judged' = judged /\ late' = late /\ crossed' = crossed /\ torn' = torn
    BY InvFacts DEF ChooseTask, seen
  <1>2. ToSet(session.recent[type]) \subseteq Tasks
    BY <1>1, SessionFields, SeqFacts
  <1>3. r \in Request /\ r.do = "choosing"
    <2>1. r \in [do : {"choosing"}, type : WritingTypes, past : SUBSET Tasks]
      BY <1>2
    <2>. QED
      BY <2>1, Zenon DEF Request
  <1>. HIDE DEF r
  <1>4. req' \in [Handlers -> Request] /\ req'[h] = r /\ OthersStay(h)
    BY <1>1, <1>3, BecomeFacts, InvFacts
  <1>. QED
    BY <1>1, <1>3, <1>4, InvFacts, IdleFacts, QuietStep

LEMMA SendTextStep ==
    ASSUME IInv, NEW h \in Handlers, SendText(h)
    PROVE  IInv'
  <1> DEFINE r == [do |-> "sending"]
  <1>1. /\ session \in Session /\ req[h] = Idle /\ Become(h, r) /\ session' = session
        /\ judged' = judged /\ late' = late /\ crossed' = crossed /\ torn' = torn
    BY InvFacts DEF SendText, seen
  <1>2. r \in Request /\ r.do = "sending"
    BY DEF Request
  <1>. HIDE DEF r
  <1>3. req' \in [Handlers -> Request] /\ req'[h] = r /\ OthersStay(h)
    BY <1>1, <1>2, BecomeFacts, InvFacts
  <1>. QED
    BY <1>1, <1>2, <1>3, InvFacts, IdleFacts, QuietStep

LEMMA ReadTaskStep ==
    ASSUME IInv, NEW h \in Handlers, ReadTask(h)
    PROVE  IInv'
  <1> DEFINE r == [do |-> "grading"]
  <1>1. /\ session \in Session /\ req[h].do = "sending" /\ session' = session
        /\ Become(h, r) \/ Become(h, Idle)
        /\ judged' = judged /\ late' = late /\ crossed' = crossed /\ torn' = torn
    BY InvFacts DEF ReadTask, seen
  <1>2. r \in Request /\ r.do = "grading"
    BY DEF Request
  <1>. HIDE DEF r
  <1>3. /\ req' \in [Handlers -> Request] /\ OthersStay(h)
        /\ req'[h].do \in {"idle", "grading"}
    BY <1>1, <1>2, BecomeFacts, IdleFacts, InvFacts
  <1>. QED
    BY <1>1, <1>3, InvFacts, QuietStep

LEMMA GradeTextStep ==
    ASSUME IInv, NEW h \in Handlers, GradeText(h)
    PROVE  IInv'
  <1>1. /\ session \in Session /\ req[h].do = "grading" /\ Become(h, Idle)
        /\ session' = [session EXCEPT !.step = "writing_completed"]
        /\ judged' = judged /\ late' = late /\ crossed' = crossed /\ torn' = FALSE
    BY InvFacts DEF GradeText
  <1>2. session' \in Session /\ session'.quiz = session.quiz
        /\ session'.number = session.number /\ session'.index = session.index
        /\ session'.type = session.type /\ session'.text = session.text
        /\ session'.previous = session.previous /\ session'.recent = session.recent
        /\ session'.step = "writing_completed"
    BY <1>1 DEF Session, Steps
  <1>3. req' \in [Handlers -> Request] /\ req'[h] = Idle /\ OthersStay(h)
    BY <1>1, IdleFacts, BecomeFacts, InvFacts
  <1>. QED
    BY <1>1, <1>2, <1>3, IdleFacts, QuietStep

LEMMA GradingFailsStep ==
    ASSUME IInv, NEW h \in Handlers, GradingFails(h)
    PROVE  IInv'
  <1>1. /\ session \in Session /\ req[h].do = "grading" /\ Become(h, Idle) /\ session' = session
        /\ judged' = judged /\ late' = late /\ crossed' = crossed /\ torn' = torn
    BY InvFacts DEF GradingFails, seen
  <1>2. req' \in [Handlers -> Request] /\ req'[h] = Idle /\ OthersStay(h)
    BY <1>1, IdleFacts, BecomeFacts, InvFacts
  <1>. QED
    BY <1>1, <1>2, InvFacts, IdleFacts, QuietStep

\* The quiz is left alone by the four steps that store a task.
LEMMA StoringKeepsQuiz ==
    ASSUME IInv, session \in Session, session' \in Session,
           session'.quiz = session.quiz, session'.number = session.number,
           session'.index = session.index, judged' = judged, late' = late,
           (session'.step = session.step /\ torn' = torn) \/ session'.step = "waiting_writing",
           NEW h \in Handlers, OthersStay(h),
           req[h].do \in {"choosing", "store_text", "store_recent", "store_waiting"},
           req'[h].do \in {"store_text", "store_recent", "store_waiting", "idle"}
    PROVE  SessionHolds' /\ NumbersReserved' /\ QuizWaits' /\ JudgedInOrder' /\ EndsSeen'
           /\ FinishHolds'
  <1>1. session # None /\ session' # None
    BY SessionIsOne
  <1>. QED
    BY <1>1, QuizKept DEF QuizDo

\* What the four do to the threads of a task and those that clear.
LEMMA StoringThreads ==
    ASSUME NEW h \in Handlers, OthersStay(h),
           req[h].do \in {"choosing", "store_text", "store_recent", "store_waiting"},
           req'[h].do \in {"store_text", "store_recent", "store_waiting", "idle"}
    PROVE  /\ Clearing' = Clearing /\ \A g \in Clearing : req'[g] = req[g]
           /\ Replacing' = Replacing
           /\ req'[h].do # "idle" => Placing' = Placing \cup {h}
           /\ req'[h].do = "idle" => Placing' = Placing \ {h}
  <1>1. Clearing' = Clearing /\ \A g \in Clearing : req'[g] = req[g]
    BY DEF Clearing, OthersStay
  <1>2. Replacing' = Replacing
    BY ThreadSets DEF OthersStay, Replaces, Makes
  <1>3. /\ req'[h].do # "idle" => Placing' = Placing \cup {h}
        /\ req'[h].do = "idle" => Placing' = Placing \ {h}
    BY DEF Placing, OthersStay
  <1>. QED
    BY <1>1, <1>2, <1>3

LEMMA StoreTypeStep ==
    ASSUME IInv, NEW h \in Handlers, StoreType(h)
    PROVE  IInv'
  <1> DEFINE type == req[h].type
  <1>1. /\ session \in Session /\ session # None /\ req[h].do = "choosing"
        /\ type \in WritingTypes /\ session' = [session EXCEPT !.type = type]
        /\ judged' = judged /\ late' = late /\ torn' = torn
        /\ crossed' = IF Clearing # {} THEN crossed \cup {h} ELSE crossed \ {h}
    BY InvFacts, RequestFields DEF StoreType
  <1>2. PICK x \in Candidates(type, req[h].past) :
          Become(h, [do |-> "store_text", type |-> type, task |-> x])
    BY DEF StoreType
  <1>3. x \in Tasks
    BY <1>1, EnglishAssumption DEF Candidates, Tasks
  <1> DEFINE r == [do |-> "store_text", type |-> type, task |-> x]
  <1>4. r \in Request /\ r.do = "store_text" /\ r.type = type
    <2>1. r \in [do : {"store_text", "store_recent", "store_waiting"},
                 type : WritingTypes, task : Tasks]
      BY <1>1, <1>3
    <2>. QED
      BY <2>1, Zenon DEF Request
  <1>5. Become(h, r)
    BY <1>2
  <1>. HIDE DEF r
  <1>6. req' \in [Handlers -> Request] /\ req'[h] = r /\ OthersStay(h)
    BY <1>4, <1>5, BecomeFacts, InvFacts
  <1>7. session' \in Session /\ session'.quiz = session.quiz
        /\ session'.number = session.number /\ session'.index = session.index
        /\ session'.type = type /\ session'.text = session.text
        /\ session'.previous = session.previous /\ session'.recent = session.recent
        /\ session'.step = session.step
    <2>. HIDE DEF type
    <2>. QED
      BY <1>1 DEF Session
  <1>8. TypeOK'
    BY <1>1, <1>6, <1>7, InvFacts, TypeKept
  <1>9. /\ Clearing' = Clearing /\ \A g \in Clearing : req'[g] = req[g]
        /\ Placing' = Placing \cup {h}
    BY <1>1, <1>4, <1>6, StoringThreads
  <1>10. TaskComing'
    <2>1. session'.type # "none"
      BY <1>1, <1>7, EnglishAssumption
    <2>. QED
      BY <1>4, <1>6, <1>7, <2>1 DEF TaskComing
  <1>11. TasksStored'
    <2>1. Clearing # {} => Placing \subseteq crossed
      BY DEF IInv, TasksStored
    <2>. QED
      BY <1>1, <1>9, <1>10, <2>1 DEF TasksStored
  <1>12. TextWaits'
    BY <1>1, <1>7, <1>9, <1>10 DEF IInv, TextWaits
  <1>13. SessionHolds' /\ NumbersReserved' /\ QuizWaits' /\ JudgedInOrder' /\ EndsSeen'
         /\ FinishHolds'
    BY <1>1, <1>4, <1>6, <1>7, StoringKeepsQuiz
  <1>. QED
    BY <1>8, <1>11, <1>12, <1>13 DEF IInv

LEMMA StoreTextStep ==
    ASSUME IInv, NEW h \in Handlers, StoreText(h)
    PROVE  IInv'
  <1> DEFINE type == req[h].type
             x == req[h].task
             r == [req[h] EXCEPT !.do = "store_recent"]
  <1>1. /\ session \in Session /\ session # None /\ req[h].do = "store_text"
        /\ type \in WritingTypes /\ x \in Tasks /\ x # "none"
        /\ session' = [session EXCEPT !.text[type] = x] /\ Become(h, r)
        /\ judged' = judged /\ late' = late /\ crossed' = crossed /\ torn' = torn
    BY InvFacts, RequestFields, EnglishAssumption DEF StoreText, seen
  <1>2. r \in Request /\ r.do = "store_recent"
    BY <1>1, RequestSteps, InvFacts
  <1>. HIDE DEF r
  <1>3. req' \in [Handlers -> Request] /\ req'[h] = r /\ OthersStay(h)
    BY <1>1, <1>2, BecomeFacts, InvFacts
  <1>4. /\ session' \in Session /\ session'.quiz = session.quiz
        /\ session'.number = session.number /\ session'.index = session.index
        /\ session'.type = session.type /\ session'.text = [session.text EXCEPT ![type] = x]
        /\ session'.previous = session.previous /\ session'.recent = session.recent
        /\ session'.step = session.step /\ session.text \in [WritingTypes -> Tasks \cup {"none"}]
    <2>. HIDE DEF type, x
    <2>. QED
      BY <1>1 DEF Session
  <1>5. TypeOK'
    BY <1>1, <1>3, <1>4, InvFacts, TypeKept
  <1>6. /\ Clearing' = Clearing /\ \A g \in Clearing : req'[g] = req[g]
        /\ Placing' = Placing \cup {h} /\ h \in Placing /\ Replacing' = Replacing
    <2>1. h \in Placing
      BY <1>1 DEF Placing
    <2>. QED
      BY <1>1, <1>2, <1>3, <2>1, StoringThreads
  <1>7. TaskComing => TaskComing'
    <2>1. SUFFICES ASSUME TaskComing, session.type # type
                   PROVE  TaskComing'
      BY <1>1, <1>4 DEF TaskComing
    <2>2. session.type # "none"
      BY <2>1 DEF TaskComing
    <2>3. CASE session.text[session.type] # "none"
      <3>1. session.type \in WritingTypes
        BY <1>1, <2>2, SessionFields
      <3>2. session'.text[session'.type] # "none"
        <4>. HIDE DEF type, x
        <4>. QED
          BY <1>1, <1>4, <2>1, <2>3, <3>1
      <3>. QED
        BY <1>4, <2>2, <3>2 DEF TaskComing
    <2>4. CASE session.text[session.type] = "none"
      <3>1. PICK g \in Handlers : req[g].do = "store_text" /\ req[g].type = session.type
        BY <2>1, <2>4 DEF TaskComing
      <3>2. req'[g] = req[g]
        BY <1>3, <2>1, <3>1 DEF OthersStay
      <3>. QED
        BY <1>4, <2>2, <3>1, <3>2 DEF TaskComing
    <2>. QED
      BY <2>3, <2>4
  <1>8. TasksStored'
    BY <1>1, <1>6, <1>7 DEF IInv, TasksStored
  <1>9. TextWaits'
    BY <1>1, <1>4, <1>6, <1>7 DEF IInv, TextWaits
  <1>10. SessionHolds' /\ NumbersReserved' /\ QuizWaits' /\ JudgedInOrder' /\ EndsSeen'
         /\ FinishHolds'
    BY <1>1, <1>2, <1>3, <1>4, StoringKeepsQuiz
  <1>. QED
    BY <1>5, <1>8, <1>9, <1>10 DEF IInv

LEMMA StoreRecentStep ==
    ASSUME IInv, NEW h \in Handlers, StoreRecent(h)
    PROVE  IInv'
  <1> DEFINE type == req[h].type
             x == req[h].task
             r == [req[h] EXCEPT !.do = "store_waiting"]
  <1>1. /\ session \in Session /\ session # None /\ req[h].do = "store_recent"
        /\ type \in WritingTypes /\ x \in Tasks
        /\ session' = [session EXCEPT !.recent[type] = AppendRecent(@, x)] /\ Become(h, r)
        /\ judged' = judged /\ late' = late /\ crossed' = crossed /\ torn' = torn
    BY InvFacts, RequestFields DEF StoreRecent, seen
  <1>2. r \in Request /\ r.do = "store_waiting"
    BY <1>1, RequestSteps, InvFacts
  <1>. HIDE DEF r
  <1>3. req' \in [Handlers -> Request] /\ req'[h] = r /\ OthersStay(h)
    BY <1>1, <1>2, BecomeFacts, InvFacts
  <1>4. /\ AppendRecent(session.recent[type], x) \in Seq(Tasks)
        /\ Len(AppendRecent(session.recent[type], x)) <= RecentLimit
        /\ session.recent \in [WritingTypes -> Seq(Tasks)]
    BY <1>1, SessionFields, AppendRecentType
  <1>5. /\ session' \in Session /\ session'.quiz = session.quiz
        /\ session'.number = session.number /\ session'.index = session.index
        /\ session'.type = session.type /\ session'.text = session.text
        /\ session'.previous = session.previous
        /\ session'.recent = [session.recent EXCEPT ![type] = AppendRecent(@, x)]
        /\ session'.step = session.step
    <2>. HIDE DEF type, x
    <2>. QED
      BY <1>1, <1>4 DEF Session
  <1>6. TypeOK'
    <2>1. \A t \in WritingTypes : Len(session'.recent[t]) <= RecentLimit
      <3>. HIDE DEF type, x
      <3>. QED
        BY <1>1, <1>4, <1>5, InvFacts
    <2>. QED
      BY <1>1, <1>3, <1>5, <2>1, InvFacts DEF TypeOK
  <1>7. /\ Clearing' = Clearing /\ \A g \in Clearing : req'[g] = req[g]
        /\ Placing' = Placing \cup {h} /\ h \in Placing /\ Replacing' = Replacing
    <2>1. h \in Placing
      BY <1>1 DEF Placing
    <2>. QED
      BY <1>1, <1>2, <1>3, <2>1, StoringThreads
  <1>8. TaskComing => TaskComing'
    BY <1>1, <1>3, <1>5 DEF TaskComing, OthersStay
  <1>9. TasksStored'
    BY <1>1, <1>7, <1>8 DEF IInv, TasksStored
  <1>10. TextWaits'
    BY <1>1, <1>5, <1>7, <1>8 DEF IInv, TextWaits
  <1>11. SessionHolds' /\ NumbersReserved' /\ QuizWaits' /\ JudgedInOrder' /\ EndsSeen'
         /\ FinishHolds'
    BY <1>1, <1>2, <1>3, <1>5, StoringKeepsQuiz
  <1>. QED
    BY <1>6, <1>9, <1>10, <1>11 DEF IInv

\* The step that waits: it is not torn only if nothing is being cleared and the
\* session has its task.
LEMMA StoreWaitingStep ==
    ASSUME IInv, NEW h \in Handlers, StoreWaiting(h)
    PROVE  IInv'
  <1>1. /\ session \in Session /\ session # None /\ req[h].do = "store_waiting"
        /\ session' = [session EXCEPT !.step = "waiting_writing"] /\ Become(h, Idle)
        /\ judged' = judged /\ late' = late
        /\ torn' = (h \in crossed) /\ crossed' = crossed \ {h}
    BY InvFacts DEF StoreWaiting
  <1>2. req' \in [Handlers -> Request] /\ req'[h] = Idle /\ OthersStay(h)
    BY <1>1, IdleFacts, BecomeFacts, InvFacts
  <1>3. session' \in Session /\ session'.quiz = session.quiz
        /\ session'.number = session.number /\ session'.index = session.index
        /\ session'.type = session.type /\ session'.text = session.text
        /\ session'.previous = session.previous /\ session'.recent = session.recent
        /\ session'.step = "waiting_writing"
    BY <1>1 DEF Session, Steps
  <1>4. TypeOK'
    BY <1>1, <1>2, <1>3, InvFacts, TypeKept
  <1>5. /\ Clearing' = Clearing /\ Placing' = Placing \ {h} /\ h \in Placing
        /\ Replacing' = Replacing
    <2>1. h \in Placing
      BY <1>1 DEF Placing
    <2>. QED
      BY <1>1, <1>2, <2>1, IdleFacts, StoringThreads
  <1>6. TaskComing => TaskComing'
    BY <1>1, <1>2, <1>3 DEF TaskComing, OthersStay
  <1>7. TasksStored'
    BY <1>1, <1>5, <1>6 DEF IInv, TasksStored
  <1>8. TextWaits'
    <2>1. h \notin crossed => TaskComing /\ Clearing = {}
      BY <1>5 DEF IInv, TasksStored
    <2>. QED
      BY <1>1, <1>5, <1>6, <2>1 DEF TextWaits
  <1>9. SessionHolds' /\ NumbersReserved' /\ QuizWaits' /\ JudgedInOrder' /\ EndsSeen'
        /\ FinishHolds'
    BY <1>1, <1>2, <1>3, IdleFacts, StoringKeepsQuiz
  <1>. QED
    BY <1>4, <1>7, <1>8, <1>9 DEF IInv

\* What a step of the quiz leaves of the threads that clear.
LEMMA ClearingKept ==
    ASSUME NEW h \in Handlers, OthersStay(h), req[h].do # "clearing", req'[h].do # "clearing"
    PROVE  Clearing' = Clearing /\ \A g \in Clearing : req'[g] = req[g]
  BY DEF Clearing, OthersStay

\* A thread that goes on making a quiz changes nothing yet.
LEMMA MakingGoesOn ==
    ASSUME IInv, session # None, UNCHANGED <<session, seen>>,
           NEW h \in Handlers, OthersStay(h), req' \in [Handlers -> Request],
           req[h].do \in {"asking", "generating"}, req'[h].do \in {"generating", "validating"}
    PROVE  IInv'
  <1>1. /\ session' = session /\ judged' = judged /\ late' = late
        /\ crossed' = crossed /\ torn' = torn
    BY DEF seen
  <1>2. Makes(req[h]) /\ Makes(req'[h])
    BY DEF Makes
  <1>3. Making' = Making
    BY <1>2, MakingCounts
  <1>4. Replacing' = Replacing /\ Indexing' = Indexing /\ Checking' = Checking
    BY <1>1, <1>3 DEF Replacing, Indexing, Checking, OthersStay
  <1>5. Clearing' = Clearing /\ \A g \in Clearing : req'[g] = req[g]
    BY ClearingKept
  <1>6. TypeOK'
    BY <1>1, InvFacts, TypeKept
  <1>7. TasksStored' /\ TextWaits'
    BY <1>1, <1>2, WritingKept DEF Replaces
  <1>8. SessionHolds'
    BY <1>1 DEF IInv, SessionHolds
  <1>9. NumbersReserved'
    BY <1>1, <1>3 DEF IInv, NumbersReserved, OthersStay
  <1>10. QuizWaits'
    BY <1>1, <1>4, <1>5 DEF IInv, QuizWaits
  <1>11. JudgedInOrder' /\ EndsSeen'
    BY <1>1, <1>4 DEF IInv, JudgedInOrder, EndsSeen, AllJudged, OthersStay
  <1>12. FinishHolds'
    BY <1>1, <1>4 DEF IInv, FinishHolds, AllJudged, OthersStay
  <1>. QED
    BY <1>6, <1>7, <1>8, <1>9, <1>10, <1>11, <1>12 DEF IInv

LEMMA AskModelStep ==
    ASSUME IInv, NEW h \in Handlers, AskModel(h)
    PROVE  IInv'
  <1> DEFINE r == [do |-> "generating", previous |-> ToSet(session.previous)]
  <1>1. /\ session \in Session /\ session # None /\ req[h].do = "asking" /\ Become(h, r)
        /\ UNCHANGED <<session, seen>>
    BY InvFacts DEF AskModel
  <1>2. r \in Request /\ r.do = "generating"
    <2>1. ToSet(session.previous) \subseteq Questions
      BY <1>1, SessionFields, SeqFacts
    <2>2. r \in [do : {"generating", "validating"}, previous : SUBSET Questions]
      BY <2>1
    <2>. QED
      BY <2>2, Zenon DEF Request
  <1>. HIDE DEF r
  <1>3. req' \in [Handlers -> Request] /\ req'[h] = r /\ OthersStay(h)
    BY <1>1, <1>2, BecomeFacts, InvFacts
  <1>. QED
    BY <1>1, <1>2, <1>3, MakingGoesOn

LEMMA GenerateStep ==
    ASSUME IInv, NEW h \in Handlers, Generate(h)
    PROVE  IInv'
  <1> DEFINE r == [req[h] EXCEPT !.do = "validating"]
  <1>1. /\ session # None /\ req[h].do = "generating" /\ Become(h, r)
        /\ UNCHANGED <<session, seen>>
    BY InvFacts DEF Generate
  <1>2. r \in Request /\ r.do = "validating"
    BY <1>1, RequestSteps, InvFacts
  <1>. HIDE DEF r
  <1>3. req' \in [Handlers -> Request] /\ req'[h] = r /\ OthersStay(h)
    BY <1>1, <1>2, BecomeFacts, InvFacts
  <1>. QED
    BY <1>1, <1>2, <1>3, MakingGoesOn

\* Whoever stores the questions of a quiz stores a whole one, and what the
\* others saw of the quiz before it has until its index to be used.
LEMMA StoreQuizStep ==
    ASSUME IInv, NEW h \in Handlers, req[h].do \in {"generating", "validating"},
           NEW quiz \in Seq(Questions), Whole(quiz), StoreQuiz(h, quiz)
    PROVE  IInv'
  <1> DEFINE r == [do |-> "store_index", quiz |-> quiz]
  <1>1. /\ session \in Session /\ session # None
        /\ session' = [session EXCEPT !.quiz = quiz] /\ Become(h, r)
        /\ judged' = judged /\ late' = late /\ crossed' = crossed /\ torn' = torn
    BY InvFacts DEF StoreQuiz, seen
  <1>2. r \in Request /\ r.do = "store_index"
    <2>1. r \in [do : {"store_index", "store_step", "store_previous"}, quiz : Seq(Questions)]
      OBVIOUS
    <2>. QED
      BY <2>1, Zenon DEF Request
  <1>. HIDE DEF r
  <1>3. req' \in [Handlers -> Request] /\ req'[h] = r /\ OthersStay(h)
    BY <1>1, <1>2, BecomeFacts, InvFacts
  <1>4. session' \in Session /\ session' # None /\ session'.quiz = quiz
        /\ session'.number = session.number /\ session'.index = session.index
        /\ session'.type = session.type /\ session'.text = session.text
        /\ session'.previous = session.previous /\ session'.recent = session.recent
        /\ session'.step = session.step
    BY <1>1, SessionIsOne DEF Session
  <1>5. Makes(req[h]) /\ Makes(req'[h])
    BY <1>2, <1>3 DEF Makes
  <1>6. Making' = Making /\ Indexing' # {} /\ Replacing' # {}
    BY <1>2, <1>3, <1>5, MakingCounts, ThreadSets DEF Indexing, Replaces
  <1>7. Clearing' = Clearing /\ \A g \in Clearing : req'[g] = req[g]
    BY <1>2, <1>3, ClearingKept
  <1>8. TypeOK'
    BY <1>1, <1>3, <1>4, InvFacts, TypeKept
  <1>9. TasksStored' /\ TextWaits'
    BY <1>1, <1>2, <1>3, <1>4, <1>5, WritingKept DEF Replaces
  <1>10. SessionHolds'
    BY <1>4 DEF SessionHolds
  <1>11. NumbersReserved'
    BY <1>1, <1>2, <1>3, <1>4, <1>6 DEF IInv, NumbersReserved, OthersStay
  <1>12. QuizWaits'
    BY <1>1, <1>4, <1>6, <1>7 DEF IInv, QuizWaits
  <1>13. JudgedInOrder'
    BY <1>1, <1>2, <1>3, <1>4 DEF IInv, JudgedInOrder, OthersStay
  <1>14. EndsSeen' /\ FinishHolds'
    BY <1>6 DEF EndsSeen, FinishHolds, AllJudged
  <1>. QED
    BY <1>8, <1>9, <1>10, <1>11, <1>12, <1>13, <1>14 DEF IInv

LEMMA StartFallbackStep ==
    ASSUME IInv, NEW h \in Handlers, StartFallback(h)
    PROVE  IInv'
  <1>1. PICK quiz \in Fallback(session) : StoreQuiz(h, quiz)
    BY DEF StartFallback
  <1>2. req[h].do \in {"generating", "validating"}
    BY DEF StartFallback
  <1>. QED
    BY <1>1, <1>2, FallbackWhole, StoreQuizStep

LEMMA StartQuizStep ==
    ASSUME IInv, NEW h \in Handlers, StartQuiz(h)
    PROVE  IInv'
  <1>1. req[h].do = "validating"
    BY DEF StartQuiz
  <1>2. PICK a \in Answers :
          \E questions \in LET valid == Validate(a, req[h].previous)
                           IN  IF Len(valid) >= Count THEN {valid}
                               ELSE Completions(valid, req[h].previous) :
            \E quiz \in IF Len(questions) < Count THEN Fallback(session)
                        ELSE Selections(questions, session.level) :
              StoreQuiz(h, quiz)
    BY Zenon DEF StartQuiz
  <1>3. PICK questions \in LET valid == Validate(a, req[h].previous)
                           IN  IF Len(valid) >= Count THEN {valid}
                               ELSE Completions(valid, req[h].previous) :
            \E quiz \in IF Len(questions) < Count THEN Fallback(session)
                        ELSE Selections(questions, session.level) :
              StoreQuiz(h, quiz)
    BY <1>2, Zenon
  <1>4. PICK quiz \in IF Len(questions) < Count THEN Fallback(session)
                      ELSE Selections(questions, session.level) :
              StoreQuiz(h, quiz)
    BY <1>3, Zenon
  <1>5. quiz \in Seq(Questions) /\ Whole(quiz)
    BY MadeWhole, Zenon
  <1>. QED
    BY <1>1, <1>4, <1>5, StoreQuizStep

\* With its index a quiz begins: it takes the number it holds, and nothing
\* that was read before has that number.
LEMMA StoreIndexStep ==
    ASSUME IInv, NEW h \in Handlers, StoreIndex(h)
    PROVE  IInv'
  <1> DEFINE r == [req[h] EXCEPT !.do = "store_step"]
  <1>1. /\ session \in Session /\ session # None /\ req[h].do = "store_index"
        /\ session' = [session EXCEPT !.index = 0, !.number = @ + 1] /\ Become(h, r)
        /\ judged' = {} /\ late' = FALSE /\ crossed' = crossed /\ torn' = torn
    BY InvFacts DEF StoreIndex
  <1>2. r \in Request /\ r.do = "store_step"
    BY <1>1, RequestSteps, InvFacts
  <1>. HIDE DEF r
  <1>3. req' \in [Handlers -> Request] /\ req'[h] = r /\ OthersStay(h)
    BY <1>1, <1>2, BecomeFacts, InvFacts
  <1>4. /\ Makes(req[h]) /\ ~ Makes(req'[h])
        /\ Replaces(req[h]) /\ Replaces(req'[h])
    BY <1>1, <1>2, <1>3 DEF Makes, Replaces
  <1>5. /\ session.number \in Nat
        /\ session.number + 1 \in 0..MaxQuizzes
        /\ session.number + 1 + Cardinality(Making') <= MaxQuizzes
    <2>1. /\ Cardinality(Making) \in Nat /\ Cardinality(Making') \in Nat
          /\ Cardinality(Making') = Cardinality(Making) - 1
      BY <1>3, <1>4, MakingCounts
    <2>2. session.number + Cardinality(Making) <= MaxQuizzes
      BY <1>1 DEF IInv, NumbersReserved
    <2>3. session.number \in Nat /\ MaxQuizzes \in Nat
      BY <1>1, SessionFields, InvFacts
    <2>. QED
      BY <2>1, <2>2, <2>3
  <1>6. session' \in Session /\ session' # None /\ session'.quiz = session.quiz
        /\ session'.number = session.number + 1 /\ session'.index = 0
        /\ session'.type = session.type /\ session'.text = session.text
        /\ session'.previous = session.previous /\ session'.recent = session.recent
        /\ session'.step = session.step
    <2>1. 0 \in 0..Count
      BY EnglishAssumption
    <2>. QED
      BY <1>1, <1>5, <2>1, SessionIsOne DEF Session
  <1>7. Replacing' # {}
    BY <1>4, ThreadSets
  <1>8. Clearing' = Clearing /\ \A g \in Clearing : req'[g] = req[g]
    BY <1>1, <1>2, <1>3, ClearingKept
  <1>9. TypeOK'
    BY <1>1, <1>3, <1>6, InvFacts, TypeKept
  <1>10. TasksStored' /\ TextWaits'
    BY <1>1, <1>2, <1>3, <1>4, <1>6, WritingKept
  <1>11. SessionHolds'
    BY <1>1, <1>6 DEF IInv, SessionHolds
  <1>12. \A g \in Handlers : req'[g].do \in {"looking", "answering", "finishing"}
           => req'[g].number < session'.number
    <2>1. SUFFICES ASSUME NEW g \in Handlers, req'[g].do \in {"looking", "answering", "finishing"}
                   PROVE  req'[g].number < session'.number
      OBVIOUS
    <2>2. req'[g] = req[g] /\ req[g] \in Request
      BY <1>2, <1>3, <2>1, InvFacts DEF OthersStay
    <2>3. req[g].number \in 0..MaxQuizzes /\ req[g].number <= session.number
      BY <2>1, <2>2, RequestFields DEF IInv, NumbersReserved
    <2>. QED
      BY <1>5, <1>6, <2>2, <2>3, InvFacts
  <1>13. \A g \in Handlers : req'[g].do \in {"looking", "answering", "finishing"}
           => req'[g].number \in Nat
    BY <1>3, InvFacts, RequestFields
  <1>14. NumbersReserved'
    BY <1>5, <1>6, <1>12, <1>13 DEF NumbersReserved
  <1>15. QuizWaits'
    BY <1>1, <1>6, <1>7, <1>8 DEF IInv, QuizWaits
  <1>16. JudgedInOrder' /\ EndsSeen'
    <2>1. \A g \in Handlers : req'[g].do \in {"looking", "answering", "finishing"}
           => req'[g].number # session'.number
      BY <1>5, <1>6, <1>12, <1>13
    <2>. QED
      BY <1>6, <2>1 DEF JudgedInOrder, EndsSeen
  <1>17. FinishHolds'
    BY <1>2, <1>3 DEF FinishHolds
  <1>. QED
    BY <1>9, <1>10, <1>11, <1>14, <1>15, <1>16, <1>17 DEF IInv

\* The step of a quiz: the thread that sets it will look at the quiz again.
LEMMA StoreStepStep ==
    ASSUME IInv, NEW h \in Handlers, StoreStep(h)
    PROVE  IInv'
  <1> DEFINE r == [req[h] EXCEPT !.do = "store_previous"]
  <1>1. /\ session \in Session /\ session # None /\ req[h].do = "store_step"
        /\ session' = [session EXCEPT !.step = "waiting_quiz_answer"] /\ Become(h, r)
        /\ torn' = \E g \in Clearing : req[g].key <= 2
        /\ judged' = judged /\ late' = late /\ crossed' = crossed
    BY InvFacts DEF StoreStep
  <1>2. r \in Request /\ r.do = "store_previous"
    BY <1>1, RequestSteps, InvFacts
  <1>. HIDE DEF r
  <1>3. req' \in [Handlers -> Request] /\ req'[h] = r /\ OthersStay(h)
    BY <1>1, <1>2, BecomeFacts, InvFacts
  <1>4. session' \in Session /\ session' # None /\ session'.quiz = session.quiz
        /\ session'.number = session.number /\ session'.index = session.index
        /\ session'.type = session.type /\ session'.text = session.text
        /\ session'.previous = session.previous /\ session'.recent = session.recent
        /\ session'.step = "waiting_quiz_answer"
    BY <1>1, SessionIsOne DEF Session, Steps
  <1>5. ~ Makes(req[h]) /\ ~ Makes(req'[h])
    BY <1>1, <1>2, <1>3 DEF Makes
  <1>6. Making' = Making /\ Indexing' = Indexing /\ h \in Checking'
    BY <1>1, <1>2, <1>3, <1>5, MakingCounts DEF Indexing, Checking, OthersStay
  <1>7. Clearing' = Clearing /\ \A g \in Clearing : req'[g] = req[g]
    BY <1>1, <1>2, <1>3, ClearingKept
  <1>8. TypeOK'
    <2>1. torn' \in BOOLEAN
      BY <1>1
    <2>. QED
      BY <1>1, <1>3, <1>4, <2>1, InvFacts, TypeKept
  <1>9. TasksStored' /\ TextWaits'
    BY <1>1, <1>2, <1>3, <1>4, WritingKept
  <1>10. SessionHolds'
    BY <1>1, <1>4 DEF IInv, SessionHolds
  <1>11. NumbersReserved'
    BY <1>1, <1>2, <1>3, <1>4, <1>6 DEF IInv, NumbersReserved, OthersStay
  <1>12. QuizWaits'
    <2>1. ~ torn' => \A g \in Clearing : req'[g].key > 2
      <3>1. SUFFICES ASSUME ~ torn', NEW g \in Clearing PROVE req'[g].key > 2
        OBVIOUS
      <3>2. req[g] \in Request /\ req[g].do = "clearing"
        BY InvFacts DEF Clearing
      <3>3. req[g].key \in Keys
        BY <3>2, RequestFields
      <3>. QED
        BY <1>1, <1>7, <3>1, <3>3 DEF Keys
    <2>. QED
      BY <1>6, <1>7, <2>1 DEF QuizWaits
  <1>13. JudgedInOrder'
    BY <1>1, <1>2, <1>3, <1>4 DEF IInv, JudgedInOrder, OthersStay
  <1>14. EndsSeen'
    BY <1>1, <1>2, <1>3, <1>4, <1>6 DEF IInv, EndsSeen, AllJudged, OthersStay
  <1>15. FinishHolds'
    BY <1>4 DEF FinishHolds
  <1>. QED
    BY <1>8, <1>9, <1>10, <1>11, <1>12, <1>13, <1>14, <1>15 DEF IInv

LEMMA StorePreviousStep ==
    ASSUME IInv, NEW h \in Handlers, StorePrevious(h)
    PROVE  IInv'
  <1> DEFINE r == [do |-> "formatting"]
             previous == Remember(session.previous, req[h].quiz)
  <1>1. /\ session \in Session /\ session # None /\ req[h].do = "store_previous"
        /\ req[h].quiz \in Seq(Questions)
        /\ session' = [session EXCEPT !.previous = previous] /\ Become(h, r)
        /\ judged' = judged /\ late' = late /\ crossed' = crossed /\ torn' = torn
    BY InvFacts, RequestFields DEF StorePrevious, seen
  <1>2. r \in Request /\ r.do = "formatting"
    BY DEF Request
  <1>. HIDE DEF r
  <1>3. req' \in [Handlers -> Request] /\ req'[h] = r /\ OthersStay(h)
    BY <1>1, <1>2, BecomeFacts, InvFacts
  <1>4. previous \in Seq(Questions) /\ Len(previous) <= HistoryLimit
    BY <1>1, SessionFields, RememberType
  <1>5. session' \in Session /\ session' # None /\ session'.quiz = session.quiz
        /\ session'.number = session.number /\ session'.index = session.index
        /\ session'.type = session.type /\ session'.text = session.text
        /\ session'.previous = previous /\ session'.recent = session.recent
        /\ session'.step = session.step
    <2>. HIDE DEF previous
    <2>. QED
      BY <1>1, <1>4, SessionIsOne DEF Session
  <1>. HIDE DEF previous
  <1>6. ~ Makes(req[h]) /\ ~ Makes(req'[h]) /\ ~ Replaces(req[h]) /\ ~ Replaces(req'[h])
    BY <1>1, <1>2, <1>3 DEF Makes, Replaces
  <1>7. Making' = Making /\ Indexing' = Indexing /\ Replacing' = Replacing /\ h \in Checking'
    <2>1. Indexing' = Indexing /\ h \in Checking'
      BY <1>1, <1>2, <1>3 DEF Indexing, Checking, OthersStay
    <2>2. Making' = Making
      BY <1>3, <1>6, MakingCounts
    <2>3. Replacing' = Replacing
      BY <1>3, <1>6, ThreadSets DEF OthersStay
    <2>. QED
      BY <2>1, <2>2, <2>3
  <1>8. Clearing' = Clearing /\ \A g \in Clearing : req'[g] = req[g]
    BY <1>1, <1>2, <1>3, ClearingKept
  <1>9. TypeOK'
    BY <1>1, <1>3, <1>4, <1>5, InvFacts DEF TypeOK
  <1>10. TasksStored' /\ TextWaits'
    BY <1>1, <1>2, <1>3, <1>5, <1>6, WritingKept
  <1>11. SessionHolds'
    BY <1>1, <1>5 DEF IInv, SessionHolds
  <1>12. NumbersReserved'
    BY <1>1, <1>2, <1>3, <1>5, <1>7 DEF IInv, NumbersReserved, OthersStay
  <1>13. QuizWaits'
    BY <1>1, <1>5, <1>7, <1>8 DEF IInv, QuizWaits
  <1>14. JudgedInOrder' /\ EndsSeen'
    BY <1>1, <1>2, <1>3, <1>5, <1>7 DEF IInv, JudgedInOrder, EndsSeen, AllJudged, OthersStay
  <1>15. FinishHolds'
    BY <1>1, <1>3, <1>5, <1>7 DEF IInv, FinishHolds, AllJudged, OthersStay
  <1>. QED
    BY <1>9, <1>10, <1>11, <1>12, <1>13, <1>14, <1>15 DEF IInv

\* A thread that reads of a quiz, is shown it, judges or ends it is none of
\* those that make one.
Looks == {"idle", "formatting", "looking", "answering", "finishing"}

LEMMA LookingThreads ==
    ASSUME NEW h \in Handlers, OthersStay(h), req[h].do \in Looks, req'[h].do \in Looks
    PROVE  /\ Making' = Making /\ Indexing' = Indexing /\ Replacing' = Replacing
           /\ Clearing' = Clearing /\ \A g \in Clearing : req'[g] = req[g]
           /\ \A g \in Handlers : req[g].do = "store_step" <=> req'[g].do = "store_step"
  <1>1. ~ Makes(req[h]) /\ ~ Makes(req'[h]) /\ ~ Replaces(req[h]) /\ ~ Replaces(req'[h])
    BY DEF Makes, Replaces, Looks
  <1>2. Making' = Making
    BY <1>1, MakingCounts
  <1>3. Replacing' = Replacing
    BY <1>1, ThreadSets DEF OthersStay
  <1>4. Indexing' = Indexing
    BY DEF Indexing, OthersStay, Looks
  <1>5. Clearing' = Clearing /\ \A g \in Clearing : req'[g] = req[g]
    BY ClearingKept DEF Looks
  <1>6. \A g \in Handlers : req[g].do = "store_step" <=> req'[g].do = "store_step"
    BY DEF OthersStay, Looks
  <1>. QED
    BY <1>2, <1>3, <1>4, <1>5, <1>6

\* A read of a quiz leaves the session as it is: what it must show is that the
\* thread's record is right, and that it looks on if nobody else does.
LEMMA ReadStep ==
    ASSUME IInv, session # None, UNCHANGED <<session, seen>>,
           NEW h \in Handlers, OthersStay(h), req' \in [Handlers -> Request],
           req[h].do \in Looks, req'[h].do \in Looks,
           req'[h].do \in {"looking", "answering", "finishing"} =>
             req'[h].number <= session.number,
           h \in Checking' \/ h \notin Checking \/ session.index < Len(session.quiz),
           req'[h].do = "answering" /\ req'[h].number = session.number /\ ~ late =>
             1..req'[h].index \subseteq judged,
           req'[h].do = "looking" /\ req'[h].number = session.number /\ req'[h].length = 0 =>
             session.quiz = <<>> \/ Indexing # {},
           req'[h].do = "finishing" /\ req'[h].number = session.number /\ ~ late => AllJudged
    PROVE  IInv'
  <1>1. /\ session' = session /\ judged' = judged /\ late' = late
        /\ crossed' = crossed /\ torn' = torn
    BY DEF seen
  <1>2. /\ Making' = Making /\ Indexing' = Indexing /\ Replacing' = Replacing
        /\ Clearing' = Clearing /\ \A g \in Clearing : req'[g] = req[g]
        /\ \A g \in Handlers : req[g].do = "store_step" <=> req'[g].do = "store_step"
    BY LookingThreads
  <1>3. Checking # {} => Checking' # {} \/ session.index < Len(session.quiz)
    BY <1>1 DEF Checking, OthersStay
  <1>4. TypeOK'
    BY <1>1, InvFacts, TypeKept
  <1>5. TasksStored' /\ TextWaits'
    BY <1>1, WritingKept DEF Replaces, Makes, Looks
  <1>6. SessionHolds'
    BY <1>1 DEF IInv, SessionHolds
  <1>7. NumbersReserved'
    BY <1>1, <1>2 DEF IInv, NumbersReserved, OthersStay
  <1>8. QuizWaits'
    BY <1>1, <1>2, <1>3 DEF IInv, QuizWaits
  <1>9. JudgedInOrder'
    BY <1>1 DEF IInv, JudgedInOrder, OthersStay
  <1>10. EndsSeen'
    BY <1>1, <1>2 DEF IInv, EndsSeen, AllJudged, OthersStay
  <1>11. FinishHolds'
    BY <1>1, <1>2 DEF IInv, FinishHolds, AllJudged
  <1>. QED
    BY <1>4, <1>5, <1>6, <1>7, <1>8, <1>9, <1>10, <1>11 DEF IInv

LEMMA ReadQuestionsStep ==
    ASSUME IInv, NEW h \in Handlers, ReadQuestions(h)
    PROVE  IInv'
  <1> DEFINE why == IF req[h] = Idle THEN "answer" ELSE "question"
             r == [do |-> "looking", why |-> why, length |-> Len(session.quiz),
                   number |-> session.number]
  <1>1. /\ session \in Session /\ session # None /\ req[h].do \in {"idle", "formatting"}
        /\ UNCHANGED <<session, seen>> /\ Become(h, r)
    BY InvFacts, IdleFacts DEF ReadQuestions
  <1>2. /\ r \in Request /\ r.do = "looking" /\ r.length = Len(session.quiz)
        /\ r.number = session.number
    <2>1. session.number \in 0..MaxQuizzes /\ Len(session.quiz) \in {0, Count}
      BY <1>1, SessionFields, InvFacts
    <2>2. r \in [do : {"looking"}, why : {"answer", "question"}, length : {0, Count},
                 number : 0..MaxQuizzes]
      BY <2>1
    <2>. QED
      BY <2>2, Zenon DEF Request
  <1>. HIDE DEF r, why
  <1>3. req' \in [Handlers -> Request] /\ req'[h] = r /\ OthersStay(h)
    BY <1>1, <1>2, BecomeFacts, InvFacts
  <1>4. session.index \in Nat /\ Len(session.quiz) \in Nat /\ session.number \in Nat
    BY <1>1, SessionFields, InvFacts
  <1>5. h \in Checking' \/ session.index < Len(session.quiz)
    BY <1>1, <1>2, <1>3, <1>4 DEF Checking
  <1>6. session.quiz = <<>> <=> r.length = 0
    BY <1>1, <1>2, InvFacts
  <1>. QED
    BY <1>1, <1>2, <1>3, <1>4, <1>5, <1>6, ReadStep DEF Looks

LEMMA ReadIndexStep ==
    ASSUME IInv, NEW h \in Handlers, ReadIndex(h)
    PROVE  IInv'
  <1> DEFINE number == req[h].number
             length == req[h].length
  <1>1. /\ session \in Session /\ session # None /\ req[h].do = "looking"
        /\ req[h].why \in {"answer", "question"} /\ length \in {0, Count}
        /\ number \in 0..MaxQuizzes /\ number <= session.number
        /\ UNCHANGED <<session, seen>>
    BY InvFacts, RequestFields DEF ReadIndex, IInv, NumbersReserved
  <1>2. session.index \in 0..Count /\ Count \in Nat \ {0}
    BY <1>1, SessionFields, InvFacts
  <1>3. ~ late => 1..session.index \subseteq judged
    BY <1>1 DEF IInv, JudgedInOrder
  <1>4. CASE session.index >= length
    <2> DEFINE r == [do |-> "finishing", number |-> number]
    <2>1. Become(h, r)
      BY <1>4 DEF ReadIndex, Over
    <2>2. r \in Request /\ r.do = "finishing" /\ r.number = number
      <3>1. r \in [do : {"finishing"}, number : 0..MaxQuizzes]
        BY <1>1
      <3>. QED
        BY <3>1, Zenon DEF Request
    <2>. HIDE DEF r
    <2>3. req' \in [Handlers -> Request] /\ req'[h] = r /\ OthersStay(h)
      BY <2>1, <2>2, BecomeFacts, InvFacts
    <2>4. h \in Checking'
      BY <2>2, <2>3 DEF Checking
    <2>5. number = session.number /\ ~ late => AllJudged
      <3>1. SUFFICES ASSUME number = session.number, ~ late PROVE AllJudged
        OBVIOUS
      <3>2. CASE length = 0
        BY <1>1, <3>1, <3>2 DEF IInv, EndsSeen, AllJudged
      <3>3. CASE length = Count
        BY <1>2, <1>3, <1>4, <3>1, <3>3 DEF AllJudged
      <3>. QED
        BY <1>1, <3>2, <3>3
    <2>. QED
      BY <1>1, <2>2, <2>3, <2>4, <2>5, ReadStep DEF Looks
  <1>5. CASE ~ (session.index >= length) /\ req[h].why = "question"
    <2>1. Become(h, Idle)
      BY <1>5 DEF ReadIndex, Over
    <2>2. req' \in [Handlers -> Request] /\ req'[h] = Idle /\ OthersStay(h)
      BY <2>1, IdleFacts, BecomeFacts, InvFacts
    <2>3. h \notin Checking
      BY <1>1, <1>2, <1>5 DEF Checking
    <2>. QED
      BY <1>1, <2>2, <2>3, IdleFacts, ReadStep DEF Looks
  <1>6. CASE ~ (session.index >= length) /\ req[h].why = "answer"
    <2> DEFINE r == [do |-> "answering", number |-> number, index |-> session.index]
    <2>1. Become(h, r)
      BY <1>6 DEF ReadIndex, Over
    <2>2. r \in Request /\ r.do = "answering" /\ r.number = number /\ r.index = session.index
      <3>1. session.index \in 0..(Count - 1)
        BY <1>1, <1>2, <1>6
      <3>2. r \in [do : {"answering"}, number : 0..MaxQuizzes, index : 0..(Count - 1)]
        BY <1>1, <3>1
      <3>. QED
        BY <3>2, Zenon DEF Request
    <2>. HIDE DEF r
    <2>3. req' \in [Handlers -> Request] /\ req'[h] = r /\ OthersStay(h)
      BY <2>1, <2>2, BecomeFacts, InvFacts
    <2>4. h \in Checking'
      BY <2>2, <2>3 DEF Checking
    <2>. QED
      BY <1>1, <1>3, <2>2, <2>3, <2>4, ReadStep DEF Looks
  <1>. QED
    BY <1>1, <1>4, <1>5, <1>6

\* What was seen to be over is over, unless another quiz has begun.
LEMMA FinishQuizStep ==
    ASSUME IInv, NEW h \in Handlers, FinishQuiz(h)
    PROVE  IInv'
  <1>1. /\ session \in Session /\ session # None /\ req[h].do = "finishing"
        /\ session' = [session EXCEPT !.step = "quiz_finished"] /\ Become(h, Idle)
        /\ late' = (late \/ req[h].number # session.number)
        /\ judged' = judged /\ crossed' = crossed /\ torn' = FALSE
    BY InvFacts DEF FinishQuiz
  <1>2. req' \in [Handlers -> Request] /\ req'[h] = Idle /\ OthersStay(h)
    BY <1>1, IdleFacts, BecomeFacts, InvFacts
  <1>3. session' \in Session /\ session' # None /\ session'.quiz = session.quiz
        /\ session'.number = session.number /\ session'.index = session.index
        /\ session'.type = session.type /\ session'.text = session.text
        /\ session'.previous = session.previous /\ session'.recent = session.recent
        /\ session'.step = "quiz_finished"
    BY <1>1, SessionIsOne DEF Session, Steps
  <1>4. /\ Making' = Making /\ Indexing' = Indexing
        /\ \A g \in Handlers : req[g].do = "store_step" <=> req'[g].do = "store_step"
    BY <1>1, <1>2, IdleFacts, LookingThreads DEF Looks
  <1>5. late \in BOOLEAN /\ late' \in BOOLEAN /\ (~ late' => ~ late)
    BY <1>1, InvFacts
  <1>6. TypeOK'
    BY <1>1, <1>2, <1>3, <1>5, InvFacts, TypeKept
  <1>7. TasksStored' /\ TextWaits'
    BY <1>1, <1>2, <1>3, IdleFacts, WritingKept
  <1>8. SessionHolds'
    BY <1>1, <1>3 DEF IInv, SessionHolds
  <1>9. NumbersReserved'
    BY <1>1, <1>2, <1>3, <1>4, IdleFacts DEF IInv, NumbersReserved, OthersStay
  <1>10. QuizWaits'
    BY <1>3 DEF QuizWaits
  <1>11. JudgedInOrder' /\ EndsSeen'
    BY <1>1, <1>2, <1>3, <1>4, <1>5, IdleFacts
       DEF IInv, JudgedInOrder, EndsSeen, AllJudged, OthersStay
  <1>12. FinishHolds'
    BY <1>1, <1>3, <1>4 DEF IInv, EndsSeen, FinishHolds, AllJudged
  <1>. QED
    BY <1>6, <1>7, <1>8, <1>9, <1>10, <1>11, <1>12 DEF IInv

LEMMA JudgeAnswerStep ==
    ASSUME IInv, NEW h \in Handlers, JudgeAnswer(h)
    PROVE  IInv'
  <1> DEFINE i == req[h].index
             r == [do |-> "formatting"]
  <1>1. /\ session \in Session /\ session # None /\ req[h].do = "answering"
        /\ i \in 0..(Count - 1)
        /\ session' = [session EXCEPT !.index = i + 1] /\ Become(h, r)
        /\ judged' = judged \cup {i + 1}
        /\ late' = (late \/ req[h].number # session.number)
        /\ crossed' = crossed /\ torn' = torn
    BY InvFacts, RequestFields DEF JudgeAnswer
  <1>2. r \in Request /\ r.do = "formatting"
    BY DEF Request
  <1>. HIDE DEF r
  <1>3. req' \in [Handlers -> Request] /\ req'[h] = r /\ OthersStay(h)
    BY <1>1, <1>2, BecomeFacts, InvFacts
  <1>4. i \in Nat /\ i + 1 \in 0..Count /\ i + 1 \in 1..Count
    BY <1>1, InvFacts
  <1>5. session' \in Session /\ session' # None /\ session'.quiz = session.quiz
        /\ session'.number = session.number /\ session'.index = i + 1
        /\ session'.type = session.type /\ session'.text = session.text
        /\ session'.previous = session.previous /\ session'.recent = session.recent
        /\ session'.step = session.step
    <2>. HIDE DEF i
    <2>. QED
      BY <1>1, <1>4, SessionIsOne DEF Session
  <1>6. /\ Making' = Making /\ Indexing' = Indexing /\ Replacing' = Replacing
        /\ Clearing' = Clearing /\ \A g \in Clearing : req'[g] = req[g]
        /\ \A g \in Handlers : req[g].do = "store_step" <=> req'[g].do = "store_step"
    BY <1>1, <1>2, <1>3, LookingThreads DEF Looks
  <1>7. h \in Checking'
    BY <1>2, <1>3 DEF Checking
  <1>8. /\ late \in BOOLEAN /\ late' \in BOOLEAN
        /\ (~ late' => ~ late /\ req[h].number = session.number)
        /\ judged \subseteq judged'
    BY <1>1, InvFacts
  <1>9. TypeOK'
    BY <1>1, <1>3, <1>4, <1>5, <1>8, InvFacts, TypeKept
  <1>10. TasksStored' /\ TextWaits'
    BY <1>1, <1>2, <1>3, <1>5, WritingKept DEF Replaces, Makes
  <1>11. SessionHolds'
    BY <1>1, <1>5 DEF IInv, SessionHolds
  <1>12. NumbersReserved'
    BY <1>1, <1>2, <1>3, <1>5, <1>6 DEF IInv, NumbersReserved, OthersStay
  <1>13. QuizWaits'
    BY <1>1, <1>5, <1>6, <1>7 DEF IInv, QuizWaits
  <1>14. JudgedInOrder'
    <2>1. SUFFICES ASSUME ~ late'
                   PROVE  /\ 1..(i + 1) \subseteq judged'
                          /\ \A g \in Handlers :
                               req'[g].do = "answering" /\ req'[g].number = session.number
                                 => 1..req'[g].index \subseteq judged'
      BY <1>5 DEF JudgedInOrder
    <2>2. \A g \in Handlers : req[g].do = "answering" /\ req[g].number = session.number
                                => 1..req[g].index \subseteq judged
      BY <1>1, <1>8, <2>1 DEF IInv, JudgedInOrder
    <2>3. 1..(i + 1) \subseteq judged'
      <3>1. 1..i \subseteq judged
        BY <1>1, <1>8, <2>1, <2>2
      <3>. HIDE DEF i
      <3>. QED
        BY <1>1, <1>4, <3>1
    <2>4. ASSUME NEW g \in Handlers, req'[g].do = "answering", req'[g].number = session.number
          PROVE  1..req'[g].index \subseteq judged'
      BY <1>2, <1>3, <1>8, <2>2, <2>4 DEF OthersStay
    <2>. QED
      BY <2>3, <2>4
  <1>15. EndsSeen'
    BY <1>2, <1>3, <1>5, <1>6, <1>8 DEF IInv, EndsSeen, AllJudged, OthersStay
  <1>16. FinishHolds'
    BY <1>1, <1>5, <1>6, <1>8 DEF IInv, FinishHolds, AllJudged
  <1>. QED
    BY <1>9, <1>10, <1>11, <1>12, <1>13, <1>14, <1>15, <1>16 DEF IInv

-----------------------------------------------------------------------------
(* What clears                                                              *)

\* A thread that begins to clear crosses those that store a task.
LEMMA AskQuizStep ==
    ASSUME IInv, NEW h \in Handlers, AskQuiz(h)
    PROVE  IInv'
  <1> DEFINE r == [do |-> "clearing", key |-> TaskKey, quiz |-> TRUE]
  <1>1. /\ session \in Session /\ session # None /\ req[h] = Idle /\ req[h].do = "idle"
        /\ Become(h, r) /\ session.number + Cardinality(Making) < MaxQuizzes
        /\ session' = session /\ judged' = judged /\ late' = late
        /\ crossed' = crossed \cup Placing /\ torn' = torn
    BY InvFacts, IdleFacts DEF AskQuiz, Cross
  <1>2. r \in Request /\ r.do = "clearing" /\ r.key = 4 /\ r.quiz
    BY DEF Request, Keys, TaskKey
  <1>. HIDE DEF r
  <1>3. req' \in [Handlers -> Request] /\ req'[h] = r /\ OthersStay(h)
    BY <1>1, <1>2, BecomeFacts, InvFacts
  <1>4. session.number + Cardinality(Making') <= MaxQuizzes
    <2>1. /\ Cardinality(Making) \in Nat /\ Cardinality(Making') \in Nat
          /\ Cardinality(Making') <= Cardinality(Making) + 1
      BY <1>3, MakingCounts
    <2>2. session.number \in Nat /\ MaxQuizzes \in Nat
      BY <1>1, SessionFields, InvFacts
    <2>. QED
      BY <1>1, <2>1, <2>2
  <1>5. /\ Replacing' # {} /\ Indexing' = Indexing /\ Placing' = Placing
        /\ Clearing' = Clearing \cup {h} /\ \A g \in Clearing : g # h /\ req'[g] = req[g]
        /\ \A g \in Handlers : req[g].do = "store_step" <=> req'[g].do = "store_step"
    <2>1. Replaces(req'[h])
      BY <1>2, <1>3 DEF Replaces, Makes
    <2>2. Replacing' # {}
      BY <2>1, ThreadSets
    <2>3. Indexing' = Indexing /\ Placing' = Placing
      BY <1>1, <1>2, <1>3 DEF Indexing, Placing, OthersStay
    <2>4. Clearing' = Clearing \cup {h} /\ \A g \in Clearing : g # h /\ req'[g] = req[g]
      BY <1>1, <1>2, <1>3 DEF Clearing, OthersStay
    <2>5. \A g \in Handlers : req[g].do = "store_step" <=> req'[g].do = "store_step"
      BY <1>1, <1>2, <1>3 DEF OthersStay
    <2>. QED
      BY <2>2, <2>3, <2>4, <2>5
  <1>6. TypeOK'
    <2>1. Placing \subseteq Handlers
      BY DEF Placing
    <2>. QED
      BY <1>1, <1>3, <2>1, InvFacts, TypeKept
  <1>7. SessionHolds'
    BY <1>1 DEF IInv, SessionHolds
  <1>8. NumbersReserved'
    BY <1>1, <1>2, <1>3, <1>4 DEF IInv, NumbersReserved, OthersStay
  <1>9. TasksStored'
    BY <1>1, <1>5 DEF TasksStored
  <1>10. TextWaits'
    BY <1>1, <1>2, <1>3, <1>5 DEF IInv, TextWaits
  <1>11. QuizWaits'
    BY <1>1, <1>2, <1>3, <1>5 DEF IInv, QuizWaits
  <1>12. JudgedInOrder' /\ EndsSeen'
    BY <1>1, <1>2, <1>3, <1>5 DEF IInv, JudgedInOrder, EndsSeen, AllJudged, OthersStay
  <1>13. FinishHolds'
    BY <1>1, <1>5 DEF IInv, FinishHolds, AllJudged
  <1>. QED
    BY <1>6, <1>7, <1>8, <1>9, <1>10, <1>11, <1>12, <1>13 DEF IInv

LEMMA StartStep ==
    ASSUME IInv, NEW h \in Handlers, Start(h)
    PROVE  IInv'
  <1> DEFINE old == IF session = None THEN NewSession ELSE session
             r == [do |-> "clearing", key |-> 1, quiz |-> FALSE]
  <1>1. /\ old \in Session
        /\ Len(old.previous) <= HistoryLimit
        /\ \A t \in WritingTypes : Len(old.recent[t]) <= RecentLimit
        /\ old.quiz # <<>> => Whole(old.quiz)
        /\ old.number + Cardinality(Making) <= MaxQuizzes
        /\ ~ late => 1..old.index \subseteq judged
        /\ session = None => \A g \in Handlers : req[g] = Idle
        /\ session # None => old = session
    <2>1. CASE session = None
      <3>1. Making = {}
        BY <2>1, IdleFacts DEF IInv, SessionHolds, Making
      <3>2. Cardinality(Making) = 0
        BY <3>1, FS_EmptySet
      <3>3. 0 <= HistoryLimit /\ 0 <= RecentLimit /\ 0 <= MaxQuizzes /\ 1..0 = {}
        BY EnglishAssumption
      <3>4. \A t \in WritingTypes : NewSession.recent[t] = <<>>
        BY NewSessionType
      <3>. QED
        BY <2>1, <3>2, <3>3, <3>4, NewSessionType DEF IInv, SessionHolds
    <2>2. CASE session # None
      BY <2>2, InvFacts DEF IInv, SessionHolds, NumbersReserved, JudgedInOrder
    <2>. QED
      BY <2>1, <2>2
  <1>2. /\ req[h] = Idle /\ req[h].do = "idle" /\ Become(h, r)
        /\ session' = [old EXCEPT !.step = "select_level"]
        /\ judged' = judged /\ late' = late
        /\ crossed' = crossed \cup Placing /\ torn' = FALSE
    BY IdleFacts DEF Start, Cross
  <1>3. r \in Request /\ r.do = "clearing" /\ ~ r.quiz
    BY DEF Request, Keys
  <1>. HIDE DEF old, r
  <1>4. req' \in [Handlers -> Request] /\ req'[h] = r /\ OthersStay(h)
    BY <1>2, <1>3, BecomeFacts, InvFacts
  <1>5. session' \in Session /\ session' # None /\ session'.quiz = old.quiz
        /\ session'.number = old.number /\ session'.index = old.index
        /\ session'.previous = old.previous /\ session'.recent = old.recent
        /\ session'.step = "select_level"
    BY <1>1, <1>2, SessionIsOne DEF Session, Steps
  <1>6. Making' = Making /\ Indexing' = Indexing /\ Placing' = Placing
    <2>1. Making' = Making
      BY <1>2, <1>3, <1>4, MakingCounts DEF Makes
    <2>. QED
      BY <1>2, <1>3, <1>4, <2>1 DEF Indexing, Placing, OthersStay
  <1>7. TypeOK'
    <2>1. Placing \subseteq Handlers
      BY DEF Placing
    <2>. QED
      BY <1>1, <1>2, <1>4, <1>5, <2>1, InvFacts DEF TypeOK
  <1>8. SessionHolds'
    BY <1>1, <1>5 DEF SessionHolds
  <1>9. TasksStored'
    BY <1>2, <1>6 DEF TasksStored
  <1>10. TextWaits' /\ QuizWaits' /\ FinishHolds'
    BY <1>5 DEF TextWaits, QuizWaits, FinishHolds
  <1>11. \A g \in Handlers : req'[g].do \in {"looking", "answering", "finishing"} =>
           req'[g] = req[g] /\ session # None /\ old = session
    BY <1>1, <1>3, <1>4, InvFacts DEF OthersStay
  <1>12. NumbersReserved'
    BY <1>1, <1>5, <1>6, <1>11 DEF IInv, NumbersReserved
  <1>13. JudgedInOrder'
    <2>1. \A g \in Handlers : ~ late /\ req'[g].do = "answering" /\ req'[g].number = old.number
            => 1..req'[g].index \subseteq judged
      BY <1>11 DEF IInv, JudgedInOrder
    <2>. QED
      BY <1>1, <1>2, <1>5, <2>1 DEF JudgedInOrder
  <1>14. EndsSeen'
    BY <1>2, <1>5, <1>6, <1>11 DEF IInv, EndsSeen, AllJudged
  <1>. QED
    BY <1>7, <1>8, <1>9, <1>10, <1>12, <1>13, <1>14 DEF IInv

\* One key is cleared: the rest of the session stays.
LEMMA ClearedFacts ==
    ASSUME NEW s \in Session, NEW key \in Keys
    PROVE  LET c == Cleared(s, key) IN
           /\ c \in Session /\ c.step = s.step /\ c.number = s.number
           /\ c.previous = s.previous /\ c.recent = s.recent
           /\ c.quiz = IF key = 2 THEN <<>> ELSE s.quiz
           /\ c.index = IF key = 3 THEN 0 ELSE s.index
  <1>1. /\ NewSession \in Session /\ NewSession.quiz = <<>> /\ NewSession.index = 0
    BY NewSessionType
  <1>2. /\ NewSession.level \in Levels \cup {"none"} /\ NewSession.quiz \in Seq(Questions)
        /\ NewSession.index \in 0..Count /\ NewSession.type \in WritingTypes \cup {"none"}
        /\ NewSession.text \in [WritingTypes -> Tasks \cup {"none"}]
    BY <1>1, SessionFields
  <1>. QED
    BY <1>1, <1>2 DEF Cleared, Session

\* What waits and is not torn was not set before this thread cleared it.
LEMMA ClearStep ==
    ASSUME IInv, NEW h \in Handlers, Clear(h)
    PROVE  IInv'
  <1> DEFINE key == req[h].key
             r == IF key + 1 \in Keys THEN [req[h] EXCEPT !.key = @ + 1]
                  ELSE IF req[h].quiz THEN [do |-> "asking"] ELSE Idle
  <1>1. /\ session \in Session /\ session # None /\ req[h].do = "clearing"
        /\ key \in Keys /\ req[h].quiz \in BOOLEAN
        /\ session' = Cleared(session, key) /\ Become(h, r)
        /\ judged' = judged /\ late' = late
        /\ crossed' = crossed \cup Placing /\ torn' = torn
    BY InvFacts, RequestFields DEF Clear, Cross
  <1>2. /\ r \in Request /\ r.do \in {"clearing", "asking", "idle"}
        /\ r.do = "clearing" => r.key = key + 1 /\ r.quiz = req[h].quiz
        /\ Makes(r) <=> Makes(req[h])
    <2>1. CASE key + 1 \in Keys
      <3>1. LET n == [req[h] EXCEPT !.key = @ + 1] IN
            n \in Request /\ n.do = "clearing" /\ n.key = key + 1 /\ n.quiz = req[h].quiz
        BY <1>1, <2>1, RequestSteps, InvFacts
      <3>2. r = [req[h] EXCEPT !.key = @ + 1]
        BY <2>1
      <3>. QED
        BY <1>1, <3>1, <3>2 DEF Makes
    <2>2. CASE key + 1 \notin Keys /\ req[h].quiz
      <3>1. r = [do |-> "asking"]
        BY <2>2
      <3>2. [do |-> "asking"] \in Request
        BY DEF Request
      <3>. QED
        BY <1>1, <2>2, <3>1, <3>2 DEF Makes
    <2>3. CASE key + 1 \notin Keys /\ ~ req[h].quiz
      BY <1>1, <2>3, IdleFacts DEF Makes
    <2>. QED
      BY <1>1, <2>1, <2>2, <2>3
  <1>. HIDE DEF r
  <1>3. req' \in [Handlers -> Request] /\ req'[h] = r /\ OthersStay(h)
    BY <1>1, <1>2, BecomeFacts, InvFacts
  <1>4. /\ session' \in Session /\ session' # None
        /\ session'.step = session.step /\ session'.number = session.number
        /\ session'.previous = session.previous /\ session'.recent = session.recent
        /\ session'.quiz = IF key = 2 THEN <<>> ELSE session.quiz
        /\ session'.index = IF key = 3 THEN 0 ELSE session.index
    BY <1>1, ClearedFacts, SessionIsOne
  <1>5. /\ Making' = Making /\ Replacing' = Replacing /\ Indexing' = Indexing
        /\ Placing' = Placing /\ Clearing' \subseteq Clearing /\ h \in Clearing
        /\ \A g \in Handlers : req[g].do = "store_step" <=> req'[g].do = "store_step"
    <2>1. Making' = Making
      BY <1>2, <1>3, MakingCounts
    <2>2. Indexing' = Indexing /\ Placing' = Placing
          /\ Clearing' \subseteq Clearing /\ h \in Clearing
      BY <1>1, <1>2, <1>3 DEF Indexing, Placing, Clearing, OthersStay
    <2>3. \A g \in Handlers : req[g].do = "store_step" <=> req'[g].do = "store_step"
      BY <1>1, <1>2, <1>3 DEF OthersStay
    <2>4. Replacing' = Replacing
      BY <2>1, <2>3 DEF Replacing
    <2>. QED
      BY <2>1, <2>2, <2>3, <2>4
  <1>6. \A g \in Clearing' : g # h => g \in Clearing /\ req'[g] = req[g]
    BY <1>3, <1>5 DEF Clearing, OthersStay
  <1>7. TypeOK'
    <2>1. Placing \subseteq Handlers
      BY DEF Placing
    <2>. QED
      BY <1>1, <1>3, <1>4, <2>1, InvFacts, TypeKept
  <1>8. SessionHolds'
    BY <1>1, <1>4 DEF IInv, SessionHolds
  <1>9. NumbersReserved'
    BY <1>1, <1>2, <1>3, <1>4, <1>5 DEF IInv, NumbersReserved, OthersStay
  <1>10. TasksStored'
    BY <1>1, <1>5 DEF TasksStored
  <1>11. TextWaits'
    <2>1. SUFFICES ASSUME session.step = "waiting_writing", ~ torn
                   PROVE  Replacing # {} /\ \A g \in Clearing' : req'[g].quiz
      BY <1>1, <1>4, <1>5 DEF TextWaits
    <2>2. \A g \in Clearing : req[g].quiz
      BY <1>1, <2>1 DEF IInv, TextWaits
    <2>3. Replaces(req[h])
      BY <1>1, <1>5, <2>2 DEF Replaces, Makes
    <2>4. Replacing # {}
      BY <2>3, ThreadSets
    <2>5. \A g \in Clearing' : req'[g].quiz
      BY <1>2, <1>3, <1>5, <1>6, <2>2 DEF Clearing
    <2>. QED
      BY <2>4, <2>5
  <1>12. QuizWaits'
    <2>1. SUFFICES ASSUME session.step = "waiting_quiz_answer", ~ torn
                   PROVE  /\ \/ session'.index < Len(session'.quiz)
                             \/ Replacing # {} \/ Checking' # {}
                          /\ \A g \in Clearing' : req'[g].key > 2
      BY <1>1, <1>4, <1>5 DEF QuizWaits
    <2>2. /\ session.index < Len(session.quiz) \/ Replacing # {} \/ Checking # {}
          /\ \A g \in Clearing : req[g].key > 2
      BY <1>1, <2>1 DEF IInv, QuizWaits
    <2>3. key > 2 /\ session'.quiz = session.quiz /\ key \in Nat
      BY <1>1, <1>4, <1>5, <2>2 DEF Keys
    <2>4. \A g \in Clearing' : req'[g].key > 2
      BY <1>2, <1>3, <1>5, <1>6, <2>2, <2>3 DEF Clearing
    <2>5. CASE session.quiz # <<>> /\ key = 3
      <3>1. Len(session.quiz) = Count /\ 0 < Count
        BY <1>1, <2>5, InvFacts
      <3>. QED
        BY <1>4, <2>3, <2>4, <2>5, <3>1
    <2>6. CASE session.quiz = <<>> /\ key = 3
      <3>1. Len(session.quiz) = 0 /\ session.index \in 0..Count /\ session'.index = 0
        BY <1>1, <1>4, <2>6, SessionFields, InvFacts
      <3>2. ~ (session.index < Len(session.quiz))
        BY <3>1
      <3>3. Checking # {} => Checking' # {}
        <4>1. SUFFICES ASSUME NEW g \in Checking PROVE g \in Checking'
          OBVIOUS
        <4>2. g # h /\ g \in Handlers /\ req'[g] = req[g]
          BY <1>1, <1>3, <4>1 DEF Checking, OthersStay
        <4>. QED
          BY <2>3, <3>1, <4>1, <4>2 DEF Checking
      <3>. QED
        BY <2>2, <2>4, <3>2, <3>3
    <2>7. CASE key # 3
      <3>1. Checking # {} => Checking' # {}
        <4>1. SUFFICES ASSUME NEW g \in Checking PROVE g \in Checking'
          OBVIOUS
        <4>2. g # h /\ g \in Handlers /\ req'[g] = req[g]
          BY <1>1, <1>3, <4>1 DEF Checking, OthersStay
        <4>. QED
          BY <1>4, <2>3, <2>7, <4>1, <4>2 DEF Checking
      <3>. QED
        BY <1>4, <2>2, <2>3, <2>4, <2>7, <3>1
    <2>. QED
      BY <2>5, <2>6, <2>7
  <1>13. JudgedInOrder'
    <2>1. ~ late => 1..session'.index \subseteq judged
      <3>1. 1..0 = {}
        OBVIOUS
      <3>. QED
        BY <1>1, <1>4, <3>1 DEF IInv, JudgedInOrder
    <2>. QED
      BY <1>1, <1>2, <1>3, <1>4, <2>1 DEF IInv, JudgedInOrder, OthersStay
  <1>14. EndsSeen'
    BY <1>1, <1>2, <1>3, <1>4, <1>5 DEF IInv, EndsSeen, AllJudged, OthersStay
  <1>15. FinishHolds'
    BY <1>1, <1>4, <1>5 DEF IInv, FinishHolds, AllJudged
  <1>. QED
    BY <1>7, <1>8, <1>9, <1>10, <1>11, <1>12, <1>13, <1>14, <1>15 DEF IInv

\* The session ends, by age or by a restart, when no thread is left of it.
LEMMA EndStep ==
    ASSUME IInv, Expire \/ Restart
    PROVE  IInv'
  <1>1. /\ session' = None /\ judged' = {} /\ late' = FALSE /\ crossed' = {} /\ torn' = FALSE
        /\ req' \in [Handlers -> Request] /\ \A h \in Handlers : req'[h] = Idle
    <2>1. CASE Expire
      BY <2>1, InvFacts DEF Expire
    <2>2. CASE Restart
      BY <2>2, IdleFacts DEF Restart
    <2>. QED
      BY <2>1, <2>2
  <1>2. TypeOK'
    BY <1>1 DEF TypeOK
  <1>3. SessionHolds' /\ NumbersReserved'
    BY <1>1, IdleFacts DEF SessionHolds, NumbersReserved
  <1>4. TasksStored' /\ TextWaits'
    BY <1>1, IdleFacts DEF TasksStored, TextWaits, Clearing, Placing
  <1>5. QuizWaits' /\ JudgedInOrder' /\ EndsSeen' /\ FinishHolds'
    BY <1>1, IdleFacts DEF QuizWaits, JudgedInOrder, EndsSeen, FinishHolds
  <1>. QED
    BY <1>2, <1>3, <1>4, <1>5 DEF IInv

LEMMA StutterStep ==
    ASSUME IInv, UNCHANGED vars
    PROVE  IInv'
  <1>1. /\ session' = session /\ req' = req /\ judged' = judged /\ late' = late
        /\ crossed' = crossed /\ torn' = torn
    BY DEF vars, seen
  <1>2. /\ Making' = Making /\ Indexing' = Indexing /\ Clearing' = Clearing
        /\ Placing' = Placing /\ Checking' = Checking /\ TaskComing' = TaskComing
        /\ Replacing' = Replacing
    BY <1>1 DEF Making, Indexing, Clearing, Placing, Checking, TaskComing, Replacing
  <1>3. TypeOK'
    BY <1>1 DEF IInv, TypeOK
  <1>4. SessionHolds' /\ NumbersReserved' /\ TasksStored' /\ TextWaits'
    BY <1>1, <1>2 DEF IInv, SessionHolds, NumbersReserved, TasksStored, TextWaits
  <1>5. QuizWaits' /\ JudgedInOrder' /\ EndsSeen' /\ FinishHolds'
    BY <1>1, <1>2 DEF IInv, QuizWaits, JudgedInOrder, EndsSeen, FinishHolds, AllJudged
  <1>. QED
    BY <1>3, <1>4, <1>5 DEF IInv

LEMMA IInvHolds == Spec => []IInv
  <1>1. IInv /\ [Next]_vars => IInv'
    <2>1. SUFFICES ASSUME IInv, [Next]_vars PROVE IInv'
      OBVIOUS
    <2>2. CASE UNCHANGED vars
      BY <2>1, <2>2, StutterStep
    <2>3. CASE SelectWriting \/ Expire \/ Restart
      BY <2>1, <2>3, SelectWritingStep, EndStep
    <2>4. ASSUME NEW h \in Handlers, Clicking(h)
          PROVE  IInv'
      BY <2>1, <2>4, StartStep, AskQuizStep, SendTextStep, SelectLevelStep, ChooseTaskStep
         DEF Clicking
    <2>5. ASSUME NEW h \in Handlers, Clear(h) \/ SelectMode(h)
          PROVE  IInv'
      BY <2>1, <2>5, ClearStep, SelectModeStep
    <2>6. ASSUME NEW h \in Handlers, Writing(h)
          PROVE  IInv'
      BY <2>1, <2>6, StoreTypeStep, StoreTextStep, StoreRecentStep, StoreWaitingStep,
         ReadTaskStep, GradeTextStep, GradingFailsStep DEF Writing
    <2>7. ASSUME NEW h \in Handlers, Quizzing(h)
          PROVE  IInv'
      BY <2>1, <2>7, AskModelStep, GenerateStep, StartQuizStep, StartFallbackStep,
         StoreIndexStep, StoreStepStep, StorePreviousStep, ReadQuestionsStep,
         ReadIndexStep, FinishQuizStep, JudgeAnswerStep DEF Quizzing
    <2>. QED
      BY <2>1, <2>2, <2>3, <2>4, <2>5, <2>6, <2>7 DEF Next
  <1>. QED
    BY InitHolds, <1>1, PTL DEF Spec

-----------------------------------------------------------------------------
(* Theorems                                                                 *)

\* Every session, request and history has its type, whatever number of quizzes
\* is asked for and however the threads of a user overtake each other.
THEOREM TypeCorrect == Spec => []TypeOK
  <1>1. IInv => TypeOK
    BY DEF IInv
  <1>. QED
    BY <1>1, IInvHolds, PTL

\* A quiz is whole: whatever sequence of questions the model writes, whatever
\* the shuffles do and whatever was asked before, start_quiz and
\* _start_fallback_quiz store Count different questions that passed the checks,
\* no two alike unless both come from the table.
THEOREM QuizzesAreWhole == Spec => []QuizIsWhole
  <1>1. IInv => QuizIsWhole
    BY DEF IInv, SessionHolds, QuizIsWhole
  <1>. QED
    BY <1>1, IInvHolds, PTL

\* A session that no thread works on waits for a text only with its task and
\* for an answer only with a question, each write of start_topic_writing,
\* start_quiz, submit_answer and FlowEngine.start taken by itself: unless its
\* step was set by a thread whose writes met those of one that clears.
THEOREM SessionsWaitForSomething == Spec => []WaitsForSomething
  <1>1. IInv => WaitsForSomething
    <2>1. SUFFICES ASSUME IInv, session # None, ~ torn, \A h \in Handlers : req[h] = Idle
                   PROVE  /\ session.step = "waiting_writing" => HasTask(session)
                          /\ session.step = "waiting_quiz_answer" =>
                               session.index < Len(session.quiz)
      BY DEF WaitsForSomething
    <2>2. Replacing = {} /\ Checking = {}
      BY <2>1, IdleFacts, ThreadSets DEF Replaces, Makes, Checking
    <2>3. TaskComing => HasTask(session)
      BY <2>1, IdleFacts DEF TaskComing, HasTask
    <2>. QED
      BY <2>1, <2>2, <2>3 DEF IInv, TextWaits, QuizWaits
  <1>. QED
    BY <1>1, IInvHolds, PTL

\* A quiz ends after each of its questions was judged, however often the
\* buttons were pressed at once, unless a click on an earlier quiz moved or
\* ended the present one.
THEOREM QuizzesEndAfterAll == Spec => []FinishedAfterAll
  <1>1. IInv => FinishedAfterAll
    <2>1. SUFFICES ASSUME IInv, session # None, session.step = "quiz_finished", ~ late,
                          \A h \in Handlers : req[h].do \notin {"store_index", "store_step"}
                   PROVE  1..Len(session.quiz) \subseteq judged
      BY DEF FinishedAfterAll
    <2>2. session.quiz = <<>> \/ 1..Count \subseteq judged
      BY <2>1 DEF IInv, FinishHolds, AllJudged, Indexing
    <2>3. Len(session.quiz) \in {0, Count} /\ (session.quiz = <<>> => Len(session.quiz) = 0)
      BY <2>1, InvFacts
    <2>. QED
      BY <2>2, <2>3
  <1>. QED
    BY <1>1, IInvHolds, PTL

-----------------------------------------------------------------------------
(* What a fold returns, by its steps                                        *)

\* The steps of a fold over s, from base on, by the values it goes through, and
\* its result.
Runs(h, G, base, s, A) ==
    /\ h \in [0..Len(s) -> A] /\ h[0] = base
    /\ \A k \in 1..Len(s) : h[k] = G[<<h[k - 1], s[k]>>]

Result(G, base, s, A) == CHOOSE v : \E h : Runs(h, G, base, s, A) /\ v = h[Len(s)]

\* A function as MapThenFoldSet has it, as far as its values are of A.
FoldsTo(f, G, base, s, A) ==
    /\ f[{}] = base
    /\ \A x \in SUBSET (1..Len(s)) :
         x # {} /\ f[x \ {Max(x)}] \in A => f[x] = G[<<f[x \ {Max(x)}], s[Max(x)]>>]

\* A total one.
FoldsAll(g, G, base, s) ==
    /\ g[{}] = base
    /\ \A x \in SUBSET (1..Len(s)) :
         x # {} => Max(x) \in x /\ g[x] = G[<<g[x \ {Max(x)}], s[Max(x)]>>]

LEMMA FoldsAllExists ==
    ASSUME NEW A, NEW B, NEW G \in [A \X B -> A], NEW base \in A, NEW s \in Seq(B)
    PROVE  \E g \in [SUBSET (1..Len(s)) -> A] : FoldsAll(g, G, base, s)
  <1> DEFINE n == Len(s)
             H == [p \in (1..n) \X A |-> G[<<p[2], s[p[1]]>>]]
  <1>1. n \in Nat /\ \A k \in 1..n : s[k] \in B
    BY SeqFacts
  <1>2. H \in [(1..n) \X A -> A]
    BY <1>1
  <1>3. PICK g \in [SUBSET (1..n) -> A] : IsFold(g, n, base, H)
    <2>. HIDE DEF H, n
    <2>. QED
      BY <1>1, <1>2, FoldExists
  <1>4. ASSUME NEW x \in SUBSET (1..n), x # {}
        PROVE  Max(x) \in x /\ g[x] = G[<<g[x \ {Max(x)}], s[Max(x)]>>]
    <2>1. Max(x) \in x /\ g[x] = H[<<Max(x), g[x \ {Max(x)}]>>]
      BY <1>3, <1>4 DEF IsFold
    <2>2. <<Max(x), g[x \ {Max(x)}]>> \in (1..n) \X A
      BY <1>3, <2>1
    <2>. QED
      BY <2>1, <2>2
  <1>. QED
    BY <1>3, <1>4 DEF FoldsAll, IsFold

\* Such a function ends in what the steps end in.
LEMMA FoldsToRuns ==
    ASSUME NEW A, NEW B, NEW G \in [A \X B -> A], NEW base \in A, NEW s \in Seq(B),
           NEW f, FoldsTo(f, G, base, s, A), NEW h, h = [k \in 0..Len(s) |-> f[1..k]]
    PROVE  Runs(h, G, base, s, A)
  <1> DEFINE n == Len(s)
             S == {k \in 0..n : h[k] \in A}
  <1>1. n \in Nat /\ \A k \in 1..n : s[k] \in B
    BY SeqFacts
  <1>2. h[0] = base
    BY <1>1 DEF FoldsTo
  <1>3. ASSUME NEW k \in 1..n, h[k - 1] \in A
        PROVE  h[k] = G[<<h[k - 1], s[k]>>] /\ h[k] \in A
    <2>1. /\ 1..k \in SUBSET (1..n) /\ 1..k # {}
          /\ Max(1..k) = k /\ (1..k) \ {k} = 1..(k - 1)
      BY <1>1, Intervals
    <2>2. h[k] = f[1..k] /\ h[k - 1] = f[1..(k - 1)]
      BY <1>1
    <2>3. f[1..k] = G[<<f[1..(k - 1)], s[k]>>]
      BY <1>3, <2>1, <2>2 DEF FoldsTo
    <2>. QED
      BY <1>1, <1>3, <2>2, <2>3
  <1>4. \A k \in 0..n : k \in S
    <2>1. 0 \in S
      BY <1>1, <1>2
    <2>2. ASSUME NEW k \in 1..n, k - 1 \in S PROVE k \in S
      <3>1. k \in 0..n /\ h[k - 1] \in A
        BY <1>1, <2>2
      <3>. QED
        BY <1>3, <3>1
    <2>. HIDE DEF S, n
    <2>. QED
      BY <1>1, <2>1, <2>2, Induction
  <1>5. h \in [0..n -> A]
    BY <1>4
  <1>6. ASSUME NEW k \in 1..n PROVE h[k] = G[<<h[k - 1], s[k]>>]
    <2>1. k - 1 \in 0..n
      BY <1>1
    <2>2. h[k - 1] \in A
      BY <1>4, <2>1
    <2>. QED
      BY <1>3, <2>2
  <1>. QED
    BY <1>2, <1>5, <1>6 DEF Runs

\* Two runs over sequences that begin alike go through the same values.
LEMMA RunsAgree ==
    ASSUME NEW A, NEW G, NEW base, NEW s, NEW g, Runs(g, G, base, s, A), Len(s) \in Nat,
           NEW t, NEW h, Runs(h, G, base, t, A), Len(t) \in Nat,
           NEW m, m \in 0..Len(s), m <= Len(t), \A k \in 1..m : s[k] = t[k]
    PROVE  g[m] = h[m]
  <1> DEFINE S == {k \in 0..m : g[k] = h[k]}
  <1>1. m \in Nat /\ 0 \in S
    BY DEF Runs
  <1>2. ASSUME NEW k \in 1..m, k - 1 \in S PROVE k \in S
    <2>1. k \in 1..Len(s) /\ k \in 1..Len(t) /\ k \in 0..m /\ s[k] = t[k] /\ g[k - 1] = h[k - 1]
      BY <1>2
    <2>2. g[k] = G[<<g[k - 1], s[k]>>]
      BY <2>1 DEF Runs
    <2>3. h[k] = G[<<h[k - 1], t[k]>>]
      BY <2>1 DEF Runs
    <2>. QED
      BY <2>1, <2>2, <2>3
  <1>3. \A k \in 0..m : k \in S
    <2>. HIDE DEF S
    <2>. QED
      BY <1>1, <1>2, Induction
  <1>. QED
    BY <1>3

LEMMA ResultIs ==
    ASSUME NEW A, NEW G, NEW base, NEW s, Len(s) \in Nat, NEW h, Runs(h, G, base, s, A)
    PROVE  Result(G, base, s, A) = h[Len(s)]
  <1>1. \E v : \E g : Runs(g, G, base, s, A) /\ v = g[Len(s)]
    OBVIOUS
  <1>2. PICK g : Runs(g, G, base, s, A) /\ Result(G, base, s, A) = g[Len(s)]
    BY <1>1, Zenon DEF Result
  <1>. QED
    BY <1>2, RunsAgree

\* A fold starts with its base, and a further value takes one step more.
StepsOn(G, base, A, B) ==
    /\ Result(G, base, <<>>, A) = base
    /\ \A s \in Seq(B) : Result(G, base, s, A) \in A
    /\ \A s \in Seq(B), x \in B :
         Result(G, base, Append(s, x), A) = G[<<Result(G, base, s, A), x>>]

LEMMA ResultSteps ==
    ASSUME NEW A, NEW B, NEW G \in [A \X B -> A], NEW base \in A
    PROVE  StepsOn(G, base, A, B)
  <1>1. ASSUME NEW s \in Seq(B)
        PROVE  \E h : Runs(h, G, base, s, A) /\ Result(G, base, s, A) = h[Len(s)]
    <2>1. PICK g \in [SUBSET (1..Len(s)) -> A] : FoldsAll(g, G, base, s)
      BY FoldsAllExists
    <2>2. FoldsTo(g, G, base, s, A)
      BY <2>1 DEF FoldsAll, FoldsTo
    <2>3. PICK h : h = [k \in 0..Len(s) |-> g[1..k]]
      OBVIOUS
    <2>4. Len(s) \in Nat
      BY SeqFacts
    <2>5. Runs(h, G, base, s, A)
      BY <2>2, <2>3, FoldsToRuns
    <2>. QED
      BY <2>4, <2>5, ResultIs
  <1>2. Result(G, base, <<>>, A) = base
    <2>1. <<>> \in Seq(B) /\ Len(<<>>) = 0
      OBVIOUS
    <2>2. PICK h : Runs(h, G, base, <<>>, A) /\ Result(G, base, <<>>, A) = h[Len(<<>>)]
      BY <1>1, <2>1
    <2>. QED
      BY <2>1, <2>2 DEF Runs
  <1>3. ASSUME NEW s \in Seq(B)
        PROVE  Result(G, base, s, A) \in A
    <2>1. PICK h : Runs(h, G, base, s, A) /\ Result(G, base, s, A) = h[Len(s)]
      BY <1>1
    <2>. QED
      BY <2>1, SeqFacts DEF Runs
  <1>4. ASSUME NEW s \in Seq(B), NEW x \in B
        PROVE  Result(G, base, Append(s, x), A) = G[<<Result(G, base, s, A), x>>]
    <2>1. PICK t \in Seq(B) : t = Append(s, x)
      <3>1. Append(s, x) \in Seq(B)
        OBVIOUS
      <3>. QED
        BY <3>1, Zenon
    <2>2. /\ Len(s) \in Nat /\ Len(t) \in Nat /\ Len(t) = Len(s) + 1 /\ t[Len(t)] = x
          /\ \A k \in 1..Len(s) : s[k] = t[k]
      BY <2>1
    <2>3. PICK g : Runs(g, G, base, s, A) /\ Result(G, base, s, A) = g[Len(s)]
      BY <1>1
    <2>4. PICK h : Runs(h, G, base, t, A) /\ Result(G, base, t, A) = h[Len(t)]
      BY <1>1
    <2>5. g[Len(s)] = h[Len(s)]
      <3>1. Len(s) \in 0..Len(s) /\ Len(s) <= Len(t)
        BY <2>2
      <3>. QED
        BY <2>2, <2>3, <2>4, <3>1, RunsAgree
    <2>6. h[Len(t)] = G[<<h[Len(s)], x>>]
      <3>1. Len(t) \in 1..Len(t) /\ Len(t) - 1 = Len(s)
        BY <2>2
      <3>. QED
        BY <2>2, <2>4, <3>1 DEF Runs
    <2>. QED
      BY <2>1, <2>3, <2>4, <2>5, <2>6
  <1>. QED
    BY <1>2, <1>3, <1>4 DEF StepsOn

\* A fold of MapThenFoldSet has that result.
LEMMA FoldIsResult ==
    ASSUME NEW A, NEW B, NEW G \in [A \X B -> A], NEW base \in A, NEW s \in Seq(B),
           NEW f, FoldsTo(f, G, base, s, A)
    PROVE  f[1..Len(s)] = Result(G, base, s, A)
  <1>1. Len(s) \in Nat
    BY SeqFacts
  <1>2. PICK h : h = [k \in 0..Len(s) |-> f[1..k]]
    OBVIOUS
  <1>3. Runs(h, G, base, s, A)
    BY <1>2, FoldsToRuns
  <1>4. h[Len(s)] = f[1..Len(s)]
    BY <1>1, <1>2
  <1>. QED
    BY <1>1, <1>3, <1>4, ResultIs

-----------------------------------------------------------------------------
(* What the folds of Summary take a step by                                 *)

\* Only goes through a sequence and leaves out what is not of S.
OnlyStep(kept, i, S) == IF i \in S THEN Append(kept, i) ELSE kept

LEMMA OnlySteps ==
    ASSUME NEW Values, NEW S
    PROVE  /\ Only(<<>>, S) = <<>>
           /\ \A s \in Seq(Values) : Only(s, S) \in Seq(Values)
           /\ \A s \in Seq(Values), x \in Values :
                Only(Append(s, x), S) = OnlyStep(Only(s, S), x, S)
  <1> DEFINE A == Seq(Values)
             B == Values
             Step(t, x) == OnlyStep(t, x, S)
             G == [p \in A \X B |-> Step(p[1], p[2])]
             base == <<>>
  <1>1. base \in A /\ \A t \in A, x \in B : Step(t, x) \in A
    BY DEF OnlyStep
  <1>2. G \in [A \X B -> A] /\ \A t \in A, x \in B : G[<<t, x>>] = Step(t, x)
    <2>. HIDE DEF Step, A, B
    <2>. QED
      BY <1>1
  <1>3. ASSUME NEW s \in Seq(B)
        PROVE  Only(s, S) = Result(G, base, s, A)
    <2>1. DOMAIN s = 1..Len(s) /\ \A k \in 1..Len(s) : s[k] \in B
      <3>. HIDE DEF B
      <3>. QED
        BY SeqFacts
    <2>2. PICK g \in [SUBSET (1..Len(s)) -> A] : FoldsAll(g, G, base, s)
      <3>. HIDE DEF G, A, B, base
      <3>. QED
        BY <1>1, <1>2, FoldsAllExists
    <2>3. g = [x \in SUBSET DOMAIN s |->
                 IF x = {} THEN base ELSE Step(g[x \ {Max(x)}], s[Max(x)])]
      <3>. HIDE DEF Step, G, A, B, base
      <3>. QED
        BY <1>2, <2>1, <2>2 DEF FoldsAll
    <2>4. \E f : /\ Only(s, S) = f[DOMAIN s]
                 /\ f = [x \in SUBSET DOMAIN s |->
                          IF x = {} THEN base ELSE Step(f[x \ {Max(x)}], s[Max(x)])]
      BY <2>3, Zenon DEF Only, OnlyStep, FoldLeft, MapThenFoldSet
    <2>. HIDE DEF Step, G, A, B, base
    <2>5. PICK f : /\ Only(s, S) = f[1..Len(s)]
                   /\ f = [x \in SUBSET (1..Len(s)) |->
                            IF x = {} THEN base ELSE Step(f[x \ {Max(x)}], s[Max(x)])]
      BY <2>1, <2>4, Zenon
    <2>6. ASSUME NEW x \in SUBSET (1..Len(s)), x # {}, f[x \ {Max(x)}] \in A
          PROVE  f[x] = G[<<f[x \ {Max(x)}], s[Max(x)]>>]
      <3>1. Max(x) \in x
        BY <2>2, <2>6 DEF FoldsAll
      <3>2. s[Max(x)] \in B
        BY <2>1, <3>1
      <3>3. f[x] = Step(f[x \ {Max(x)}], s[Max(x)])
        BY <2>5, <2>6
      <3>. QED
        BY <1>2, <2>6, <3>2, <3>3
    <2>7. FoldsTo(f, G, base, s, A)
      BY <2>5, <2>6 DEF FoldsTo
    <2>8. f[1..Len(s)] = Result(G, base, s, A)
      BY <1>1, <1>2, <2>7, FoldIsResult
    <2>. QED
      BY <2>5, <2>8
  <1>4. <<>> \in Seq(B) /\ \A s \in Seq(B), x \in B : Append(s, x) \in Seq(B)
    OBVIOUS
  <1>. HIDE DEF G, Step, A, B, base
  <1>5. StepsOn(G, base, A, B)
    BY <1>1, <1>2, ResultSteps
  <1>6. Only(<<>>, S) = base
    BY <1>3, <1>4, <1>5 DEF StepsOn
  <1>7. \A s \in Seq(B) : Only(s, S) \in A
    BY <1>3, <1>5 DEF StepsOn
  <1>8. ASSUME NEW s \in Seq(B), NEW x \in B
        PROVE  Only(Append(s, x), S) = Step(Only(s, S), x)
    <2>1. Only(Append(s, x), S) = G[<<Only(s, S), x>>]
      BY <1>3, <1>4, <1>5 DEF StepsOn
    <2>. QED
      BY <1>2, <1>7, <2>1
  <1>. QED
    BY <1>6, <1>7, <1>8 DEF A, B, Step, base

\* Letters adds up the lengths of lines.
LEMMA LettersSteps ==
    /\ Letters(<<>>) = 0
    /\ \A s \in Seq(Items \X Nat) : Letters(s) \in Nat
    /\ \A s \in Seq(Items \X Nat), x \in Items \X Nat :
         Letters(Append(s, x)) = Letters(s) + x[2]
  <1> DEFINE A == Nat
             B == Items \X Nat
             Step(t, x) == t + x[2]
             G == [p \in A \X B |-> Step(p[1], p[2])]
             base == 0
  <1>1. base \in A /\ \A t \in A, x \in B : Step(t, x) \in A
    OBVIOUS
  <1>2. G \in [A \X B -> A] /\ \A t \in A, x \in B : G[<<t, x>>] = Step(t, x)
    <2>. HIDE DEF Step, A, B
    <2>. QED
      BY <1>1
  <1>3. ASSUME NEW s \in Seq(B)
        PROVE  Letters(s) = Result(G, base, s, A)
    <2>1. DOMAIN s = 1..Len(s) /\ \A k \in 1..Len(s) : s[k] \in B
      <3>. HIDE DEF B
      <3>. QED
        BY SeqFacts
    <2>2. PICK g \in [SUBSET (1..Len(s)) -> A] : FoldsAll(g, G, base, s)
      <3>. HIDE DEF G, A, B, base
      <3>. QED
        BY <1>1, <1>2, FoldsAllExists
    <2>3. g = [x \in SUBSET DOMAIN s |->
                 IF x = {} THEN base ELSE Step(g[x \ {Max(x)}], s[Max(x)])]
      <3>. HIDE DEF Step, G, A, B, base
      <3>. QED
        BY <1>2, <2>1, <2>2 DEF FoldsAll
    <2>4. \E f : /\ Letters(s) = f[DOMAIN s]
                 /\ f = [x \in SUBSET DOMAIN s |->
                          IF x = {} THEN base ELSE Step(f[x \ {Max(x)}], s[Max(x)])]
      BY <2>3, Zenon DEF Letters, FoldLeft, MapThenFoldSet
    <2>. HIDE DEF Step, G, A, B, base
    <2>5. PICK f : /\ Letters(s) = f[1..Len(s)]
                   /\ f = [x \in SUBSET (1..Len(s)) |->
                            IF x = {} THEN base ELSE Step(f[x \ {Max(x)}], s[Max(x)])]
      BY <2>1, <2>4, Zenon
    <2>6. ASSUME NEW x \in SUBSET (1..Len(s)), x # {}, f[x \ {Max(x)}] \in A
          PROVE  f[x] = G[<<f[x \ {Max(x)}], s[Max(x)]>>]
      <3>1. Max(x) \in x
        BY <2>2, <2>6 DEF FoldsAll
      <3>2. s[Max(x)] \in B
        BY <2>1, <3>1
      <3>3. f[x] = Step(f[x \ {Max(x)}], s[Max(x)])
        BY <2>5, <2>6
      <3>. QED
        BY <1>2, <2>6, <3>2, <3>3
    <2>7. FoldsTo(f, G, base, s, A)
      BY <2>5, <2>6 DEF FoldsTo
    <2>8. f[1..Len(s)] = Result(G, base, s, A)
      BY <1>1, <1>2, <2>7, FoldIsResult
    <2>. QED
      BY <2>5, <2>8
  <1>4. <<>> \in Seq(B) /\ \A s \in Seq(B), x \in B : Append(s, x) \in Seq(B)
    OBVIOUS
  <1>. HIDE DEF G, Step, A, B, base
  <1>5. StepsOn(G, base, A, B)
    BY <1>1, <1>2, ResultSteps
  <1>6. Letters(<<>>) = base
    BY <1>3, <1>4, <1>5 DEF StepsOn
  <1>7. \A s \in Seq(B) : Letters(s) \in A
    BY <1>3, <1>5 DEF StepsOn
  <1>8. ASSUME NEW s \in Seq(B), NEW x \in B
        PROVE  Letters(Append(s, x)) = Step(Letters(s), x)
    <2>1. Letters(Append(s, x)) = G[<<Letters(s), x>>]
      BY <1>3, <1>4, <1>5 DEF StepsOn
    <2>. QED
      BY <1>2, <1>7, <2>1
  <1>. QED
    BY <1>6, <1>7, <1>8 DEF A, B, Step, base

\* The messages of one chunk.
Firsts(c) == [j \in DOMAIN c |-> c[j][1]]

LEMMA FirstsFacts ==
    ASSUME NEW c \in Seq(Items \X Nat)
    PROVE  /\ Firsts(c) \in Seq(Items) /\ Firsts(<<>>) = <<>>
           /\ \A x \in Items \X Nat : Firsts(Append(c, x)) = Append(Firsts(c), x[1])
  <1>1. \A j \in 1..Len(c) : c[j] \in Items \X Nat
    OBVIOUS
  <1>2. Firsts(c) \in Seq(Items)
    BY <1>1 DEF Firsts
  <1>3. Firsts(<<>>) = <<>>
    BY DEF Firsts
  <1>4. ASSUME NEW x \in Items \X Nat
        PROVE  Firsts(Append(c, x)) = Append(Firsts(c), x[1])
    BY <1>2 DEF Firsts
  <1>. QED
    BY <1>2, <1>3, <1>4

\* Flat puts the messages of chunks one behind the other.
LEMMA FlatSteps ==
    /\ Flat(<<>>) = <<>>
    /\ \A s \in Seq(Seq(Items \X Nat)) : Flat(s) \in Seq(Items)
    /\ \A s \in Seq(Seq(Items \X Nat)), x \in Seq(Items \X Nat) :
         Flat(Append(s, x)) = Flat(s) \o Firsts(x)
  <1> DEFINE A == Seq(Items)
             B == Seq(Items \X Nat)
             Step(t, x) == t \o Firsts(x)
             G == [p \in A \X B |-> Step(p[1], p[2])]
             base == <<>>
  <1>1. base \in A /\ \A t \in A, x \in B : Step(t, x) \in A
    BY FirstsFacts
  <1>2. G \in [A \X B -> A] /\ \A t \in A, x \in B : G[<<t, x>>] = Step(t, x)
    <2>. HIDE DEF Step, A, B
    <2>. QED
      BY <1>1
  <1>3. ASSUME NEW s \in Seq(B)
        PROVE  Flat(s) = Result(G, base, s, A)
    <2>1. DOMAIN s = 1..Len(s) /\ \A k \in 1..Len(s) : s[k] \in B
      <3>. HIDE DEF B
      <3>. QED
        BY SeqFacts
    <2>2. PICK g \in [SUBSET (1..Len(s)) -> A] : FoldsAll(g, G, base, s)
      <3>. HIDE DEF G, A, B, base
      <3>. QED
        BY <1>1, <1>2, FoldsAllExists
    <2>3. g = [x \in SUBSET DOMAIN s |->
                 IF x = {} THEN base ELSE Step(g[x \ {Max(x)}], s[Max(x)])]
      <3>. HIDE DEF Step, G, A, B, base
      <3>. QED
        BY <1>2, <2>1, <2>2 DEF FoldsAll
    <2>4. \E f : /\ Flat(s) = f[DOMAIN s]
                 /\ f = [x \in SUBSET DOMAIN s |->
                          IF x = {} THEN base ELSE Step(f[x \ {Max(x)}], s[Max(x)])]
      BY <2>3, Zenon DEF Flat, Firsts, FoldLeft, MapThenFoldSet
    <2>. HIDE DEF Step, G, A, B, base
    <2>5. PICK f : /\ Flat(s) = f[1..Len(s)]
                   /\ f = [x \in SUBSET (1..Len(s)) |->
                            IF x = {} THEN base ELSE Step(f[x \ {Max(x)}], s[Max(x)])]
      BY <2>1, <2>4, Zenon
    <2>6. ASSUME NEW x \in SUBSET (1..Len(s)), x # {}, f[x \ {Max(x)}] \in A
          PROVE  f[x] = G[<<f[x \ {Max(x)}], s[Max(x)]>>]
      <3>1. Max(x) \in x
        BY <2>2, <2>6 DEF FoldsAll
      <3>2. s[Max(x)] \in B
        BY <2>1, <3>1
      <3>3. f[x] = Step(f[x \ {Max(x)}], s[Max(x)])
        BY <2>5, <2>6
      <3>. QED
        BY <1>2, <2>6, <3>2, <3>3
    <2>7. FoldsTo(f, G, base, s, A)
      BY <2>5, <2>6 DEF FoldsTo
    <2>8. f[1..Len(s)] = Result(G, base, s, A)
      BY <1>1, <1>2, <2>7, FoldIsResult
    <2>. QED
      BY <2>5, <2>8
  <1>4. <<>> \in Seq(B) /\ \A s \in Seq(B), x \in B : Append(s, x) \in Seq(B)
    OBVIOUS
  <1>. HIDE DEF G, Step, A, B, base
  <1>5. StepsOn(G, base, A, B)
    BY <1>1, <1>2, ResultSteps
  <1>6. Flat(<<>>) = base
    BY <1>3, <1>4, <1>5 DEF StepsOn
  <1>7. \A s \in Seq(B) : Flat(s) \in A
    BY <1>3, <1>5 DEF StepsOn
  <1>8. ASSUME NEW s \in Seq(B), NEW x \in B
        PROVE  Flat(Append(s, x)) = Step(Flat(s), x)
    <2>1. Flat(Append(s, x)) = G[<<Flat(s), x>>]
      BY <1>3, <1>4, <1>5 DEF StepsOn
    <2>. QED
      BY <1>2, <1>7, <2>1
  <1>. QED
    BY <1>6, <1>7, <1>8 DEF A, B, Step, base

-----------------------------------------------------------------------------
(* Induction over sequences, and what Only keeps                            *)

LEMMA PrefixFacts ==
    ASSUME NEW B, NEW s \in Seq(B), NEW k \in 1..Len(s)
    PROVE  /\ SubSeq(s, 1, k - 1) \in Seq(B) /\ s[k] \in B
           /\ SubSeq(s, 1, k) = Append(SubSeq(s, 1, k - 1), s[k])
  OBVIOUS

\* A set that holds the empty sequence and with every sequence those that have
\* one value more holds them all.
LEMMA SeqInduction ==
    ASSUME NEW B, NEW S, <<>> \in S,
           \A s \in Seq(B), x \in B : s \in S => Append(s, x) \in S
    PROVE  \A s \in Seq(B) : s \in S
  <1> SUFFICES ASSUME NEW s \in Seq(B) PROVE s \in S
    OBVIOUS
  <1>1. Len(s) \in Nat /\ \A k \in 1..Len(s) : s[k] \in B
    BY SeqFacts
  <1>2. PICK g : g = [k \in 0..Len(s) |-> SubSeq(s, 1, k)]
    OBVIOUS
  <1>3. g[0] = <<>> /\ g[Len(s)] = s
    BY <1>1, <1>2
  <1>4. ASSUME NEW k \in 1..Len(s)
        PROVE  g[k - 1] \in Seq(B) /\ g[k] = Append(g[k - 1], s[k])
    <2>1. g[k] = SubSeq(s, 1, k) /\ g[k - 1] = SubSeq(s, 1, k - 1)
      BY <1>1, <1>2
    <2>. QED
      BY <2>1, PrefixFacts
  <1> DEFINE T == {k \in 0..Len(s) : g[k] \in S}
  <1>5. 0 \in T
    BY <1>1, <1>3
  <1>6. ASSUME NEW k \in 1..Len(s), k - 1 \in T
        PROVE  k \in T
    <2>1. g[k - 1] \in S /\ g[k - 1] \in Seq(B) /\ s[k] \in B /\ k \in 0..Len(s)
      BY <1>1, <1>4, <1>6
    <2>2. Append(g[k - 1], s[k]) \in S
      BY <2>1
    <2>. QED
      BY <1>4, <2>1, <2>2
  <1>7. \A k \in 0..Len(s) : k \in T
    <2>. HIDE DEF T
    <2>. QED
      BY <1>1, <1>5, <1>6, Induction
  <1>. QED
    BY <1>1, <1>3, <1>7

LEMMA OnlyAppend ==
    ASSUME NEW B, NEW S, NEW s \in Seq(B), NEW x \in B
    PROVE  /\ x \in S => Only(Append(s, x), S) = Append(Only(s, S), x)
           /\ x \notin S => Only(Append(s, x), S) = Only(s, S)
  <1>1. Only(Append(s, x), S) = OnlyStep(Only(s, S), x, S)
    BY OnlySteps
  <1>. QED
    BY <1>1 DEF OnlyStep

LEMMA OnlyKeeps ==
    ASSUME NEW B, NEW S, NEW s \in Seq(B)
    PROVE  /\ Only(s, S) \in Seq(B) /\ Len(Only(s, S)) <= Len(s)
           /\ ToSet(Only(s, S)) \subseteq ToSet(s)
           /\ ToSet(s) \cap S = {} => Only(s, S) = <<>>
  <1> DEFINE T == {t \in Seq(B) : /\ Len(Only(t, S)) <= Len(t)
                                  /\ ToSet(Only(t, S)) \subseteq ToSet(t)
                                  /\ ToSet(t) \cap S = {} => Only(t, S) = <<>>}
  <1>1. <<>> \in T
    BY OnlySteps
  <1>2. ASSUME NEW t \in Seq(B), NEW x \in B, t \in T
        PROVE  Append(t, x) \in T
    <2>1. Only(t, S) \in Seq(B)
      BY OnlySteps
    <2>2. /\ Append(t, x) \in Seq(B) /\ Len(Append(t, x)) = Len(t) + 1
          /\ ToSet(Append(t, x)) = ToSet(t) \cup {x}
      BY AppendFacts
    <2>3. /\ Len(Append(Only(t, S), x)) = Len(Only(t, S)) + 1
          /\ ToSet(Append(Only(t, S), x)) = ToSet(Only(t, S)) \cup {x}
      BY <2>1, AppendFacts
    <2>4. Len(t) \in Nat /\ Len(Only(t, S)) \in Nat
      BY <2>1, SeqFacts
    <2>5. CASE x \in S
      <3>1. Only(Append(t, x), S) = Append(Only(t, S), x)
        BY <2>5, OnlyAppend
      <3>2. Len(Only(Append(t, x), S)) <= Len(Append(t, x))
        BY <1>2, <2>2, <2>3, <2>4, <3>1
      <3>3. ToSet(Only(Append(t, x), S)) \subseteq ToSet(Append(t, x))
        BY <1>2, <2>2, <2>3, <3>1
      <3>4. x \in ToSet(Append(t, x)) \cap S
        BY <2>2, <2>5
      <3>. QED
        BY <2>2, <3>2, <3>3, <3>4
    <2>6. CASE x \notin S
      <3>1. Only(Append(t, x), S) = Only(t, S)
        BY <2>6, OnlyAppend
      <3>. QED
        BY <1>2, <2>2, <2>4, <2>6, <3>1
    <2>. QED
      BY <2>5, <2>6
  <1>3. \A t \in Seq(B) : t \in T
    <2>. HIDE DEF T
    <2>. QED
      BY <1>1, <1>2, SeqInduction
  <1>. QED
    BY <1>3, OnlySteps

LEMMA ConcatFacts ==
    ASSUME NEW B, NEW s \in Seq(B), NEW t \in Seq(B), NEW x \in B
    PROVE  /\ s \o t \in Seq(B) /\ s \o <<>> = s /\ <<>> \o s = s
           /\ s \o Append(t, x) = Append(s \o t, x)
           /\ Reverse(s) \in Seq(B) /\ Reverse(<<>>) = <<>>
           /\ Len(Reverse(s)) = Len(s)
           /\ Reverse(Append(s, x)) = <<x>> \o Reverse(s)
           /\ <<x>> \in Seq(B) /\ <<x>> = Append(<<>>, x)
  <1>1. Len(s) \in Nat /\ Len(t) \in Nat
    OBVIOUS
  <1>2. s \o t \in Seq(B) /\ s \o <<>> = s /\ <<>> \o s = s
    OBVIOUS
  <1>3. s \o Append(t, x) = Append(s \o t, x)
    OBVIOUS
  <1>4. Reverse(s) \in Seq(B) /\ Len(Reverse(s)) = Len(s)
    BY DEF Reverse
  <1>5. Reverse(<<>>) = <<>>
    BY DEF Reverse
  <1>6. Reverse(Append(s, x)) = <<x>> \o Reverse(s)
    BY <1>4 DEF Reverse
  <1>7. <<x>> \in Seq(B) /\ <<x>> = Append(<<>>, x)
    OBVIOUS
  <1>. QED
    BY <1>2, <1>3, <1>4, <1>5, <1>6, <1>7

LEMMA OnlyConcat ==
    ASSUME NEW B, NEW S, NEW s \in Seq(B), NEW r \in Seq(B)
    PROVE  Only(s \o r, S) = Only(s, S) \o Only(r, S)
  <1> DEFINE T == {t \in Seq(B) : Only(s \o t, S) = Only(s, S) \o Only(t, S)}
  <1>1. <<>> \in T
    <2>1. <<>> \in Seq(B) /\ s \o <<>> = s /\ Only(<<>>, S) = <<>>
      BY OnlySteps
    <2>2. Only(s, S) \in Seq(B)
      BY OnlySteps
    <2>3. Only(s, S) \o <<>> = Only(s, S)
      BY <2>2
    <2>. QED
      BY <2>1, <2>3
  <1>2. ASSUME NEW t \in Seq(B), NEW x \in B, t \in T
        PROVE  Append(t, x) \in T
    <2>1. s \o t \in Seq(B) /\ s \o Append(t, x) = Append(s \o t, x) /\ Append(t, x) \in Seq(B)
      BY ConcatFacts, AppendFacts
    <2>2. Only(s, S) \in Seq(B) /\ Only(t, S) \in Seq(B)
      BY OnlySteps
    <2>3. Only(s, S) \o Append(Only(t, S), x) = Append(Only(s, S) \o Only(t, S), x)
      BY <2>2, ConcatFacts
    <2>4. CASE x \in S
      <3>1. /\ Only(Append(t, x), S) = Append(Only(t, S), x)
            /\ Only(Append(s \o t, x), S) = Append(Only(s \o t, S), x)
        BY <2>1, <2>4, OnlyAppend
      <3>. QED
        BY <1>2, <2>1, <2>3, <3>1
    <2>5. CASE x \notin S
      <3>1. /\ Only(Append(t, x), S) = Only(t, S)
            /\ Only(Append(s \o t, x), S) = Only(s \o t, S)
        BY <2>1, <2>5, OnlyAppend
      <3>. QED
        BY <1>2, <2>1, <3>1
    <2>. QED
      BY <2>4, <2>5
  <1>3. \A t \in Seq(B) : t \in T
    <2>. HIDE DEF T
    <2>. QED
      BY <1>1, <1>2, SeqInduction
  <1>. QED
    BY <1>3

LEMMA OnlyOne ==
    ASSUME NEW S, NEW x
    PROVE  /\ x \in S => Only(<<x>>, S) = <<x>>
           /\ x \notin S => Only(<<x>>, S) = <<>>
  <1>1. x \in {x} /\ <<>> \in Seq({x}) /\ Append(<<>>, x) = <<x>> /\ Only(<<>>, S) = <<>>
    BY OnlySteps
  <1>. QED
    BY <1>1, OnlyAppend

LEMMA OnlyReverse ==
    ASSUME NEW B, NEW S, NEW s \in Seq(B)
    PROVE  Only(Reverse(s), S) = Reverse(Only(s, S))
  <1> DEFINE T == {t \in Seq(B) : Only(Reverse(t), S) = Reverse(Only(t, S))}
  <1>1. <<>> \in T
    <2>1. Only(<<>>, S) = <<>> /\ Reverse(<<>>) = <<>>
      BY OnlySteps DEF Reverse
    <2>. QED
      BY <2>1
  <1>2. ASSUME NEW t \in Seq(B), NEW x \in B, t \in T
        PROVE  Append(t, x) \in T
    <2>1. /\ Reverse(Append(t, x)) = <<x>> \o Reverse(t) /\ Reverse(t) \in Seq(B)
          /\ <<x>> \in Seq(B) /\ Append(t, x) \in Seq(B)
      BY ConcatFacts, AppendFacts
    <2>2. Only(Reverse(Append(t, x)), S) = Only(<<x>>, S) \o Only(Reverse(t), S)
      BY <2>1, OnlyConcat
    <2>3. Only(t, S) \in Seq(B)
      BY OnlySteps
    <2>4. /\ Reverse(Append(Only(t, S), x)) = <<x>> \o Reverse(Only(t, S))
          /\ <<>> \o Reverse(Only(t, S)) = Reverse(Only(t, S))
      <3>1. Reverse(Only(t, S)) \in Seq(B)
        BY <2>3, ConcatFacts
      <3>. QED
        BY <2>3, <3>1, ConcatFacts
    <2>5. CASE x \in S
      <3>1. Only(Append(t, x), S) = Append(Only(t, S), x) /\ Only(<<x>>, S) = <<x>>
        BY <2>5, OnlyAppend, OnlyOne
      <3>. QED
        BY <1>2, <2>1, <2>2, <2>4, <3>1
    <2>6. CASE x \notin S
      <3>1. Only(Append(t, x), S) = Only(t, S) /\ Only(<<x>>, S) = <<>>
        BY <2>6, OnlyAppend, OnlyOne
      <3>. QED
        BY <1>2, <2>1, <2>2, <2>4, <3>1
    <2>. QED
      BY <2>5, <2>6
  <1>3. \A t \in Seq(B) : t \in T
    <2>. HIDE DEF T
    <2>. QED
      BY <1>1, <1>2, SeqInduction
  <1>. QED
    BY <1>3

-----------------------------------------------------------------------------
(* What is computed from the messages of a channel                          *)

LEMMA Limits ==
    ASSUME scope \in Scopes
    PROVE  MaxReplies[scope] \in Nat /\ MaxMessages[scope] \in Nat \ {0}
  BY SummaryAssumption DEF Scopes

LEMMA PartFacts ==
    ASSUME NEW B, NEW s \in Seq(B), NEW n \in Nat
    PROVE  /\ SubSeq(s, 1, Smaller(n, Len(s))) \in Seq(B)
           /\ Len(SubSeq(s, 1, Smaller(n, Len(s)))) = Smaller(n, Len(s))
           /\ ToSet(SubSeq(s, 1, Smaller(n, Len(s)))) \subseteq ToSet(s)
  <1>1. Smaller(n, Len(s)) \in 0..Len(s)
    BY DEF Smaller
  <1>2. ASSUME NEW m \in 0..Len(s)
        PROVE  /\ SubSeq(s, 1, m) \in Seq(B) /\ Len(SubSeq(s, 1, m)) = m
               /\ \A k \in 1..m : SubSeq(s, 1, m)[k] = s[k]
    OBVIOUS
  <1>. QED
    BY <1>1, <1>2 DEF ToSet

\* The replies that are kept are replies, none of which is a root.
LEMMA BelowFacts ==
    ASSUME scope \in Scopes, NEW i \in Items
    PROVE  Below(i) \in Seq(Items) /\ Only(Below(i), Roots) = <<>>
  <1> DEFINE recent == Only(Replies[i], Recent)
             part == SubSeq(recent, 1, Smaller(MaxReplies[scope], Len(recent)))
  <1>1. Replies[i] \in Seq(Items)
    BY SummaryAssumption
  <1>2. recent \in Seq(Items) /\ ToSet(recent) \subseteq ToSet(Replies[i])
    BY <1>1, OnlyKeeps
  <1>3. part \in Seq(Items) /\ ToSet(part) \subseteq ToSet(recent)
    <2>. HIDE DEF recent
    <2>. QED
      BY <1>2, Limits, PartFacts
  <1>4. Below(i) = Only(part, Items \ Noise)
    BY DEF Below, Kept
  <1>5. Below(i) \in Seq(Items) /\ ToSet(Below(i)) \subseteq ToSet(part)
    <2>. HIDE DEF part
    <2>. QED
      BY <1>3, <1>4, OnlyKeeps
  <1>6. ToSet(Below(i)) \cap Roots = {}
    BY <1>2, <1>3, <1>5 DEF Roots, IsReply
  <1>. QED
    BY <1>5, <1>6, OnlyKeeps

Accumulated == [lines: Seq(Items), used: Nat]

\* A turn adds the root and nothing else that is one.
LEMMA NextRootFacts ==
    ASSUME scope \in Scopes, NEW acc \in Accumulated, NEW i \in Items, NEW failing
    PROVE  /\ NextRoot(acc, i, failing) \in Accumulated
           /\ Only(NextRoot(acc, i, failing).lines, Roots) = Only(Append(acc.lines, i), Roots)
           /\ Len(NextRoot(acc, i, failing).lines) > Len(acc.lines)
  <1>1. acc.lines \in Seq(Items) /\ acc.used \in Nat
    BY DEF Accumulated
  <1>2. PICK n : n = NextRoot(acc, i, failing)
    OBVIOUS
  <1>3. PICK s \in Seq(Items) : s = Append(acc.lines, i)
    BY <1>1, AppendFacts
  <1>4. Len(acc.lines) \in Nat /\ Len(s) = Len(acc.lines) + 1
    BY <1>1, <1>3
  <1>5. CASE n = [acc EXCEPT !.lines = Append(@, i)]
    <2>1. n = [lines |-> s, used |-> acc.used]
      BY <1>3, <1>5 DEF Accumulated
    <2>2. n \in Accumulated /\ n.lines = s
      BY <1>1, <2>1 DEF Accumulated
    <2>. QED
      BY <1>2, <1>3, <1>4, <2>2
  <1>6. CASE n = [lines |-> acc.lines \o <<i>> \o Below(i), used |-> acc.used + 1]
    <2>1. PICK b \in Seq(Items) : b = Below(i) /\ Only(b, Roots) = <<>>
      BY BelowFacts
    <2>2. acc.lines \o <<i>> = s
      BY <1>1, <1>3
    <2>3. PICK t \in Seq(Items) : t = s \o b
      <3>1. s \o b \in Seq(Items)
        OBVIOUS
      <3>. QED
        BY <3>1, Zenon
    <2>4. n = [lines |-> t, used |-> acc.used + 1]
      BY <1>6, <2>1, <2>2, <2>3
    <2>5. n \in Accumulated /\ n.lines = t
      BY <1>1, <2>4 DEF Accumulated
    <2>6. Only(t, Roots) = Only(s, Roots) \o <<>>
      <3>1. Only(s \o b, Roots) = Only(s, Roots) \o Only(b, Roots)
        BY OnlyConcat
      <3>. QED
        BY <2>1, <2>3, <3>1
    <2>7. Only(s, Roots) \in Seq(Items)
      BY OnlyKeeps
    <2>8. Only(s, Roots) \o <<>> = Only(s, Roots)
      BY <2>7
    <2>9. Len(t) >= Len(s)
      BY <2>3
    <2>. QED
      BY <1>2, <1>3, <1>4, <2>5, <2>6, <2>8, <2>9, SeqFacts
  <1>. QED
    BY <1>2, <1>5, <1>6, Zenon DEF NextRoot

\* Replies come between the roots: those keep their order, and none is lost.
LEMMA ExpandedFacts ==
    ASSUME scope \in Scopes, NEW failing
    PROVE  \A s \in Seq(Items) :
             /\ Expanded(s, failing) \in Seq(Items) /\ Len(s) <= Len(Expanded(s, failing))
             /\ Only(Expanded(s, failing), Roots) = Only(s, Roots)
  <1> DEFINE A == Accumulated
             B == Items
             Step(t, x) == NextRoot(t, x, failing)
             G == [p \in A \X B |-> Step(p[1], p[2])]
             base == [lines |-> <<>>, used |-> 0]
  <1>1. base \in A /\ \A t \in A, x \in B : Step(t, x) \in A
    BY NextRootFacts DEF Accumulated
  <1>2. G \in [A \X B -> A] /\ \A t \in A, x \in B : G[<<t, x>>] = Step(t, x)
    <2>. HIDE DEF Step, A, B
    <2>. QED
      BY <1>1
  <1>3. ASSUME NEW s \in Seq(B)
        PROVE  Expanded(s, failing) = Result(G, base, s, A).lines
    <2>1. DOMAIN s = 1..Len(s) /\ \A k \in 1..Len(s) : s[k] \in B
      <3>. HIDE DEF B
      <3>. QED
        BY SeqFacts
    <2>2. PICK g \in [SUBSET (1..Len(s)) -> A] : FoldsAll(g, G, base, s)
      <3>. HIDE DEF G, A, B, base
      <3>. QED
        BY <1>1, <1>2, FoldsAllExists
    <2>3. g = [x \in SUBSET DOMAIN s |->
                 IF x = {} THEN base ELSE Step(g[x \ {Max(x)}], s[Max(x)])]
      <3>. HIDE DEF Step, G, A, B, base
      <3>. QED
        BY <1>2, <2>1, <2>2 DEF FoldsAll
    <2>4. \E f : /\ Expanded(s, failing) = f[DOMAIN s].lines
                 /\ f = [x \in SUBSET DOMAIN s |->
                          IF x = {} THEN base ELSE Step(f[x \ {Max(x)}], s[Max(x)])]
      BY <2>3, Zenon DEF Expanded, FoldLeft, MapThenFoldSet
    <2>. HIDE DEF Step, G, A, B, base
    <2>5. PICK f : /\ Expanded(s, failing) = f[1..Len(s)].lines
                   /\ f = [x \in SUBSET (1..Len(s)) |->
                            IF x = {} THEN base ELSE Step(f[x \ {Max(x)}], s[Max(x)])]
      BY <2>1, <2>4, Zenon
    <2>6. ASSUME NEW x \in SUBSET (1..Len(s)), x # {}, f[x \ {Max(x)}] \in A
          PROVE  f[x] = G[<<f[x \ {Max(x)}], s[Max(x)]>>]
      <3>1. Max(x) \in x
        BY <2>2, <2>6 DEF FoldsAll
      <3>2. s[Max(x)] \in B
        BY <2>1, <3>1
      <3>3. f[x] = Step(f[x \ {Max(x)}], s[Max(x)])
        BY <2>5, <2>6
      <3>. QED
        BY <1>2, <2>6, <3>2, <3>3
    <2>7. FoldsTo(f, G, base, s, A)
      BY <2>5, <2>6 DEF FoldsTo
    <2>8. f[1..Len(s)] = Result(G, base, s, A)
      BY <1>1, <1>2, <2>7, FoldIsResult
    <2>. QED
      BY <2>5, <2>8
  <1>4. <<>> \in Seq(B) /\ \A s \in Seq(B), x \in B : Append(s, x) \in Seq(B)
    OBVIOUS
  <1>. HIDE DEF G, Step, A, B, base
  <1>5. StepsOn(G, base, A, B)
    BY <1>1, <1>2, ResultSteps
  <1> DEFINE R(s) == Result(G, base, s, A)
             Fine(s, r) == r.lines \in Seq(Items) /\ Len(s) <= Len(r.lines)
                           /\ Only(r.lines, Roots) = Only(s, Roots)
             T == {s \in Seq(Items) : Fine(s, R(s))}
  <1>6. <<>> \in T
    <2>1. R(<<>>) = base
      BY <1>5 DEF StepsOn
    <2>2. PICK r : r = R(<<>>)
      OBVIOUS
    <2>3. r.lines = <<>>
      BY <2>1, <2>2 DEF base
    <2>. HIDE DEF R
    <2>4. Fine(<<>>, r)
      BY <2>3
    <2>. HIDE DEF Fine
    <2>. QED
      BY <2>2, <2>4
  <1>7. ASSUME NEW s \in Seq(Items), NEW x \in Items, s \in T
        PROVE  Append(s, x) \in T
    <2>1. R(s) \in Accumulated /\ R(Append(s, x)) = NextRoot(R(s), x, failing)
      <3>1. R(s) \in A /\ R(Append(s, x)) = G[<<R(s), x>>] /\ x \in B
        BY <1>5 DEF StepsOn, B
      <3>2. R(Append(s, x)) = Step(R(s), x)
        BY <1>2, <3>1
      <3>. QED
        BY <3>1, <3>2 DEF Step, A
    <2>. HIDE DEF R
    <2>2. PICK r : r = R(s)
      OBVIOUS
    <2>3. PICK n : n = NextRoot(r, x, failing)
      OBVIOUS
    <2>4. r \in Accumulated /\ Fine(s, r) /\ R(Append(s, x)) = n
      BY <1>7, <2>1, <2>2, <2>3
    <2>5. /\ n \in Accumulated /\ Only(n.lines, Roots) = Only(Append(r.lines, x), Roots)
          /\ Len(n.lines) > Len(r.lines)
      BY <2>3, <2>4, NextRootFacts
    <2>6. /\ Only(Append(r.lines, x), Roots) = OnlyStep(Only(r.lines, Roots), x, Roots)
          /\ Only(Append(s, x), Roots) = OnlyStep(Only(s, Roots), x, Roots)
      BY <2>4, OnlySteps
    <2>7. /\ Append(s, x) \in Seq(Items) /\ Len(Append(s, x)) = Len(s) + 1
          /\ n.lines \in Seq(Items) /\ Len(n.lines) \in Nat /\ Len(r.lines) \in Nat
          /\ Len(s) \in Nat
      BY <2>4, <2>5, AppendFacts, SeqFacts DEF Accumulated
    <2>8. Fine(Append(s, x), n)
      BY <2>4, <2>5, <2>6, <2>7
    <2>. HIDE DEF Fine
    <2>. QED
      BY <2>4, <2>7, <2>8
  <1>8. \A s \in Seq(Items) : s \in T
    <2>. HIDE DEF T
    <2>. QED
      BY <1>6, <1>7, SeqInduction
  <1>9. \A s \in Seq(Items) : Expanded(s, failing) = R(s).lines
    BY <1>3 DEF B
  <1>. HIDE DEF R
  <1>. QED
    BY <1>8, <1>9

-----------------------------------------------------------------------------
(* The chunks                                                               *)

Lines == Items \X Nat

LEMMA BudgetPositive == Budget \in Nat \ {0}
  <1>1. MaxTokens \in Nat /\ MaxTokens >= 2 /\ Reserved \in Nat
    BY SummaryAssumption
  <1>2. MaxTokens \div 2 \in Nat /\ MaxTokens \div 2 >= 1
    BY <1>1
  <1>. QED
    BY <1>1, <1>2 DEF Budget

LEMMA Division ==
    ASSUME NEW n \in Nat, NEW d \in Nat, d >= 1
    PROVE  n \div d \in Nat /\ n <= (n \div d) * d + d - 1
  OBVIOUS

\* The tokens a line is counted for, and what they say of its length: they are
\* too few only for a line that was cut, and that one fills the budget.
Charge(i) == Smaller(Tokens(Size[i]), Budget)

LEMMA LineFacts ==
    ASSUME NEW i \in Items
    PROVE  /\ Charge(i) \in 1..Budget
           /\ Fitted(i) \in Lines /\ Fitted(i)[1] = i
           /\ Fitted(i)[2] <= Charge(i) * CharsPerToken + CharsPerToken
           /\ Charge(i) < Budget =>
                Fitted(i)[2] <= Charge(i) * CharsPerToken + CharsPerToken - 1
  <1>1. Budget \in Nat /\ Budget >= 1 /\ Size[i] \in Nat /\ Size[i] >= 1
    BY BudgetPositive, SummaryAssumption
  <1>2. CharsPerToken \in Nat /\ CharsPerToken >= 3
    BY SummaryAssumption
  <1>3. PICK t \in Nat : t = Tokens(Size[i]) /\ t >= 1
                         /\ Size[i] <= t * CharsPerToken + CharsPerToken - 1
    <2>1. CASE Size[i] < CharsPerToken
      <3>1. Tokens(Size[i]) = 1 /\ 1 * CharsPerToken = CharsPerToken
        BY <1>2, <2>1 DEF Tokens
      <3>2. Size[i] <= 1 * CharsPerToken + CharsPerToken - 1
        BY <1>1, <1>2, <2>1, <3>1
      <3>. QED
        BY <3>1, <3>2
    <2>2. CASE ~ (Size[i] < CharsPerToken)
      <3>1. PICK q : q = Size[i] \div CharsPerToken
        OBVIOUS
      <3>2. q \in Nat /\ Size[i] <= q * CharsPerToken + CharsPerToken - 1
        <4>1. CharsPerToken >= 1
          BY <1>2
        <4>2. /\ Size[i] \div CharsPerToken \in Nat
              /\ Size[i] <= (Size[i] \div CharsPerToken) * CharsPerToken + CharsPerToken - 1
          BY <1>1, <1>2, <4>1, Division
        <4>. QED
          BY <3>1, <4>2
      <3>3. q # 0
        BY <1>1, <1>2, <2>2, <3>2
      <3>4. Tokens(Size[i]) = q
        BY <2>2, <3>1 DEF Tokens
      <3>. QED
        BY <3>2, <3>3, <3>4
    <2>. QED
      BY <2>1, <2>2
  <1>4. CASE t > Budget
    <2>1. Charge(i) = Budget /\ Fitted(i) = <<i, Budget * CharsPerToken + 3>>
      BY <1>1, <1>3, <1>4 DEF Charge, Smaller, Fitted
    <2>2. Budget * CharsPerToken \in Nat
      BY <1>1, <1>2
    <2>. QED
      BY <1>1, <1>2, <2>1, <2>2 DEF Lines
  <1>5. CASE t <= Budget
    <2>1. Charge(i) = t /\ Fitted(i) = <<i, Size[i]>>
      BY <1>1, <1>3, <1>5 DEF Charge, Smaller, Fitted
    <2>2. t * CharsPerToken \in Nat
      BY <1>2, <1>3
    <2>. QED
      BY <1>1, <1>2, <1>3, <1>5, <2>1, <2>2 DEF Lines
  <1>. QED
    BY <1>1, <1>3, <1>4, <1>5

\* A list of lines within so many tokens.
Within(c, tokens) ==
    c # <<>> /\ Chars(c) <= (tokens + Len(c)) * CharsPerToken

LEMMA OneLine ==
    ASSUME NEW i \in Items
    PROVE  /\ <<Fitted(i)>> \in Seq(Lines) /\ Within(<<Fitted(i)>>, Charge(i))
           /\ Firsts(<<Fitted(i)>>) = <<i>>
  <1>1. PICK x \in Lines : x = Fitted(i)
    BY LineFacts
  <1>2. PICK m \in Nat : m = Charge(i) /\ x[2] <= m * CharsPerToken + CharsPerToken /\ x[1] = i
    BY <1>1, LineFacts
  <1>3. CharsPerToken \in Nat /\ x[2] \in Nat
    BY SummaryAssumption DEF Lines
  <1>4. <<>> \in Seq(Lines) /\ Append(<<>>, x) = <<x>> /\ <<x>> \in Seq(Lines) /\ Len(<<x>>) = 1
    OBVIOUS
  <1>5. Letters(<<x>>) = x[2]
    <2>1. Letters(Append(<<>>, x)) = Letters(<<>>) + x[2] /\ Letters(<<>>) = 0
      BY <1>4, LettersSteps DEF Lines
    <2>. QED
      BY <1>3, <1>4, <2>1
  <1>6. Chars(<<x>>) = x[2]
    BY <1>3, <1>4, <1>5 DEF Chars
  <1>7. (m + 1) * CharsPerToken = m * CharsPerToken + CharsPerToken
    BY <1>3
  <1>8. Firsts(<<x>>) = <<x[1]>>
    BY DEF Firsts
  <1>. QED
    BY <1>1, <1>2, <1>3, <1>4, <1>6, <1>7, <1>8 DEF Within

LEMMA OneMoreLine ==
    ASSUME NEW i \in Items, NEW c \in Seq(Lines), NEW tokens \in Nat,
           Within(c, tokens), Charge(i) < Budget
    PROVE  Within(Append(c, Fitted(i)), tokens + Charge(i))
  <1>1. PICK x \in Lines : x = Fitted(i)
    BY LineFacts
  <1>2. PICK m \in Nat : m = Charge(i) /\ x[2] <= m * CharsPerToken + CharsPerToken - 1
    BY <1>1, LineFacts
  <1>3. CharsPerToken \in Nat /\ x[2] \in Nat /\ Len(c) \in Nat
    BY SummaryAssumption DEF Lines
  <1>4. Letters(c) \in Nat /\ Letters(Append(c, x)) = Letters(c) + x[2]
    BY LettersSteps DEF Lines
  <1>5. Append(c, x) # <<>> /\ Len(Append(c, x)) = Len(c) + 1
    OBVIOUS
  <1>6. Chars(Append(c, x)) = Chars(c) + 1 + x[2] /\ Chars(c) \in Int
    BY <1>3, <1>4, <1>5 DEF Chars
  <1>7. (tokens + m + (Len(c) + 1)) * CharsPerToken
          = (tokens + Len(c)) * CharsPerToken + m * CharsPerToken + CharsPerToken
    BY <1>3
  <1>8. Chars(c) <= (tokens + Len(c)) * CharsPerToken
    BY DEF Within
  <1>9. PICK a \in Nat : a = (tokens + Len(c)) * CharsPerToken
    BY <1>3
  <1>10. PICK b \in Nat : b = m * CharsPerToken
    BY <1>3
  <1>11. Chars(Append(c, x)) <= a + b + CharsPerToken
    <2>1. x[2] <= b + CharsPerToken - 1 /\ Chars(c) <= a
      BY <1>2, <1>8, <1>9, <1>10
    <2>. QED
      BY <1>3, <1>6, <2>1
  <1>. QED
    BY <1>1, <1>2, <1>5, <1>7, <1>9, <1>10, <1>11 DEF Within

Cut == [chunks: Seq(Seq(Lines)), chunk: Seq(Lines), tokens: Nat]

\* What is cut is the messages so far, and fits.
Fits(acc, s) ==
    /\ \A k \in 1..Len(acc.chunks) : Within(acc.chunks[k], Budget)
    /\ acc.tokens <= Budget
    /\ acc.chunk = <<>> => acc.tokens = 0
    /\ acc.chunk # <<>> => acc.tokens >= 1 /\ Within(acc.chunk, acc.tokens)
    /\ Flat(acc.chunks) \o Firsts(acc.chunk) = s

\* A chunk that stays within fewer tokens stays within the budget.
LEMMA WithinBudget ==
    ASSUME NEW c \in Seq(Lines), NEW tokens \in Nat, Within(c, tokens), tokens <= Budget
    PROVE  Within(c, Budget)
  <1>1. CharsPerToken \in Nat /\ Len(c) \in Nat /\ Budget \in Nat
    BY SummaryAssumption, BudgetPositive
  <1>2. Letters(c) \in Nat
    BY LettersSteps DEF Lines
  <1>3. PICK d \in Nat : Budget = tokens + d
    <2>1. Budget - tokens \in Nat /\ Budget = tokens + (Budget - tokens)
      BY <1>1
    <2>. QED
      BY <2>1
  <1>4. (Budget + Len(c)) * CharsPerToken
          = (tokens + Len(c)) * CharsPerToken + d * CharsPerToken
    BY <1>1, <1>3
  <1>5. d * CharsPerToken \in Nat /\ (tokens + Len(c)) * CharsPerToken \in Nat
    BY <1>1
  <1>6. Chars(c) \in Int
    BY <1>1, <1>2 DEF Chars
  <1>. QED
    BY <1>4, <1>5, <1>6 DEF Within

LEMMA NextChunkFacts ==
    ASSUME NEW acc \in Cut, NEW i \in Items
    PROVE  /\ NextChunk(acc, i) \in Cut
           /\ \A s \in Seq(Items) : Fits(acc, s) => Fits(NextChunk(acc, i), Append(s, i))
  <1>1. /\ acc.chunks \in Seq(Seq(Lines)) /\ acc.chunk \in Seq(Lines) /\ acc.tokens \in Nat
        /\ Fitted(i) \in Lines /\ Fitted(i)[1] = i
        /\ Charge(i) \in 1..Budget /\ Budget \in Nat
    BY LineFacts, BudgetPositive DEF Cut
  <1>2. PICK n : n = NextChunk(acc, i)
    OBVIOUS
  <1>3. PICK f \in Seq(Items) : f = Flat(acc.chunks)
    BY <1>1, FlatSteps DEF Lines
  <1>4. PICK h \in Seq(Items) : h = Firsts(acc.chunk)
    BY <1>1, FirstsFacts DEF Lines
  <1>5. CASE acc.tokens + Charge(i) > Budget /\ acc.chunk # <<>>
    <2>1. PICK cut \in Seq(Seq(Lines)) : cut = Append(acc.chunks, acc.chunk)
      BY <1>1, AppendFacts
    <2>2. n = [chunks |-> cut, chunk |-> <<Fitted(i)>>, tokens |-> Charge(i)]
      BY <1>2, <1>5, <2>1 DEF NextChunk, Charge
    <2>3. n.chunks = cut /\ n.chunk = <<Fitted(i)>> /\ n.tokens = Charge(i) /\ n \in Cut
      BY <1>1, <2>2 DEF Cut
    <2>4. ASSUME NEW s \in Seq(Items), Fits(acc, s)
          PROVE  Fits(n, Append(s, i))
      <3>1. Within(acc.chunk, Budget)
        BY <1>1, <1>5, <2>4, WithinBudget DEF Fits
      <3>2. \A k \in 1..Len(cut) : Within(cut[k], Budget)
        <4>1. /\ Len(cut) = Len(acc.chunks) + 1 /\ cut[Len(acc.chunks) + 1] = acc.chunk
              /\ \A k \in 1..Len(acc.chunks) : cut[k] = acc.chunks[k]
              /\ Len(acc.chunks) \in Nat
          BY <1>1, <2>1
        <4>2. \A k \in 1..Len(acc.chunks) : Within(acc.chunks[k], Budget)
          BY <2>4 DEF Fits
        <4>3. ASSUME NEW k \in 1..Len(cut) PROVE Within(cut[k], Budget)
          <5>1. CASE k \in 1..Len(acc.chunks)
            BY <4>1, <4>2, <5>1
          <5>2. CASE k = Len(acc.chunks) + 1
            BY <3>1, <4>1, <5>2
          <5>. QED
            BY <4>1, <5>1, <5>2
        <4>. QED
          BY <4>3
      <3>3. <<Fitted(i)>> # <<>> /\ Within(<<Fitted(i)>>, Charge(i)) /\ Firsts(<<Fitted(i)>>) = <<i>>
        BY OneLine
      <3>4. Flat(cut) = f \o h
        <4>1. Flat(Append(acc.chunks, acc.chunk)) = Flat(acc.chunks) \o Firsts(acc.chunk)
          BY <1>1, FlatSteps DEF Lines
        <4>. QED
          BY <1>3, <1>4, <2>1, <4>1
      <3>5. f \o h = s
        BY <1>3, <1>4, <2>4 DEF Fits
      <3>6. s \o <<i>> = Append(s, i)
        OBVIOUS
      <3>7. Flat(n.chunks) \o Firsts(n.chunk) = Append(s, i)
        BY <2>3, <3>3, <3>4, <3>5, <3>6
      <3>8. /\ n.chunk # <<>> /\ Within(n.chunk, n.tokens)
            /\ n.tokens >= 1 /\ n.tokens <= Budget
        BY <1>1, <2>3, <3>3
      <3>9. \A k \in 1..Len(n.chunks) : Within(n.chunks[k], Budget)
        BY <2>3, <3>2
      <3>. QED
        BY <3>7, <3>8, <3>9 DEF Fits
    <2>. QED
      BY <1>2, <2>3, <2>4
  <1>6. CASE ~ (acc.tokens + Charge(i) > Budget /\ acc.chunk # <<>>)
    <2>1. PICK c \in Seq(Lines) : c = Append(acc.chunk, Fitted(i))
      BY <1>1, AppendFacts
    <2>2. n = [chunks |-> acc.chunks, chunk |-> c, tokens |-> acc.tokens + Charge(i)]
      BY <1>2, <1>6, <2>1 DEF NextChunk, Charge, Cut
    <2>3. /\ n.chunks = acc.chunks /\ n.chunk = c /\ n.tokens = acc.tokens + Charge(i)
          /\ n \in Cut
      BY <1>1, <2>2 DEF Cut
    <2>4. ASSUME NEW s \in Seq(Items), Fits(acc, s)
          PROVE  Fits(n, Append(s, i))
      <3>1. c # <<>>
        BY <1>1, <2>1
      <3>2. n.tokens <= Budget /\ n.tokens >= 1 /\ Within(c, n.tokens)
        <4>1. CASE acc.chunk = <<>>
          <5>1. c = <<Fitted(i)>> /\ n.tokens = Charge(i)
            BY <1>1, <2>1, <2>3, <2>4, <4>1 DEF Fits
          <5>. QED
            BY <1>1, <5>1, OneLine
        <4>2. CASE acc.chunk # <<>>
          <5>1. acc.tokens >= 1 /\ Within(acc.chunk, acc.tokens)
            BY <2>4, <4>2 DEF Fits
          <5>2. acc.tokens + Charge(i) <= Budget /\ Charge(i) < Budget
            BY <1>1, <1>6, <4>2, <5>1
          <5>3. Within(c, acc.tokens + Charge(i))
            BY <1>1, <2>1, <5>1, <5>2, OneMoreLine
          <5>. QED
            BY <1>1, <2>3, <5>1, <5>2, <5>3
        <4>. QED
          BY <4>1, <4>2
      <3>3. Firsts(c) = Append(h, i)
        <4>1. Firsts(Append(acc.chunk, Fitted(i))) = Append(Firsts(acc.chunk), Fitted(i)[1])
          BY <1>1, FirstsFacts DEF Lines
        <4>. QED
          BY <1>1, <1>4, <2>1, <4>1
      <3>4. f \o h = s
        BY <1>3, <1>4, <2>4 DEF Fits
      <3>5. f \o Append(h, i) = Append(f \o h, i)
        BY ConcatFacts
      <3>6. Flat(n.chunks) \o Firsts(n.chunk) = Append(s, i)
        BY <1>3, <2>3, <3>3, <3>4, <3>5
      <3>. QED
        BY <2>3, <2>4, <3>1, <3>2, <3>6 DEF Fits
    <2>. QED
      BY <1>2, <2>3, <2>4
  <1>. QED
    BY <1>5, <1>6

\* The loop of chunk_messages, turn by turn.
LEMMA AllChunksFacts ==
    \A s \in Seq(Items) : AllChunks(s) \in Cut /\ Fits(AllChunks(s), s)
  <1> DEFINE A == Cut
             B == Items
             Step(t, x) == NextChunk(t, x)
             G == [p \in A \X B |-> Step(p[1], p[2])]
             base == [chunks |-> <<>>, chunk |-> <<>>, tokens |-> 0]
  <1>1. base \in A /\ \A t \in A, x \in B : Step(t, x) \in A
    BY NextChunkFacts DEF Cut
  <1>2. G \in [A \X B -> A] /\ \A t \in A, x \in B : G[<<t, x>>] = Step(t, x)
    <2>. HIDE DEF Step, A, B
    <2>. QED
      BY <1>1
  <1>3. ASSUME NEW s \in Seq(B)
        PROVE  AllChunks(s) = Result(G, base, s, A)
    <2>1. DOMAIN s = 1..Len(s) /\ \A k \in 1..Len(s) : s[k] \in B
      <3>. HIDE DEF B
      <3>. QED
        BY SeqFacts
    <2>2. PICK g \in [SUBSET (1..Len(s)) -> A] : FoldsAll(g, G, base, s)
      <3>. HIDE DEF G, A, B, base
      <3>. QED
        BY <1>1, <1>2, FoldsAllExists
    <2>3. g = [x \in SUBSET DOMAIN s |->
                 IF x = {} THEN base ELSE Step(g[x \ {Max(x)}], s[Max(x)])]
      <3>. HIDE DEF Step, G, A, B, base
      <3>. QED
        BY <1>2, <2>1, <2>2 DEF FoldsAll
    <2>4. \E f : /\ AllChunks(s) = f[DOMAIN s]
                 /\ f = [x \in SUBSET DOMAIN s |->
                          IF x = {} THEN base ELSE Step(f[x \ {Max(x)}], s[Max(x)])]
      BY <2>3, Zenon DEF AllChunks, FoldLeft, MapThenFoldSet
    <2>. HIDE DEF Step, G, A, B, base
    <2>5. PICK f : /\ AllChunks(s) = f[1..Len(s)]
                   /\ f = [x \in SUBSET (1..Len(s)) |->
                            IF x = {} THEN base ELSE Step(f[x \ {Max(x)}], s[Max(x)])]
      BY <2>1, <2>4, Zenon
    <2>6. ASSUME NEW x \in SUBSET (1..Len(s)), x # {}, f[x \ {Max(x)}] \in A
          PROVE  f[x] = G[<<f[x \ {Max(x)}], s[Max(x)]>>]
      <3>1. Max(x) \in x
        BY <2>2, <2>6 DEF FoldsAll
      <3>2. s[Max(x)] \in B
        BY <2>1, <3>1
      <3>3. f[x] = Step(f[x \ {Max(x)}], s[Max(x)])
        BY <2>5, <2>6
      <3>. QED
        BY <1>2, <2>6, <3>2, <3>3
    <2>7. FoldsTo(f, G, base, s, A)
      BY <2>5, <2>6 DEF FoldsTo
    <2>8. f[1..Len(s)] = Result(G, base, s, A)
      BY <1>1, <1>2, <2>7, FoldIsResult
    <2>. QED
      BY <2>5, <2>8
  <1>4. <<>> \in Seq(B) /\ \A s \in Seq(B), x \in B : Append(s, x) \in Seq(B)
    OBVIOUS
  <1>. HIDE DEF G, Step, A, B, base
  <1>5. StepsOn(G, base, A, B)
    BY <1>1, <1>2, ResultSteps
  <1> DEFINE T == {s \in Seq(Items) : Fits(AllChunks(s), s)}
  <1>6. \A s \in Seq(Items) : AllChunks(s) \in Cut
    BY <1>3, <1>5 DEF StepsOn, A, B
  <1>7. <<>> \in T
    <2>1. AllChunks(<<>>) = base
      BY <1>3, <1>4, <1>5 DEF StepsOn
    <2>2. PICK acc : acc = AllChunks(<<>>)
      OBVIOUS
    <2>3. acc.chunks = <<>> /\ acc.chunk = <<>> /\ acc.tokens = 0
      BY <2>1, <2>2 DEF base
    <2>4. Flat(acc.chunks) = <<>> /\ Firsts(acc.chunk) = <<>>
      BY <2>3, FlatSteps DEF Firsts
    <2>5. <<>> \in Seq(Items) /\ <<>> \o <<>> = <<>> /\ Len(acc.chunks) = 0
      BY <2>3
    <2>6. Flat(acc.chunks) \o Firsts(acc.chunk) = <<>>
      BY <2>4, <2>5
    <2>7. acc.tokens <= Budget
      BY <2>3, BudgetPositive
    <2>8. Fits(acc, <<>>)
      BY <2>3, <2>5, <2>6, <2>7 DEF Fits
    <2>. QED
      BY <2>2, <2>5, <2>8
  <1>8. ASSUME NEW s \in Seq(Items), NEW x \in Items, s \in T
        PROVE  Append(s, x) \in T
    <2>1. AllChunks(Append(s, x)) = NextChunk(AllChunks(s), x)
      <3>1. AllChunks(Append(s, x)) = G[<<AllChunks(s), x>>]
        BY <1>3, <1>4, <1>5 DEF StepsOn, B
      <3>2. AllChunks(s) \in A /\ x \in B
        BY <1>6 DEF A, B
      <3>. QED
        BY <1>2, <3>1, <3>2 DEF Step
    <2>2. AllChunks(s) \in Cut /\ Fits(AllChunks(s), s)
      BY <1>6, <1>8
    <2>3. Fits(NextChunk(AllChunks(s), x), Append(s, x))
      BY <2>2, NextChunkFacts
    <2>4. Append(s, x) \in Seq(Items)
      BY AppendFacts
    <2>. QED
      BY <2>1, <2>3, <2>4
  <1>9. \A s \in Seq(Items) : s \in T
    <2>. HIDE DEF T
    <2>. QED
      BY <1>7, <1>8, SeqInduction
  <1>. QED
    BY <1>6, <1>9

\* The chunks hold all messages in their order, and each of them fits.
LEMMA ChunksFacts ==
    ASSUME NEW s \in Seq(Items)
    PROVE  /\ Chunks(s) \in Seq(Seq(Lines)) /\ Flat(Chunks(s)) = s
           /\ \A k \in 1..Len(Chunks(s)) : Within(Chunks(s)[k], Budget)
  <1>1. PICK acc \in Cut : acc = AllChunks(s) /\ Fits(acc, s)
    BY AllChunksFacts
  <1>2. acc.chunks \in Seq(Seq(Lines)) /\ acc.chunk \in Seq(Lines) /\ acc.tokens \in Nat
    BY DEF Cut
  <1>3. PICK f \in Seq(Items) : f = Flat(acc.chunks)
    BY <1>2, FlatSteps DEF Lines
  <1>4. \A k \in 1..Len(acc.chunks) : Within(acc.chunks[k], Budget)
    BY <1>1 DEF Fits
  <1>5. CASE acc.chunk = <<>>
    <2>1. Chunks(s) = acc.chunks
      BY <1>1, <1>5 DEF Chunks
    <2>2. f \o Firsts(<<>>) = s
      BY <1>1, <1>3, <1>5 DEF Fits
    <2>3. Firsts(<<>>) = <<>> /\ f \o <<>> = f
      BY DEF Firsts
    <2>. QED
      BY <1>2, <1>3, <1>4, <2>1, <2>2, <2>3
  <1>6. CASE acc.chunk # <<>>
    <2>1. PICK cut \in Seq(Seq(Lines)) : cut = Append(acc.chunks, acc.chunk)
      BY <1>2, AppendFacts
    <2>2. Chunks(s) = cut
      BY <1>1, <1>6, <2>1 DEF Chunks
    <2>3. Flat(cut) = s
      <3>1. Flat(Append(acc.chunks, acc.chunk)) = Flat(acc.chunks) \o Firsts(acc.chunk)
        BY <1>2, FlatSteps DEF Lines
      <3>. QED
        BY <1>1, <2>1, <3>1 DEF Fits
    <2>4. Within(acc.chunk, Budget)
      BY <1>1, <1>2, <1>6, WithinBudget DEF Fits
    <2>5. ASSUME NEW k \in 1..Len(cut) PROVE Within(cut[k], Budget)
      <3>1. /\ Len(cut) = Len(acc.chunks) + 1 /\ cut[Len(acc.chunks) + 1] = acc.chunk
            /\ \A j \in 1..Len(acc.chunks) : cut[j] = acc.chunks[j]
            /\ Len(acc.chunks) \in Nat
        BY <1>2, <2>1
      <3>2. CASE k \in 1..Len(acc.chunks)
        BY <1>4, <3>1, <3>2
      <3>3. CASE k = Len(acc.chunks) + 1
        BY <2>4, <3>1, <3>3
      <3>. QED
        BY <3>1, <3>2, <3>3
    <2>. QED
      BY <2>2, <2>3, <2>5
  <1>. QED
    BY <1>5, <1>6

-----------------------------------------------------------------------------
(* Summary: the inductive invariant                                         *)

Counted(c) == {r \in Reasons : c \in skipped[r]}
Untouched(c) == Counted(c) = {} /\ c \notin done

\* A channel the answer has something to say about, or that had nothing to say.
Settled(c) ==
    \/ Cardinality(Counted(c)) = IF c \in done THEN 0 ELSE 1
    \/ c \notin done /\ Kept(Window(c)) = <<>>

\* The channels that are still to come: the present one is settled at the end.
Coming == IF at = "closing" THEN ToSet(Tail(left)) ELSE ToSet(left)

OnChannel == {"fetching", "expanding", "mapping", "reducing", "closing"}

\* There is a present channel while one is worked on.
ChannelHeld == at \in OnChannel => left # <<>>

\* The messages kept are those of what was read, and in the end the newest ones.
PagesHold ==
    /\ at = "listing" => read = 0 /\ got = <<>>
    /\ at = "fetching" =>
         /\ read <= Len(Window(Head(left)))
         /\ got = Kept(SubSeq(Window(Head(left)), 1, read))
    /\ at \in {"expanding", "mapping", "reducing"} =>
         LET newest == Kept(Window(Head(left)))
         IN  got = SubSeq(newest, 1, Smaller(MaxMessages[scope], Len(newest)))

\* Of all channels, those behind are settled and those to come untouched.
ChannelsHold ==
    (scope = "all" /\ at # "idle") =>
      /\ IsInjective(left) /\ IsInjective(listed)
      /\ at = "listing" => left = <<>> /\ \A c \in Channels : Untouched(c)
      /\ at # "listing" => \A c \in ToSet(listed) \ Coming : Settled(c)
      /\ \A c \in Coming : Untouched(c)
      /\ at \in {"personal", "answering"} => left = <<>>
      /\ at = "personal" => done # {}

\* What the end of a request over all channels says.
EndHolds ==
    (scope = "all" /\ at = "answering") =>
      /\ verdict = "ok" <=> done # {}
      /\ verdict = "empty" => skipped["slack_rate_limited"] \cup skipped["groq_overload"] = {}

SummaryInv ==
    /\ SummaryTypeOK
    /\ ChannelHeld
    /\ PagesHold
    /\ NothingLeftOut
    /\ ChunksFit
    /\ ChannelsHold
    /\ EndHolds

LEMMA HeadFacts ==
    ASSUME NEW B, NEW s \in Seq(B), s # <<>>
    PROVE  /\ Head(s) \in B /\ Tail(s) \in Seq(B)
           /\ ToSet(s) = {Head(s)} \cup ToSet(Tail(s))
           /\ IsInjective(s) => IsInjective(Tail(s)) /\ Head(s) \notin ToSet(Tail(s))
  <1>1. PICK t : t = Tail(s)
    OBVIOUS
  <1>2. PICK h : h = Head(s)
    OBVIOUS
  <1>3. /\ Len(s) \in Nat \ {0} /\ DOMAIN s = 1..Len(s) /\ s[1] = h /\ h \in B
        /\ t \in Seq(B) /\ Len(t) = Len(s) - 1 /\ DOMAIN t = 1..(Len(s) - 1)
        /\ \A i \in 1..(Len(s) - 1) : t[i] = s[i + 1]
    BY <1>1, <1>2
  <1>4. ToSet(s) = {h} \cup ToSet(t)
    <2>1. ASSUME NEW x \in ToSet(s) PROVE x \in {h} \cup ToSet(t)
      <3>1. PICK i \in 1..Len(s) : x = s[i]
        BY <1>3 DEF ToSet
      <3>2. i # 1 => i - 1 \in 1..(Len(s) - 1) /\ t[i - 1] = x
        BY <1>3, <3>1
      <3>. QED
        BY <1>3, <3>1, <3>2 DEF ToSet
    <2>2. ASSUME NEW x \in {h} \cup ToSet(t) PROVE x \in ToSet(s)
      <3>1. CASE x = h
        BY <1>3, <3>1 DEF ToSet
      <3>2. CASE x \in ToSet(t)
        <4>1. PICK i \in 1..(Len(s) - 1) : x = t[i]
          BY <1>3, <3>2 DEF ToSet
        <4>2. i + 1 \in 1..Len(s) /\ s[i + 1] = x
          BY <1>3, <4>1
        <4>. QED
          BY <1>3, <4>2 DEF ToSet
      <3>. QED
        BY <2>2, <3>1, <3>2
    <2>. QED
      BY <2>1, <2>2
  <1>5. ASSUME IsInjective(s)
        PROVE  IsInjective(t) /\ h \notin ToSet(t)
    <2>1. \A i, j \in 1..Len(s) : s[i] = s[j] => i = j
      BY <1>3, <1>5 DEF IsInjective
    <2>2. ASSUME NEW i \in 1..(Len(s) - 1), NEW j \in 1..(Len(s) - 1), t[i] = t[j]
          PROVE  i = j
      <3>1. i + 1 \in 1..Len(s) /\ j + 1 \in 1..Len(s) /\ s[i + 1] = s[j + 1]
        BY <1>3, <2>2
      <3>. QED
        BY <2>1, <3>1
    <2>3. ASSUME NEW i \in 1..(Len(s) - 1) PROVE t[i] # h
      <3>1. i + 1 \in 1..Len(s) /\ t[i] = s[i + 1] /\ 1 \in 1..Len(s) /\ i + 1 # 1
        BY <1>3
      <3>. QED
        BY <1>3, <2>1, <3>1
    <2>. QED
      BY <1>3, <2>2, <2>3 DEF IsInjective, ToSet
  <1>. QED
    BY <1>1, <1>2, <1>3, <1>4, <1>5

LEMMA KeptFacts ==
    ASSUME NEW s \in Seq(Items)
    PROVE  Kept(s) \in Seq(Items) /\ Len(Kept(s)) <= Len(s) /\ Len(Kept(s)) \in Nat
  BY OnlyKeeps, SeqFacts DEF Kept

LEMMA WindowType ==
    ASSUME SummaryTypeOK, NEW c \in Channels
    PROVE  Window(c) \in Seq(Items) /\ Len(Window(c)) \in Nat
  <1>1. history[c] \in Seq(Items)
    BY SummaryAssumption DEF SummaryTypeOK
  <1>. QED
    BY <1>1, OnlyKeeps, SeqFacts DEF Window

\* A page that is read adds what it has to what was kept.
LEMMA PageAdds ==
    ASSUME NEW w \in Seq(Items), NEW m \in Nat, NEW n \in Nat, m <= n, n <= Len(w)
    PROVE  /\ Kept(SubSeq(w, 1, m)) \o Kept(SubSeq(w, m + 1, n)) = Kept(SubSeq(w, 1, n))
           /\ Kept(SubSeq(w, m + 1, n)) \in Seq(Items)
           /\ Len(Kept(SubSeq(w, m + 1, n))) <= n - m
  <1>1. PICK a \in Seq(Items) : a = SubSeq(w, 1, m) /\ Len(a) = m
    <2>1. SubSeq(w, 1, m) \in Seq(Items) /\ Len(SubSeq(w, 1, m)) = m
      OBVIOUS
    <2>. QED
      BY <2>1
  <1>2. PICK b \in Seq(Items) : b = SubSeq(w, m + 1, n) /\ Len(b) = n - m
    <2>1. SubSeq(w, m + 1, n) \in Seq(Items) /\ Len(SubSeq(w, m + 1, n)) = n - m
      OBVIOUS
    <2>. QED
      BY <2>1
  <1>3. a \o b = SubSeq(w, 1, n)
    BY <1>1, <1>2
  <1>4. Only(a \o b, Items \ Noise) = Only(a, Items \ Noise) \o Only(b, Items \ Noise)
    BY OnlyConcat
  <1>5. Kept(b) \in Seq(Items) /\ Len(Kept(b)) <= Len(b)
    BY KeptFacts
  <1>. QED
    BY <1>1, <1>2, <1>3, <1>4, <1>5 DEF Kept

\* When the pages end, what was kept are the newest messages.
LEMMA PagesEnd ==
    ASSUME NEW w \in Seq(Items), NEW n \in Nat, n <= Len(w), NEW max \in Nat,
           NEW kept, kept = Kept(SubSeq(w, 1, n)), Len(kept) <= max,
           Len(kept) = max \/ n = Len(w)
    PROVE  kept = SubSeq(Kept(w), 1, Smaller(max, Len(Kept(w))))
  <1>1. SubSeq(w, 1, Len(w)) = w /\ Len(w) \in Nat
    OBVIOUS
  <1>2. PICK r \in Seq(Items) : r = Kept(SubSeq(w, n + 1, Len(w))) /\ Kept(w) = kept \o r
    <2>1. /\ Kept(SubSeq(w, 1, n)) \o Kept(SubSeq(w, n + 1, Len(w))) = Kept(SubSeq(w, 1, Len(w)))
          /\ Kept(SubSeq(w, n + 1, Len(w))) \in Seq(Items)
      <3>1. Len(w) \in Nat /\ Len(w) <= Len(w)
        OBVIOUS
      <3>. QED
        BY <3>1, PageAdds
    <2>. QED
      BY <1>1, <2>1
  <1>3. SubSeq(w, 1, n) \in Seq(Items)
    OBVIOUS
  <1>4. kept \in Seq(Items)
    BY <1>3, KeptFacts
  <1>5. PICK all \in Seq(Items) : all = Kept(w)
    BY KeptFacts
  <1>6. all = kept \o r /\ Len(all) \in Nat /\ Len(kept) \in Nat
    BY <1>2, <1>4, <1>5
  <1>7. CASE n = Len(w)
    <2>1. all = kept
      BY <1>1, <1>5, <1>7
    <2>2. Smaller(max, Len(all)) = Len(all)
      BY <1>6, <2>1 DEF Smaller
    <2>3. SubSeq(all, 1, Len(all)) = all
      OBVIOUS
    <2>. QED
      BY <1>5, <2>1, <2>2, <2>3
  <1>8. CASE Len(kept) = max
    <2>1. Len(all) >= max
      BY <1>4, <1>6, <1>8
    <2>2. Smaller(max, Len(all)) = max
      BY <1>6, <2>1 DEF Smaller
    <2>3. SubSeq(kept \o r, 1, Len(kept)) = kept
      BY <1>4
    <2>. QED
      BY <1>5, <1>6, <1>8, <2>2, <2>3
  <1>. QED
    BY <1>7, <1>8

-----------------------------------------------------------------------------
(* Summary: every step keeps the invariant                                  *)

\* What a channel holds for a request does not change while it runs.
LEMMA SameWindows ==
    ASSUME UNCHANGED <<history, scope, hours>>
    PROVE  /\ \A c : Window(c)' = Window(c)
           /\ \A i : Below(i)' = Below(i)
  <1>1. Recent' = Recent
    BY DEF Recent
  <1>. QED
    BY <1>1 DEF Window, Below, Kept

LEMMA SummaryInitHolds == SummaryInit => SummaryInv
  <1> SUFFICES ASSUME SummaryInit PROVE SummaryInv
    OBVIOUS
  <1> USE DEF SummaryInit
  <1>1. SummaryTypeOK
    <2>1. /\ history \in [Channels -> Histories] /\ buttons \subseteq Scopes \X (1..MaxHours)
          /\ at \in Stages /\ scope \in Scopes /\ hours \in 1..MaxHours
      BY SummaryAssumption DEF Scopes, Stages
    <2>2. got \in Seq(Items) /\ Len(got) <= MaxMessages[scope]
      BY Limits, <2>1
    <2>3. /\ listed \in Seq(Channels) /\ left \in Seq(Channels) /\ read \in Nat
          /\ lines \in Seq(Items) /\ personal \in Seq(Items)
          /\ chunks \in Seq(Seq(Items \X Nat)) /\ calls \in 0..Len(chunks)
      OBVIOUS
    <2>4. /\ done \subseteq Channels /\ skipped \in [Reasons -> SUBSET Channels]
          /\ {verdict, reported} \subseteq {"none", "ok", "empty", "fail"}
          /\ unsent \in BOOLEAN
      OBVIOUS
    <2>. QED
      BY <2>1, <2>2, <2>3, <2>4 DEF SummaryTypeOK
  <1>2. ChannelHeld /\ PagesHold /\ NothingLeftOut /\ ChannelsHold /\ EndHolds
    BY DEF ChannelHeld, PagesHold, NothingLeftOut, ChannelsHold, EndHolds, OnChannel
  <1>3. ChunksFit
    BY DEF ChunksFit
  <1>. QED
    BY <1>1, <1>2, <1>3 DEF SummaryInv

\* A step that leaves what the parts are about alone.
LEMMA SamePages ==
    ASSUME SummaryInv, UNCHANGED <<history, scope, hours, left, read, got, lines, chunks>>,
           at' = at \/ at' \notin {"listing", "fetching", "expanding", "mapping", "reducing"}
    PROVE  PagesHold' /\ NothingLeftOut' /\ ChunksFit'
  <1>1. \A c : Window(c)' = Window(c)
    BY SameWindows
  <1>2. PagesHold' /\ NothingLeftOut'
    BY <1>1 DEF SummaryInv, PagesHold, NothingLeftOut
  <1>3. ChunksFit'
    BY DEF SummaryInv, ChunksFit
  <1>. QED
    BY <1>2, <1>3

LEMMA SameChannels ==
    ASSUME SummaryInv, UNCHANGED <<history, scope, hours, listed, left, done, skipped>>,
           at' = at \/ (at \in OnChannel \ {"closing"} /\ at' \in OnChannel \ {"closing"})
    PROVE  ChannelsHold'
  <1>1. \A c : Window(c)' = Window(c)
    BY SameWindows
  <1>2. \A c : Counted(c)' = Counted(c)
    BY DEF Counted
  <1>3. Coming' = Coming
    BY DEF Coming, OnChannel
  <1>4. \A c : Settled(c)' <=> Settled(c)
    BY <1>1, <1>2 DEF Settled
  <1>5. \A c : Untouched(c)' <=> Untouched(c)
    BY <1>2 DEF Untouched
  <1>. QED
    BY <1>3, <1>4, <1>5 DEF SummaryInv, ChannelsHold, OnChannel

\* The present channel is settled: no other is touched.
LEMMA ChannelClosed ==
    ASSUME SummaryInv, UNCHANGED <<history, scope, hours, listed, left>>,
           at \in OnChannel \ {"closing"}, at' = "closing",
           \A c \in Channels \ {Head(left)} : Counted(c)' = Counted(c) /\ (c \in done' <=> c \in done),
           Settled(Head(left))'
    PROVE  ChannelsHold'
  <1> SUFFICES ASSUME scope = "all" PROVE ChannelsHold'
    BY DEF ChannelsHold
  <1>1. left \in Seq(Channels) /\ left # <<>> /\ listed \in Seq(Channels)
    BY DEF SummaryInv, SummaryTypeOK, ChannelHeld
  <1>2. /\ IsInjective(left) /\ IsInjective(listed)
        /\ \A c \in ToSet(listed) \ ToSet(left) : Settled(c)
        /\ \A c \in ToSet(left) : Untouched(c)
    BY DEF SummaryInv, ChannelsHold, Coming, OnChannel
  <1>3. PICK h \in Channels : h = Head(left)
    BY <1>1, HeadFacts
  <1>4. /\ ToSet(left) = {h} \cup ToSet(Tail(left)) /\ h \notin ToSet(Tail(left))
    BY <1>1, <1>2, <1>3, HeadFacts
  <1>5. Coming' = ToSet(Tail(left))
    BY DEF Coming
  <1>6. ToSet(listed) \subseteq Channels /\ ToSet(left) \subseteq Channels
    BY <1>1, SeqFacts
  <1>7. ASSUME NEW c \in Channels, c # h
        PROVE  (Settled(c)' <=> Settled(c)) /\ (Untouched(c)' <=> Untouched(c))
    <2>1. Window(c)' = Window(c)
      BY SameWindows
    <2>2. Counted(c)' = Counted(c) /\ (c \in done' <=> c \in done)
      BY <1>3, <1>7
    <2>. QED
      BY <2>1, <2>2 DEF Settled, Untouched
  <1>8. \A c \in ToSet(listed) \ ToSet(Tail(left)) : Settled(c)'
    BY <1>2, <1>3, <1>4, <1>6, <1>7
  <1>9. \A c \in ToSet(Tail(left)) : Untouched(c)'
    BY <1>2, <1>4, <1>6, <1>7
  <1>. QED
    BY <1>2, <1>5, <1>8, <1>9 DEF ChannelsHold

\* The facts that a present channel stands for.
LEMMA PresentChannel ==
    ASSUME SummaryInv, at \in OnChannel
    PROVE  /\ left \in Seq(Channels) /\ left # <<>> /\ Head(left) \in Channels
           /\ Tail(left) \in Seq(Channels)
           /\ Window(Head(left)) \in Seq(Items) /\ Len(Window(Head(left))) \in Nat
           /\ MaxMessages[scope] \in Nat \ {0}
           /\ scope = "all" => Untouched(Head(left)) \/ at = "closing"
  <1>1. left \in Seq(Channels) /\ left # <<>> /\ SummaryTypeOK /\ scope \in Scopes
    BY DEF SummaryInv, SummaryTypeOK, ChannelHeld
  <1>2. /\ Head(left) \in Channels /\ Tail(left) \in Seq(Channels)
        /\ Head(left) \in ToSet(left)
    BY <1>1, HeadFacts
  <1>3. scope = "all" => Untouched(Head(left)) \/ at = "closing"
    BY <1>2 DEF SummaryInv, ChannelsHold, Coming, OnChannel
  <1>. QED
    BY <1>1, <1>2, <1>3, WindowType, Limits

LEMMA LeaveOutHolds ==
    ASSUME SummaryInv, NEW reason \in Reasons, at \in OnChannel \ {"closing"}, LeaveOut(reason),
           UNCHANGED <<history, buttons, scope, hours, listed, left, read, got, lines, chunks,
                       calls, done, personal, reported, unsent>>
    PROVE  SummaryInv'
  <1>1. PICK h \in Channels : h = Head(left)
    BY PresentChannel
  <1>2. skipped \in [Reasons -> SUBSET Channels] /\ scope \in Scopes
    BY DEF SummaryInv, SummaryTypeOK
  <1>3. skipped' = [skipped EXCEPT ![reason] = @ \cup {h}]
    BY <1>1 DEF LeaveOut
  <1>4. \/ scope = "all" /\ at' = "closing" /\ verdict' = verdict
        \/ scope = "single" /\ at' = "answering" /\ verdict' = "fail"
    BY <1>2 DEF LeaveOut, Conclude, Scopes
  <1>5. SummaryTypeOK'
    <2>1. skipped' \in [Reasons -> SUBSET Channels]
      BY <1>2, <1>3
    <2>2. at' \in Stages /\ {verdict', reported'} \subseteq {"none", "ok", "empty", "fail"}
      BY <1>4 DEF Stages, SummaryInv, SummaryTypeOK
    <2>. QED
      BY <2>1, <2>2 DEF SummaryInv, SummaryTypeOK
  <1>6. ChannelHeld'
    BY DEF SummaryInv, ChannelHeld, OnChannel
  <1>7. PagesHold' /\ NothingLeftOut' /\ ChunksFit'
    BY <1>4, SamePages
  <1>8. ASSUME scope = "all"
        PROVE  ChannelsHold'
    <2>1. \A c \in Channels \ {h} : Counted(c)' = Counted(c)
      BY <1>2, <1>3 DEF Counted
    <2>2. Untouched(h)
      BY <1>1, <1>8, PresentChannel DEF OnChannel
    <2>3. Counted(h)' = {reason}
      BY <1>2, <1>3, <2>2 DEF Counted, Untouched
    <2>4. Cardinality({reason}) = 1
      BY FS_Singleton
    <2>5. Settled(h)'
      BY <2>2, <2>3, <2>4 DEF Settled, Untouched
    <2>6. Settled(Head(left))'
      BY <1>1, <2>5
    <2>. QED
      BY <1>1, <1>4, <1>8, <2>1, <2>6, ChannelClosed
  <1>9. ChannelsHold' /\ EndHolds'
    BY <1>4, <1>8 DEF ChannelsHold, EndHolds
  <1>. QED
    BY <1>5, <1>6, <1>7, <1>9 DEF SummaryInv

LEMMA SummarisedHolds ==
    ASSUME SummaryInv, at \in {"mapping", "reducing"}, Summarised, calls' \in 0..Len(chunks),
           UNCHANGED <<history, buttons, scope, hours, listed, left, read, got, lines, chunks,
                       skipped, personal, verdict, reported, unsent>>
    PROVE  SummaryInv'
  <1>1. PICK h \in Channels : h = Head(left)
    BY PresentChannel DEF OnChannel
  <1>2. /\ skipped \in [Reasons -> SUBSET Channels] /\ scope \in Scopes /\ done \subseteq Channels
        /\ skipped' = skipped
    BY DEF SummaryInv, SummaryTypeOK
  <1>3. done' = done \cup {h}
    BY <1>1 DEF Summarised
  <1>4. \/ scope = "all" /\ at' = "closing"
        \/ scope = "single" /\ at' = "personal"
    BY <1>2 DEF Summarised, Scopes
  <1>5. SummaryTypeOK'
    BY <1>1, <1>2, <1>3, <1>4 DEF SummaryInv, SummaryTypeOK, Stages
  <1>6. ChannelHeld'
    BY <1>4 DEF SummaryInv, ChannelHeld, OnChannel
  <1>7. PagesHold' /\ NothingLeftOut' /\ ChunksFit'
    BY <1>4, SamePages
  <1>8. ASSUME scope = "all"
        PROVE  ChannelsHold'
    <2>1. \A c : Counted(c)' = Counted(c)
      BY <1>2 DEF Counted
    <2>2. Untouched(h)
      BY <1>1, <1>8, PresentChannel DEF OnChannel
    <2>3. Counted(h)' = {} /\ h \in done'
      BY <1>3, <2>1, <2>2 DEF Untouched
    <2>4. Cardinality({}) = 0
      BY FS_EmptySet
    <2>5. Settled(h)'
      BY <2>3, <2>4 DEF Settled
    <2>6. Settled(Head(left))'
      BY <1>1, <2>5
    <2>7. \A c \in Channels \ {h} : c \in done' <=> c \in done
      BY <1>3
    <2>8. at \in OnChannel \ {"closing"}
      BY DEF OnChannel
    <2>. QED
      BY <1>1, <1>4, <1>8, <2>1, <2>6, <2>7, <2>8, ChannelClosed
  <1>9. ChannelsHold' /\ EndHolds'
    BY <1>4, <1>8 DEF ChannelsHold, EndHolds
  <1>. QED
    BY <1>5, <1>6, <1>7, <1>9 DEF SummaryInv

LEMMA CommandHolds ==
    ASSUME SummaryInv, NEW s \in Scopes, NEW n \in Asked, Command(s, n)
    PROVE  SummaryInv'
  <1>1. MaxHours \in Int /\ DefaultHours \in 1..MaxHours /\ n \in Int
    BY SummaryAssumption
  <1>2. Hours(n) \in 1..MaxHours
    BY <1>1 DEF Hours, Smaller
  <1>3. SummaryTypeOK'
    BY <1>1, <1>2 DEF Command, work, SummaryInv, SummaryTypeOK
  <1>4. PagesHold' /\ NothingLeftOut' /\ ChunksFit'
    BY SamePages DEF Command, work
  <1>5. ChannelsHold' /\ ChannelHeld' /\ EndHolds'
    BY SameChannels DEF Command, work, SummaryInv, ChannelHeld, EndHolds
  <1>. QED
    BY <1>3, <1>4, <1>5 DEF SummaryInv

LEMMA PressHolds ==
    ASSUME SummaryInv, NEW b \in buttons, Press(b[1], b[2])
    PROVE  SummaryInv'
  <1>1. b[1] \in Scopes /\ b[2] \in 1..MaxHours
    BY DEF SummaryInv, SummaryTypeOK
  <1>2. /\ scope' = b[1] /\ hours' = b[2] /\ read' = 0 /\ got' = <<>> /\ lines' = <<>>
        /\ chunks' = <<>> /\ calls' = 0 /\ done' = {} /\ personal' = <<>>
        /\ skipped' = [r \in Reasons |-> {}] /\ verdict' = "none" /\ reported' = "none"
        /\ unsent' = FALSE /\ history' = history /\ buttons' = buttons
    BY DEF Press
  <1>3. \/ b[1] = "all" /\ at' = "listing" /\ listed' = <<>> /\ left' = <<>>
        \/ b[1] = "single" /\ at' = "fetching" /\ listed' = <<Home>> /\ left' = <<Home>>
    BY <1>1 DEF Press, Scopes
  <1>4. Home \in Channels
    BY SummaryAssumption
  <1>5. SummaryTypeOK'
    <2>1. listed' \in Seq(Channels) /\ left' \in Seq(Channels) /\ at' \in Stages
      <3>1. <<>> \in Seq(Channels) /\ <<Home>> \in Seq(Channels)
        BY <1>4
      <3>. QED
        BY <1>3, <3>1 DEF Stages
    <2>2. got' \in Seq(Items) /\ Len(got') = 0 /\ 0 <= MaxMessages[scope']
      <3>1. MaxMessages[b[1]] \in Nat
        BY <1>1, SummaryAssumption DEF Scopes
      <3>. QED
        BY <1>2, <3>1
    <2>3. /\ lines' \in Seq(Items) /\ personal' \in Seq(Items)
          /\ chunks' \in Seq(Seq(Items \X Nat)) /\ calls' \in 0..Len(chunks')
      BY <1>2
    <2>4. /\ done' \subseteq Channels /\ skipped' \in [Reasons -> SUBSET Channels]
          /\ {verdict', reported'} \subseteq {"none", "ok", "empty", "fail"}
          /\ unsent' \in BOOLEAN /\ read' \in Nat
      BY <1>2
    <2>5. history' \in [Channels -> Histories] /\ buttons' \subseteq Scopes \X (1..MaxHours)
      BY <1>2 DEF SummaryInv, SummaryTypeOK
    <2>. QED
      BY <1>1, <1>2, <2>1, <2>2, <2>3, <2>4, <2>5 DEF SummaryTypeOK
  <1>6. ChannelHeld'
    BY <1>3 DEF ChannelHeld, OnChannel
  <1>7. PagesHold'
    <2>1. SUFFICES ASSUME at' = "fetching"
                   PROVE  /\ read' <= Len(Window(Head(left))')
                          /\ got' = Kept(SubSeq(Window(Head(left))', 1, read'))
      BY <1>2, <1>3 DEF PagesHold
    <2>2. left' = <<Home>> /\ Head(<<Home>>) = Home
      BY <1>3, <2>1
    <2>3. Window(Home)' \in Seq(Items)
      <3>1. history'[Home] \in Seq(Items)
        BY <1>2, <1>4, SummaryAssumption DEF SummaryInv, SummaryTypeOK
      <3>. QED
        BY <3>1, OnlyKeeps DEF Window
    <2>4. PICK w \in Seq(Items) : w = Window(Head(left))'
      BY <2>2, <2>3
    <2>5. Len(w) \in Nat /\ SubSeq(w, 1, 0) = <<>>
      OBVIOUS
    <2>6. Kept(<<>>) = <<>>
      BY OnlySteps DEF Kept
    <2>7. read' <= Len(w) /\ SubSeq(w, 1, read') = <<>>
      BY <1>2, <2>5
    <2>. QED
      BY <1>2, <2>4, <2>6, <2>7
  <1>8. NothingLeftOut' /\ ChunksFit'
    BY <1>2, <1>3 DEF NothingLeftOut, ChunksFit
  <1>9. ChannelsHold' /\ EndHolds'
    <2>1. \A c \in Channels : Untouched(c)'
      BY <1>2 DEF Untouched, Counted
    <2>2. ToSet(<<>>) = {} /\ IsInjective(<<>>)
      BY DEF ToSet, IsInjective
    <2>. QED
      BY <1>2, <1>3, <2>1, <2>2 DEF ChannelsHold, EndHolds, Coming
  <1>. QED
    BY <1>5, <1>6, <1>7, <1>8, <1>9 DEF SummaryInv

LEMMA ListPageHolds ==
    ASSUME SummaryInv, ListPage
    PROVE  SummaryInv'
  <1>1. PICK c \in Channels \ ToSet(listed) : listed' = Append(listed, c)
    BY DEF ListPage
  <1>2. /\ at = "listing" /\ at' = at /\ listed \in Seq(Channels) /\ scope' = scope
        /\ UNCHANGED <<history, buttons, hours, left, read, got, lines, chunks, calls,
                       done, skipped, personal, verdict, reported, unsent>>
    BY DEF ListPage, SummaryInv, SummaryTypeOK
  <1>3. /\ listed' \in Seq(Channels)
        /\ IsInjective(listed) => IsInjective(listed')
    BY <1>1, <1>2, AppendFacts
  <1>4. SummaryTypeOK' /\ ChannelHeld'
    BY <1>2, <1>3 DEF SummaryInv, SummaryTypeOK, ChannelHeld, OnChannel
  <1>5. PagesHold' /\ NothingLeftOut' /\ ChunksFit'
    BY <1>2, SamePages
  <1>6. \A d : Untouched(d)' <=> Untouched(d)
    BY <1>2 DEF Untouched, Counted
  <1>7. Coming' = Coming
    BY <1>2 DEF Coming
  <1>8. ChannelsHold' /\ EndHolds'
    BY <1>2, <1>3, <1>6, <1>7 DEF SummaryInv, ChannelsHold, EndHolds
  <1>. QED
    BY <1>4, <1>5, <1>8 DEF SummaryInv

LEMMA ListDoneHolds ==
    ASSUME SummaryInv, ListDone
    PROVE  SummaryInv'
  <1>1. /\ at = "listing" /\ left' = listed /\ listed' = listed /\ listed \in Seq(Channels)
        /\ UNCHANGED <<history, buttons, scope, hours, read, got, lines, chunks, calls,
                       done, skipped, personal, reported, unsent>>
    BY DEF ListDone, SummaryInv, SummaryTypeOK
  <1>2. \/ listed = <<>> /\ at' = "answering" /\ verdict' = "empty"
        \/ listed # <<>> /\ at' = "fetching" /\ verdict' = verdict
    BY DEF ListDone, Conclude
  <1>3. SummaryTypeOK' /\ ChannelHeld'
    BY <1>1, <1>2 DEF SummaryInv, SummaryTypeOK, ChannelHeld, OnChannel, Stages
  <1>4. PagesHold'
    <2>1. SUFFICES ASSUME at' = "fetching"
                   PROVE  /\ read <= Len(Window(Head(listed)))
                          /\ got = Kept(SubSeq(Window(Head(listed)), 1, read))
      BY <1>1, <1>2, SameWindows DEF PagesHold
    <2>2. Head(listed) \in Channels
      BY <1>1, <1>2, <2>1, HeadFacts
    <2>3. PICK w \in Seq(Items) : w = Window(Head(listed))
      BY <2>2, WindowType DEF SummaryInv
    <2>4. read = 0 /\ got = <<>>
      BY <1>1 DEF SummaryInv, PagesHold
    <2>5. read <= Len(w) /\ SubSeq(w, 1, read) = <<>>
      BY <2>4
    <2>6. Kept(<<>>) = <<>>
      BY OnlySteps DEF Kept
    <2>. QED
      BY <2>3, <2>4, <2>5, <2>6
  <1>5. NothingLeftOut' /\ ChunksFit'
    BY <1>1, <1>2 DEF SummaryInv, NothingLeftOut, ChunksFit
  <1>6. ASSUME scope = "all"
        PROVE  ChannelsHold' /\ EndHolds'
    <2>1. IsInjective(listed) /\ \A c \in Channels : Untouched(c)
      BY <1>1, <1>6 DEF SummaryInv, ChannelsHold
    <2>2. \A c : Untouched(c)' <=> Untouched(c)
      BY <1>1 DEF Untouched, Counted
    <2>3. Coming' = ToSet(listed) /\ ToSet(listed) \subseteq Channels
      BY <1>1, <1>2, SeqFacts DEF Coming
    <2>4. done = {} /\ \A r \in Reasons : skipped[r] = {}
      BY <2>1 DEF SummaryInv, SummaryTypeOK, Untouched, Counted
    <2>5. ChannelsHold'
      BY <1>1, <1>2, <2>1, <2>2, <2>3 DEF ChannelsHold
    <2>6. EndHolds'
      BY <1>1, <1>2, <2>4 DEF EndHolds, Reasons
    <2>. QED
      BY <2>5, <2>6
  <1>7. ChannelsHold' /\ EndHolds'
    BY <1>1, <1>6 DEF ChannelsHold, EndHolds
  <1>. QED
    BY <1>3, <1>4, <1>5, <1>7 DEF SummaryInv

LEMMA FetchPageHolds ==
    ASSUME SummaryInv, FetchPage
    PROVE  SummaryInv'
  <1>1. PICK w \in Seq(Items) : w = Window(Head(left))
    BY PresentChannel DEF FetchPage, OnChannel
  <1>2. PICK n : n = Smaller(read + Page, Len(w))
    OBVIOUS
  <1>3. /\ at = "fetching" /\ read' = n
        /\ got' = got \o Kept(SubSeq(w, read + 1, n))
        /\ at' = IF Len(got') < MaxMessages[scope] /\ n < Len(w) THEN "fetching" ELSE "expanding"
        /\ UNCHANGED <<history, buttons, scope, hours, listed, left, lines, chunks, calls, done,
                       skipped, personal, verdict, reported, unsent>>
    BY <1>1, <1>2 DEF FetchPage
  <1>4. PICK max \in Nat : max = MaxMessages[scope]
    BY <1>3, PresentChannel DEF OnChannel
  <1>5. /\ read \in Nat /\ got \in Seq(Items) /\ Len(got) <= max /\ Len(got) \in Nat
        /\ read <= Len(w) /\ Len(w) \in Nat /\ got = Kept(SubSeq(w, 1, read))
    BY <1>1, <1>3, <1>4, SeqFacts DEF SummaryInv, SummaryTypeOK, PagesHold
  <1>6. n \in Nat /\ read <= n /\ n <= Len(w) /\ n - read <= max - Len(got)
    <2>1. PageSize \in Nat
      BY SummaryAssumption
    <2>2. Page \in Nat /\ Page <= max - Len(got)
      BY <1>4, <1>5, <2>1 DEF Page, Smaller
    <2>3. PICK p \in Nat : p = Page /\ p <= max - Len(got)
      BY <2>2
    <2>4. n = IF read + p <= Len(w) THEN read + p ELSE Len(w)
      BY <1>2, <2>3 DEF Smaller
    <2>. QED
      BY <1>4, <1>5, <2>3, <2>4
  <1>7. PICK k \in Seq(Items) : k = Kept(SubSeq(w, read + 1, n)) /\ Len(k) <= n - read
    BY <1>5, <1>6, PageAdds
  <1>8. got \o k = Kept(SubSeq(w, 1, n))
    BY <1>5, <1>6, <1>7, PageAdds
  <1>9. PICK g \in Seq(Items) : g = got \o k /\ Len(g) <= max /\ Len(g) \in Nat
    <2>1. got \o k \in Seq(Items) /\ Len(got \o k) = Len(got) + Len(k) /\ Len(k) \in Nat
      BY <1>5, <1>7
    <2>2. Len(got) + Len(k) <= max /\ Len(got) + Len(k) \in Nat
      BY <1>4, <1>5, <1>6, <1>7, <2>1
    <2>. QED
      BY <2>1, <2>2
  <1>10. got' = g
    BY <1>3, <1>7, <1>9
  <1>11. at' \in {"fetching", "expanding"}
    BY <1>3
  <1>12. SummaryTypeOK' /\ ChannelHeld'
    BY <1>3, <1>4, <1>6, <1>9, <1>10, <1>11
       DEF SummaryInv, SummaryTypeOK, ChannelHeld, OnChannel, Stages
  <1>13. PagesHold'
    <2>1. Window(Head(left))' = w
      BY <1>1, <1>3, SameWindows
    <2>2. ASSUME at' = "expanding"
          PROVE  g = SubSeq(Kept(w), 1, Smaller(max, Len(Kept(w))))
      <3>1. Len(g) = max \/ n = Len(w)
        <4>1. ~ (Len(g) < max /\ n < Len(w))
          BY <1>3, <1>4, <1>10, <2>2
        <4>. QED
          BY <1>4, <1>5, <1>6, <1>9, <4>1
      <3>. QED
        BY <1>6, <1>8, <1>9, <3>1, PagesEnd
    <2>. QED
      BY <1>3, <1>4, <1>6, <1>8, <1>9, <1>10, <1>11, <2>1, <2>2 DEF PagesHold
  <1>14. NothingLeftOut' /\ ChunksFit'
    BY <1>3, <1>11 DEF SummaryInv, NothingLeftOut, ChunksFit
  <1>15. ChannelsHold' /\ EndHolds'
    BY <1>3, <1>11, SameChannels DEF OnChannel, EndHolds
  <1>. QED
    BY <1>12, <1>13, <1>14, <1>15 DEF SummaryInv

LEMMA FetchFailsHolds ==
    ASSUME SummaryInv, NEW reason \in Reasons, FetchFails(reason)
    PROVE  SummaryInv'
  BY LeaveOutHolds DEF FetchFails, OnChannel

LEMMA ModelFailsHolds ==
    ASSUME SummaryInv, NEW reason \in Reasons, ModelFails(reason)
    PROVE  SummaryInv'
  BY LeaveOutHolds DEF ModelFails, OnChannel

LEMMA ExpandHolds ==
    ASSUME SummaryInv, Expand
    PROVE  SummaryInv'
  <1>1. PICK failing : lines' = Expanded(Reverse(got), failing)
    BY DEF Expand
  <1>2. /\ at = "expanding" /\ personal' = personal \o Personal(lines')
        /\ chunks' = Chunks(lines') /\ calls' = 0
        /\ UNCHANGED <<history, buttons, scope, hours, listed, left, read, got, done, skipped,
                       reported, unsent>>
        /\ \/ lines' # <<>> /\ at' = "mapping" /\ verdict' = verdict
           \/ lines' = <<>> /\ scope = "all" /\ at' = "closing" /\ verdict' = verdict
           \/ lines' = <<>> /\ scope # "all" /\ at' = "answering" /\ verdict' = "empty"
    BY DEF Expand, Conclude
  <1>3. SummaryTypeOK /\ scope \in Scopes /\ got \in Seq(Items) /\ personal \in Seq(Items)
    BY DEF SummaryInv, SummaryTypeOK
  <1>4. PICK roots \in Seq(Items) : roots = Reverse(got) /\ Len(roots) = Len(got)
    <2>1. Reverse(got) \in Seq(Items) /\ Len(Reverse(got)) = Len(got)
      BY <1>3 DEF Reverse
    <2>. QED
      BY <2>1
  <1>5. PICK l \in Seq(Items) : /\ l = lines' /\ Len(roots) <= Len(l)
                                /\ Only(l, Roots) = Only(roots, Roots)
    BY <1>1, <1>3, <1>4, ExpandedFacts
  <1>6. Only(l, Roots) = Reverse(Only(got, Roots))
    BY <1>3, <1>4, <1>5, OnlyReverse
  <1>7. PICK cut \in Seq(Seq(Lines)) : /\ cut = chunks' /\ Flat(cut) = l
                                       /\ \A k \in 1..Len(cut) : Within(cut[k], Budget)
    BY <1>2, <1>5, ChunksFacts
  <1>8. Personal(l) \in Seq(Items)
    BY OnlyKeeps DEF Personal
  <1>9. PICK w \in Seq(Items) : w = Window(Head(left)) /\ Window(Head(left))' = w
    BY <1>2, PresentChannel, SameWindows DEF OnChannel
  <1>10. PICK max \in Nat : max = MaxMessages[scope] /\ max >= 1
    BY <1>3, Limits
  <1>11. got = SubSeq(Kept(w), 1, Smaller(max, Len(Kept(w))))
    BY <1>2, <1>9, <1>10 DEF SummaryInv, PagesHold
  <1>12. SummaryTypeOK'
    <2>1. at' \in Stages /\ {verdict', reported'} \subseteq {"none", "ok", "empty", "fail"}
      BY <1>2 DEF SummaryInv, SummaryTypeOK, Stages
    <2>2. personal' \in Seq(Items)
      BY <1>2, <1>3, <1>5, <1>8
    <2>3. chunks' \in Seq(Seq(Items \X Nat)) /\ calls' \in 0..Len(chunks')
      BY <1>2, <1>7 DEF Lines
    <2>. QED
      BY <1>2, <1>5, <2>1, <2>2, <2>3 DEF SummaryInv, SummaryTypeOK
  <1>13. ChannelHeld'
    BY <1>2 DEF SummaryInv, ChannelHeld, OnChannel
  <1>14. PagesHold'
    BY <1>2, <1>9, <1>10, <1>11 DEF PagesHold
  <1>15. NothingLeftOut'
    BY <1>2, <1>5, <1>6, <1>7, <1>9, <1>10, <1>11 DEF NothingLeftOut
  <1>16. ChunksFit'
    BY <1>7 DEF ChunksFit, Within
  <1>17. ASSUME at' = "closing"
         PROVE  ChannelsHold'
    <2>1. Len(got) = 0
      BY <1>2, <1>3, <1>4, <1>5, <1>17
    <2>2. Kept(w) = <<>>
      <3>1. PICK all \in Seq(Items) : all = Kept(w)
        BY KeptFacts
      <3>2. Len(SubSeq(all, 1, Smaller(max, Len(all)))) = Smaller(max, Len(all))
        BY PartFacts
      <3>3. Len(all) = 0
        BY <1>10, <1>11, <2>1, <3>1, <3>2 DEF Smaller
      <3>. QED
        BY <3>1, <3>3
    <2>3. Untouched(Head(left))
      BY <1>2, <1>17, PresentChannel DEF OnChannel
    <2>4. \A c : Counted(c)' = Counted(c) /\ (c \in done' <=> c \in done)
      BY <1>2 DEF Counted
    <2>5. Settled(Head(left))'
      BY <1>2, <1>9, <2>2, <2>3 DEF Settled, Untouched
    <2>. QED
      BY <1>2, <1>17, <2>4, <2>5, ChannelClosed DEF OnChannel
  <1>18. ASSUME at' = "mapping"
         PROVE  ChannelsHold'
    BY <1>2, <1>18, SameChannels DEF OnChannel
  <1>19. ChannelsHold' /\ EndHolds'
    BY <1>2, <1>17, <1>18 DEF ChannelsHold, EndHolds
  <1>. QED
    BY <1>12, <1>13, <1>14, <1>15, <1>16, <1>19 DEF SummaryInv


LEMMA SummarizeChunkHolds ==
    ASSUME SummaryInv, SummarizeChunk
    PROVE  SummaryInv'
  <1>1. /\ at = "mapping" /\ calls' = calls + 1 /\ calls < Len(chunks)
        /\ UNCHANGED <<history, buttons, scope, hours, listed, left, read, got, lines, chunks,
                       skipped, personal, verdict, reported, unsent>>
    BY DEF SummarizeChunk
  <1>2. chunks \in Seq(Seq(Items \X Nat)) /\ calls \in 0..Len(chunks)
    BY DEF SummaryInv, SummaryTypeOK
  <1>3. calls' \in 0..Len(chunks)
    BY <1>1, <1>2
  <1>4. CASE Summarised
    BY <1>1, <1>3, <1>4, SummarisedHolds
  <1>5. CASE done' = done /\ at' \in {"mapping", "reducing"}
    <2>1. SummaryTypeOK' /\ ChannelHeld'
      BY <1>1, <1>3, <1>5 DEF SummaryInv, SummaryTypeOK, ChannelHeld, OnChannel, Stages
    <2>2. \A c : Window(c)' = Window(c)
      BY <1>1, SameWindows
    <2>3. PagesHold' /\ NothingLeftOut' /\ ChunksFit'
      BY <1>1, <1>5, <2>2 DEF SummaryInv, PagesHold, NothingLeftOut, ChunksFit
    <2>4. ChannelsHold' /\ EndHolds'
      BY <1>1, <1>5, SameChannels DEF OnChannel, EndHolds
    <2>. QED
      BY <2>1, <2>3, <2>4 DEF SummaryInv
  <1>. QED
    BY <1>1, <1>4, <1>5 DEF SummarizeChunk

LEMMA ReduceHolds ==
    ASSUME SummaryInv, Reduce
    PROVE  SummaryInv'
  <1>1. calls' \in 0..Len(chunks)
    BY DEF Reduce, SummaryInv, SummaryTypeOK
  <1>. QED
    BY <1>1, SummarisedHolds DEF Reduce

LEMMA NextChannelHolds ==
    ASSUME SummaryInv, NextChannel
    PROVE  SummaryInv'
  <1>1. /\ at = "closing" /\ left' = Tail(left) /\ read' = 0 /\ got' = <<>> /\ lines' = <<>>
        /\ chunks' = <<>> /\ calls' = 0
        /\ UNCHANGED <<history, buttons, scope, hours, listed, done, skipped, personal,
                       reported, unsent>>
    BY DEF NextChannel
  <1>2. \/ left' # <<>> /\ at' = "fetching" /\ verdict' = verdict
        \/ left' = <<>> /\ done # {} /\ at' = "personal" /\ verdict' = verdict
        \/ left' = <<>> /\ done = {} /\ at' = "answering" /\ verdict' = "fail"
        \/ /\ left' = <<>> /\ done = {} /\ at' = "answering" /\ verdict' = "empty"
           /\ skipped["slack_rate_limited"] \cup skipped["groq_overload"] = {}
    BY DEF NextChannel, Conclude
  <1>3. left \in Seq(Channels) /\ left # <<>> /\ Tail(left) \in Seq(Channels)
    BY <1>1, PresentChannel DEF OnChannel
  <1>4. SummaryTypeOK'
    <2>1. got' \in Seq(Items) /\ Len(got') = 0 /\ 0 <= MaxMessages[scope]
      BY <1>1, Limits DEF SummaryInv, SummaryTypeOK
    <2>2. /\ lines' \in Seq(Items) /\ chunks' \in Seq(Seq(Items \X Nat))
          /\ calls' \in 0..Len(chunks') /\ read' \in Nat
      BY <1>1
    <2>3. at' \in Stages /\ verdict' \in {"none", "ok", "empty", "fail"}
      BY <1>2 DEF Stages, SummaryInv, SummaryTypeOK
    <2>. QED
      BY <1>1, <1>3, <2>1, <2>2, <2>3 DEF SummaryInv, SummaryTypeOK
  <1>5. ChannelHeld'
    BY <1>2 DEF ChannelHeld, OnChannel
  <1>6. PagesHold'
    <2>1. CASE at' # "fetching"
      BY <1>2, <2>1 DEF PagesHold
    <2>2. CASE at' = "fetching"
      <3>1. PICK h \in Channels : h = Head(left')
        BY <1>1, <1>2, <1>3, <2>2, HeadFacts
      <3>2. PICK w \in Seq(Items) : w = Window(h)
        BY WindowType DEF SummaryInv
      <3>3. Window(Head(left))' = w
        <4>1. Window(h)' = w
          BY <1>1, <3>2, SameWindows
        <4>. QED
          BY <3>1, <4>1 DEF Window, Only
      <3>4. Len(w) \in Nat /\ SubSeq(w, 1, 0) = <<>>
        OBVIOUS
      <3>5. Kept(<<>>) = <<>>
        BY OnlySteps DEF Kept
      <3>6. read' <= Len(w) /\ SubSeq(w, 1, read') = <<>>
        BY <1>1, <3>4
      <3>. QED
        BY <1>1, <2>2, <3>3, <3>5, <3>6 DEF PagesHold
    <2>. QED
      BY <2>1, <2>2
  <1>7. NothingLeftOut' /\ ChunksFit'
    BY <1>1, <1>2 DEF NothingLeftOut, ChunksFit
  <1>8. ASSUME scope = "all"
        PROVE  ChannelsHold'
    <2>1. /\ IsInjective(left) /\ IsInjective(listed)
          /\ \A c \in ToSet(listed) \ Coming : Settled(c)
          /\ \A c \in Coming : Untouched(c)
      BY <1>1, <1>8 DEF SummaryInv, ChannelsHold
    <2>2. Coming' = Coming
      BY <1>1, <1>2 DEF Coming
    <2>3. IsInjective(left')
      BY <1>1, <1>3, <2>1, HeadFacts
    <2>4. \A c : Counted(c)' = Counted(c) /\ Window(c)' = Window(c)
      BY <1>1, SameWindows DEF Counted
    <2>5. \A c : (Settled(c)' <=> Settled(c)) /\ (Untouched(c)' <=> Untouched(c))
      BY <1>1, <2>4 DEF Settled, Untouched
    <2>. QED
      BY <1>1, <1>2, <2>1, <2>2, <2>3, <2>5 DEF ChannelsHold
  <1>9. ChannelsHold' /\ EndHolds'
    BY <1>1, <1>2, <1>8 DEF ChannelsHold, EndHolds
  <1>. QED
    BY <1>4, <1>5, <1>6, <1>7, <1>9 DEF SummaryInv

\* With no present channel left, only the end is decided.
LEMMA EndSteps ==
    ASSUME SummaryInv, SummarizePersonal \/ Answer \/ AnswerFails
    PROVE  SummaryInv'
  <1>1. UNCHANGED <<history, buttons, scope, hours, work>>
    BY DEF SummarizePersonal, Answer, AnswerFails
  <1>2. \/ at = "personal" /\ at' = "answering" /\ verdict' = "ok" /\ reported' = reported
           /\ unsent' = unsent
        \/ at = "answering" /\ at' = "idle" /\ verdict' = verdict
           /\ reported' \in {verdict, reported} /\ unsent' \in {TRUE, unsent}
    BY DEF SummarizePersonal, Answer, AnswerFails, Conclude
  <1>3. SummaryTypeOK'
    <2>1. at' \in Stages /\ unsent' \in BOOLEAN
      BY <1>2 DEF Stages, SummaryInv, SummaryTypeOK
    <2>2. {verdict', reported'} \subseteq {"none", "ok", "empty", "fail"}
      BY <1>2 DEF SummaryInv, SummaryTypeOK
    <2>. QED
      BY <1>1, <2>1, <2>2 DEF work, SummaryInv, SummaryTypeOK
  <1>4. PagesHold' /\ NothingLeftOut' /\ ChunksFit'
    BY <1>1, <1>2, SamePages DEF work
  <1>5. ChannelHeld'
    BY <1>2 DEF ChannelHeld, OnChannel
  <1>6. CASE at' = "answering"
    <2>1. \A c : Counted(c)' = Counted(c) /\ Window(c)' = Window(c)
      BY <1>1, SameWindows DEF Counted, work
    <2>2. \A c : (Settled(c)' <=> Settled(c)) /\ (Untouched(c)' <=> Untouched(c))
      BY <1>1, <2>1 DEF Settled, Untouched, work
    <2>3. Coming' = Coming
      BY <1>1, <1>2, <1>6 DEF Coming, work
    <2>4. ChannelsHold'
      BY <1>1, <1>2, <1>6, <2>2, <2>3 DEF work, SummaryInv, ChannelsHold
    <2>5. EndHolds'
      BY <1>1, <1>2, <1>6 DEF work, SummaryInv, ChannelsHold, EndHolds
    <2>. QED
      BY <1>3, <1>4, <1>5, <2>4, <2>5 DEF SummaryInv
  <1>7. CASE at' = "idle"
    BY <1>3, <1>4, <1>5, <1>7 DEF SummaryInv, ChannelsHold, EndHolds
  <1>. QED
    BY <1>2, <1>6, <1>7

LEMMA SummaryStutter ==
    ASSUME SummaryInv, UNCHANGED summaryVars
    PROVE  SummaryInv'
  <1> USE DEF summaryVars, work
  <1>1. SummaryTypeOK' /\ ChannelHeld' /\ EndHolds'
    BY DEF SummaryInv, SummaryTypeOK, ChannelHeld, EndHolds, OnChannel
  <1>2. PagesHold' /\ NothingLeftOut' /\ ChunksFit'
    BY SamePages
  <1>3. ChannelsHold'
    BY SameChannels
  <1>. QED
    BY <1>1, <1>2, <1>3 DEF SummaryInv

LEMMA SummaryNextHolds == SummaryInv /\ [SummaryNext]_summaryVars => SummaryInv'
  <1> SUFFICES ASSUME SummaryInv, [SummaryNext]_summaryVars PROVE SummaryInv'
    OBVIOUS
  <1>1. CASE ListPage
    BY <1>1, ListPageHolds
  <1>2. CASE ListDone
    BY <1>2, ListDoneHolds
  <1>3. CASE FetchPage
    BY <1>3, FetchPageHolds
  <1>4. CASE Expand
    BY <1>4, ExpandHolds
  <1>5. CASE SummarizeChunk
    BY <1>5, SummarizeChunkHolds
  <1>6. CASE Reduce
    BY <1>6, ReduceHolds
  <1>7. CASE NextChannel
    BY <1>7, NextChannelHolds
  <1>8. CASE SummarizePersonal \/ Answer \/ AnswerFails
    BY <1>8, EndSteps
  <1>9. ASSUME NEW r \in Reasons, FetchFails(r) \/ ModelFails(r) PROVE SummaryInv'
    BY <1>9, FetchFailsHolds, ModelFailsHolds
  <1>10. ASSUME NEW s \in Scopes, NEW n \in Asked, Command(s, n) PROVE SummaryInv'
    BY <1>10, CommandHolds
  <1>11. ASSUME NEW b \in buttons, Press(b[1], b[2]) PROVE SummaryInv'
    BY <1>11, PressHolds
  <1>12. CASE UNCHANGED summaryVars
    BY <1>12, SummaryStutter
  <1>. QED
    BY <1>1, <1>2, <1>3, <1>4, <1>5, <1>6, <1>7, <1>8, <1>9, <1>10, <1>11, <1>12
       DEF SummaryNext, Working

LEMMA SummaryAlways == SummarySpec => []SummaryInv
  BY SummaryInitHolds, SummaryNextHolds, PTL DEF SummarySpec

-----------------------------------------------------------------------------
(* Summary: what follows                                                    *)

\* The thread of a request keeps its types: no page takes more messages than
\* may be kept, and no more calls are made than there are chunks
\* (handlers/commands/summary.py and core of the summary service).
THEOREM SummaryTypeCorrect == SummarySpec => []SummaryTypeOK
  <1>1. SummaryInv => SummaryTypeOK
    BY DEF SummaryInv
  <1>. QED
    BY <1>1, SummaryAlways, PTL

\* However long the lines are, chunk_messages gives the model no chunk above the
\* budget, but for the rounding of its estimate of the tokens.
THEOREM ChunksAlwaysFit == SummarySpec => []ChunksFit
  <1>1. SummaryInv => ChunksFit
    BY DEF SummaryInv
  <1>. QED
    BY <1>1, SummaryAlways, PTL

\* Between the history of a channel and the calls of the model no message is
\* lost or moved: the pages, the threads put below their roots and the chunks
\* keep the newest messages, all of them, in their order.
THEOREM NothingIsLeftOut == SummarySpec => []NothingLeftOut
  <1>1. SummaryInv => NothingLeftOut
    BY DEF SummaryInv
  <1>. QED
    BY <1>1, SummaryAlways, PTL

\* When a request over all channels is answered, each listed channel has its
\* summary, or is counted under exactly one reason, or had nothing to say; and
\* what the request is called agrees with them.
THEOREM ChannelsAccounted == SummarySpec => []Accounted
  <1>1. ASSUME SummaryInv, at = "answering", scope = "all"
        PROVE  \A c \in ToSet(listed) : Settled(c)
    <2>1. left = <<>> /\ \A c \in ToSet(listed) \ Coming : Settled(c)
      BY <1>1 DEF SummaryInv, ChannelsHold
    <2>2. Coming = {}
      BY <1>1, <2>1 DEF Coming, ToSet
    <2>. QED
      BY <2>1, <2>2
  <1>2. SummaryInv => Accounted
    BY <1>1 DEF SummaryInv, EndHolds, Accounted, Settled, Counted
  <1>. QED
    BY <1>2, SummaryAlways, PTL

===============================================================================
