---------------------- MODULE ChallengeSubmission_proofs ----------------------
(***************************************************************************)
(* Theorems about ChallengeSubmission, for any number of challenges, users *)
(* and concurrent requests and any set of faults.                          *)
(***************************************************************************)
EXTENDS ChallengeSubmission, TLAPS

-----------------------------------------------------------------------------
(* The locals a handler holds, by what it is doing.                         *)

LEMMA SubLocals ==
    ASSUME NEW t \in Sub
    PROVE  /\ t.at # "idle" => t.ch \in Challenges
           /\ t.at \in {"track", "opener"} => t.who \in Users
           /\ t.at \in {"opener", "surrender"} => t.seen \in Meta
           /\ t.at = "clear" => t.next \in {"idle", "create", "close"}
  BY DEF Sub

\* Every record a handler moves to is one of Sub.
LEMMA SubRecords ==
    ASSUME NEW c \in Challenges
    PROVE  /\ SubIdle \in Sub
           /\ \A at \in {"offer", "accept", "create", "store", "swap", "hand", "close"} :
                [at |-> at, ch |-> c] \in Sub
           /\ \A u \in Users : [at |-> "track", ch |-> c, who |-> u] \in Sub
           /\ \A n \in {"idle", "create", "close"} :
                [at |-> "clear", ch |-> c, next |-> n] \in Sub
           /\ \A n \in {"idle", "create", "close"} : After(n, c) \in Sub
           /\ \A m \in Meta : [at |-> "surrender", ch |-> c, seen |-> m] \in Sub
           /\ \A m \in Meta, u \in Users :
                [at |-> "opener", ch |-> c, who |-> u, seen |-> m] \in Sub
  BY DEF Sub, SubIdle, After

-----------------------------------------------------------------------------
(* Type correctness                                                         *)

LEMMA InitTyped == Init => TypeOK
  BY DEF Init, SubInit, TypeOK, StoreTypeOK, SubTypeOK, Status, Meta, Sub, SubIdle,
         Deadline, DlIdle

LEMMA OfferingTyped ==
    ASSUME TypeOK, NEW h \in Handlers, Offering(h)
    PROVE  TypeOK'
  <1> USE DEF TypeOK, StoreTypeOK, SubTypeOK, storeVars, dbVars, regVars, Goto
  <1>0. sub[h] \in Sub
    OBVIOUS
  <1>1. CASE OfferSubmission(h)
    BY <1>0, <1>1, SubLocals, SubRecords DEF OfferSubmission
  <1>2. CASE ReadOpener(h)
    <2>1. sub[h].ch \in Challenges /\ sub[h].who \in Users /\ meta[sub[h].ch] \in Meta
      BY <1>0, <1>2, SubLocals DEF ReadOpener
    <2>2. /\ SubIdle \in Sub
          /\ [at |-> "opener", ch |-> sub[h].ch, who |-> sub[h].who, seen |-> meta[sub[h].ch]] \in Sub
      BY <2>1, SubRecords
    <2>3. sub' \in [Handlers -> Sub]
      BY <1>2, <2>2 DEF ReadOpener
    <2>. QED
      BY <1>2, <2>3 DEF ReadOpener
  <1>3. CASE WriteOpener(h)
    <2>1. sub[h].ch \in Challenges /\ sub[h].who \in Users /\ sub[h].seen \in Meta
      BY <1>0, <1>3, SubLocals DEF WriteOpener
    <2>2. [sub[h].seen EXCEPT !.opener = {sub[h].who}] \in Meta
      BY <2>1 DEF Meta
    <2>3. SubIdle \in Sub
      BY <2>1, SubRecords
    <2>. QED
      BY <1>3, <2>1, <2>2, <2>3 DEF WriteOpener
  <1>4. ASSUME NEW c \in Challenges, FindStarted(h, c) PROVE TypeOK'
    BY <1>4, SubRecords DEF FindStarted
  <1>5. ASSUME NEW u \in Users, NEW c \in Challenges, OpenSubmissionForm(h, u, c)
        PROVE  TypeOK'
    BY <1>5, SubRecords DEF OpenSubmissionForm
  <1>. QED
    BY <1>1, <1>2, <1>3, <1>4, <1>5 DEF Offering

LEMMA DeliveringTyped ==
    ASSUME TypeOK, NEW h \in Handlers, Delivering(h) \/ HandOver(h)
    PROVE  TypeOK'
  <1> USE DEF TypeOK, StoreTypeOK, SubTypeOK, storeVars, dbVars, regVars, Goto
  <1>0. sub[h] \in Sub
    OBVIOUS
  <1>1. CASE AcceptSubmission(h)
    <2>1. sub[h].ch \in Challenges
      BY <1>0, <1>1, SubLocals DEF AcceptSubmission
    <2>2. [meta[sub[h].ch] EXCEPT !.has = @ \cup {"submission"}] \in Meta
      BY <2>1 DEF Meta
    <2>3. meta' \in [Challenges -> Meta]
      BY <1>1, <2>1, <2>2 DEF AcceptSubmission
    <2>. QED
      BY <1>1, <2>1, <2>3, SubRecords DEF AcceptSubmission, Status
  <1>2. CASE RejectSubmission(h)
    BY <1>0, <1>2, SubLocals, SubRecords DEF RejectSubmission
  <1>3. CASE ClearWindow(h)
    BY <1>0, <1>3, SubLocals, SubRecords DEF ClearWindow
  <1>4. CASE CreateChannel(h)
    BY <1>0, <1>4, SubLocals, SubRecords DEF CreateChannel
  <1>5. CASE StoreChannel(h)
    BY <1>0, <1>5, SubLocals, SubRecords DEF StoreChannel
  <1>6. CASE SwapRegistration(h)
    BY <1>0, <1>6, SubLocals, SubRecords
       DEF SwapRegistration, UnregisterChallenge, RegisterEvaluation
  <1>7. CASE HandOver(h)
    BY <1>0, <1>7, SubLocals, SubRecords DEF HandOver
  <1>8. ASSUME NEW c \in Challenges, SubmitProject(h, c) PROVE TypeOK'
    BY <1>8, SubRecords DEF SubmitProject
  <1>. QED
    BY <1>1, <1>2, <1>3, <1>4, <1>5, <1>6, <1>7, <1>8 DEF Delivering

LEMMA SurrenderingTyped ==
    ASSUME TypeOK, NEW h \in Handlers,
           Surrendering(h) \/ SubmissionFails(h) \/ ThreadGone(h)
    PROVE  TypeOK'
  <1> USE DEF TypeOK, StoreTypeOK, SubTypeOK, storeVars, dbVars, regVars, Goto
  <1>0. sub[h] \in Sub
    OBVIOUS
  <1>1. CASE WriteSurrender(h)
    <2>1. sub[h].ch \in Challenges /\ sub[h].seen \in Meta
      BY <1>0, <1>1, SubLocals DEF WriteSurrender
    <2>2. [sub[h].seen EXCEPT !.has = @ \cup {"surrender"}] \in Meta
      BY <2>1 DEF Meta
    <2>3. meta' \in [Challenges -> Meta]
      BY <1>1, <2>1, <2>2 DEF WriteSurrender
    <2>. QED
      BY <1>1, <2>1, <2>3, SubRecords DEF WriteSurrender, Status
  <1>2. CASE CloseChannel(h)
    BY <1>0, <1>2, SubLocals, SubRecords DEF CloseChannel, UnregisterChallenge
  <1>3. ASSUME NEW c \in Challenges, PressSurrender(h, c) PROVE TypeOK'
    <2>1. /\ [at |-> "surrender", ch |-> c, seen |-> meta[c]] \in Sub
          /\ [at |-> "clear", ch |-> c, next |-> "idle"] \in Sub
      BY SubRecords
    <2>2. sub' \in [Handlers -> Sub]
      BY <1>3, <2>1 DEF PressSurrender
    <2>. QED
      BY <1>3, <2>2 DEF PressSurrender
  <1>4. CASE SubmissionFails(h) \/ ThreadGone(h)
    BY <1>0, <1>4, SubLocals, SubRecords DEF SubmissionFails, ThreadGone
  <1>. QED
    BY <1>1, <1>2, <1>3, <1>4 DEF Surrendering

LEMMA OtherStepsTyped ==
    TypeOK /\ (Expiring \/ Passing \/ Restart) => TypeOK'
  <1> SUFFICES ASSUME TypeOK, Expiring \/ Passing \/ Restart PROVE TypeOK'
    OBVIOUS
  <1> USE DEF TypeOK, StoreTypeOK, SubTypeOK, storeVars, dbVars, regVars
  <1>1. CASE StartDeadlinePass
    BY <1>1, TypedAssumption DEF StartDeadlinePass, Deadline
  <1>2. CASE CommitDeadlinePass
    BY <1>2 DEF CommitDeadlinePass, Deadline, DlIdle, Status
  <1>3. CASE DeadlinePassFails
    BY <1>3 DEF DeadlinePassFails, Deadline, DlIdle
  <1>4. ASSUME NEW c \in Challenges, ExpireChallenge(c) PROVE TypeOK'
    BY <1>4 DEF ExpireChallenge, UnregisterChallenge, Deadline
  <1>5. CASE Passing
    BY <1>5 DEF Passing, WindowExpires, BecomeOverdue
  <1>6. CASE Restart
    <2>1. SubIdle \in Sub /\ DlIdle \in Deadline
      BY DEF Sub, SubIdle, DlIdle, Deadline
    <2>2. RestoredEvaluations \subseteq Challenges /\ RestoredChallenges \subseteq Challenges
      BY DEF RestoredEvaluations, RestoredChallenges
    <2>. QED
      BY <1>6, <2>1, <2>2 DEF Restart, SubRestart, RebuildRegistry
  <1>. QED
    BY <1>1, <1>2, <1>3, <1>4, <1>5, <1>6 DEF Expiring

LEMMA NextTyped == TypeOK /\ [Next]_vars => TypeOK'
  <1> SUFFICES ASSUME TypeOK, [Next]_vars PROVE TypeOK'
    OBVIOUS
  <1>1. CASE UNCHANGED vars
    BY <1>1 DEF vars, subVars, storeVars, dbVars, regVars, TypeOK, StoreTypeOK, SubTypeOK
  <1>2. CASE Next
    BY <1>2, OfferingTyped, DeliveringTyped, SurrenderingTyped, OtherStepsTyped
       DEF Next, SubStep
  <1>. QED
    BY <1>1, <1>2

\* Every variable has its type in every reachable state.
THEOREM TypeCorrect == Spec => []TypeOK
  BY InitTyped, NextTyped, PTL DEF Spec

-----------------------------------------------------------------------------
(* The inductive invariant: a challenge that has an evaluation channel, or  *)
(* is about to get one, has left STARTED for good; what no handler can take *)
(* twice is the step out of STARTED, and that makes its opener the only one. *)

OpeningKnown ==
    \A c \in Challenges : \A h \in Handlers :
        Opening(h, c) => status[c] # "STARTED" /\ c \notin ech

OpeningUnique ==
    \A c \in Challenges : \A h, g \in Handlers :
        Opening(h, c) /\ Opening(g, c) => g = h

EvaluatedLeft == \A c \in ech : status[c] # "STARTED"

IInv == OpeningKnown /\ OpeningUnique /\ EvaluatedLeft

LEMMA InitIInv == Init => IInv
  BY DEF Init, SubInit, IInv, OpeningKnown, OpeningUnique, EvaluatedLeft, Opening, SubIdle

\* A step that changes neither a status to STARTED nor the evaluation channels,
\* and lets no handler begin to open one.
LEMMA QuietKeeps ==
    ASSUME IInv, ech' = ech,
           \A c \in Challenges : status'[c] = "STARTED" => status[c] = "STARTED",
           ech \subseteq Challenges,
           \A c \in Challenges, h \in Handlers : Opening(h, c)' => Opening(h, c)
    PROVE  IInv'
  BY DEF IInv, OpeningKnown, OpeningUnique, EvaluatedLeft

\* The openers are the same when one handler goes to a step that is none.
LEMMA GotoKeeps ==
    ASSUME NEW h \in Handlers,
           \A g \in Handlers \ {h} : sub'[g] = sub[g],
           \A c \in Challenges : Opening(h, c)' => Opening(h, c)
    PROVE  \A c \in Challenges, g \in Handlers : Opening(g, c)' => Opening(g, c)
  <1> SUFFICES ASSUME NEW c \in Challenges, NEW g \in Handlers, Opening(g, c)'
               PROVE  Opening(g, c)
    OBVIOUS
  <1>1. CASE g = h
    BY <1>1
  <1>2. CASE g # h
    BY <1>2 DEF Opening
  <1>. QED
    BY <1>1, <1>2

LEMMA OfferingKeeps ==
    ASSUME TypeOK, IInv, NEW h \in Handlers, Offering(h)
    PROVE  IInv'
  <1>1. UNCHANGED <<status, ech>> /\ ech \subseteq Challenges
    BY DEF Offering, OfferSubmission, ReadOpener, WriteOpener, FindStarted,
           OpenSubmissionForm, storeVars, dbVars, TypeOK, StoreTypeOK
  <1>2. /\ \A g \in Handlers \ {h} : sub'[g] = sub[g]
        /\ sub'[h].at \in {"idle", "offer", "track", "opener"}
    BY DEF Offering, OfferSubmission, ReadOpener, WriteOpener, FindStarted,
           OpenSubmissionForm, SubIdle, Goto, TypeOK, SubTypeOK
  <1>3. \A c \in Challenges : ~ Opening(h, c)'
    BY <1>2 DEF Opening
  <1>4. \A c \in Challenges, g \in Handlers : Opening(g, c)' => Opening(g, c)
    BY <1>2, <1>3, GotoKeeps
  <1>. QED
    BY <1>1, <1>4, QuietKeeps

\* The steps of a delivery that neither take the challenge nor store its channel.
LEMMA DeliveringKeeps ==
    ASSUME TypeOK, IInv, NEW h \in Handlers,
           \/ RejectSubmission(h) \/ ClearWindow(h) \/ CreateChannel(h)
           \/ SwapRegistration(h) \/ HandOver(h)
           \/ \E c \in Challenges : SubmitProject(h, c)
    PROVE  IInv'
  <1>1. UNCHANGED <<status, ech>> /\ ech \subseteq Challenges
    BY DEF RejectSubmission, ClearWindow, CreateChannel, SwapRegistration, HandOver,
           SubmitProject, storeVars, dbVars, TypeOK, StoreTypeOK
  <1>2. \A g \in Handlers \ {h} : sub'[g] = sub[g]
    BY DEF RejectSubmission, ClearWindow, CreateChannel, SwapRegistration, HandOver,
           SubmitProject, Goto, TypeOK, SubTypeOK
  <1>3. ASSUME NEW c \in Challenges, Opening(h, c)' PROVE Opening(h, c)
    <2> USE DEF Goto, TypeOK, SubTypeOK, Opening
    <2>1. CASE RejectSubmission(h)
      BY <1>3, <2>1 DEF RejectSubmission
    <2>2. CASE ClearWindow(h)
      <3>1. sub[h].next \in {"idle", "create", "close"}
        BY <2>2, SubLocals DEF ClearWindow
      <3>. QED
        BY <1>3, <2>2, <3>1 DEF ClearWindow, After, SubIdle
    <2>3. CASE CreateChannel(h)
      BY <1>3, <2>3 DEF CreateChannel, SubIdle
    <2>4. CASE SwapRegistration(h) \/ HandOver(h)
      BY <1>3, <2>4 DEF SwapRegistration, HandOver, SubIdle
    <2>5. CASE \E d \in Challenges : SubmitProject(h, d)
      BY <1>3, <2>5 DEF SubmitProject
    <2>. QED
      BY <2>1, <2>2, <2>3, <2>4, <2>5
  <1>4. \A c \in Challenges, g \in Handlers : Opening(g, c)' => Opening(g, c)
    BY <1>2, <1>3, GotoKeeps
  <1>. QED
    BY <1>1, <1>4, QuietKeeps

LEMMA SurrenderingKeeps ==
    ASSUME TypeOK, IInv, NEW h \in Handlers,
           Surrendering(h) \/ SubmissionFails(h) \/ ThreadGone(h)
    PROVE  IInv'
  <1>1. /\ UNCHANGED ech /\ ech \subseteq Challenges
        /\ \A c \in Challenges : status'[c] = "STARTED" => status[c] = "STARTED"
    BY DEF Surrendering, WriteSurrender, CloseChannel, PressSurrender, SubmissionFails,
           ThreadGone, storeVars, dbVars, TypeOK, StoreTypeOK
  <1>2. \A g \in Handlers \ {h} : sub'[g] = sub[g]
    BY DEF Surrendering, WriteSurrender, CloseChannel, PressSurrender, SubmissionFails,
           ThreadGone, Goto, TypeOK, SubTypeOK
  <1>3. /\ sub'[h].at \in {"idle", "surrender", "clear"}
        /\ sub'[h].at = "clear" => sub'[h].next \in {"idle", "close"}
    <2> USE DEF Goto, TypeOK, SubTypeOK, SubIdle
    <2>1. CASE WriteSurrender(h)
      BY <2>1 DEF WriteSurrender
    <2>2. CASE CloseChannel(h) \/ SubmissionFails(h) \/ ThreadGone(h)
      BY <2>2 DEF CloseChannel, SubmissionFails, ThreadGone
    <2>3. CASE \E c \in Challenges : PressSurrender(h, c)
      BY <2>3 DEF PressSurrender
    <2>. QED
      BY <2>1, <2>2, <2>3 DEF Surrendering
  <1>4. \A c \in Challenges : ~ Opening(h, c)'
    BY <1>3 DEF Opening
  <1>5. \A c \in Challenges, g \in Handlers : Opening(g, c)' => Opening(g, c)
    BY <1>2, <1>4, GotoKeeps
  <1>. QED
    BY <1>1, <1>5, QuietKeeps

\* Nobody was opening a channel for a challenge that was still STARTED.
LEMMA AcceptKeeps ==
    ASSUME TypeOK, IInv, NEW h \in Handlers, AcceptSubmission(h)
    PROVE  IInv'
  <1> DEFINE d == sub[h].ch
  <1>1. /\ sub[h].at = "accept" /\ status[d] = "STARTED" /\ d \in Challenges
        /\ status' = [status EXCEPT ![d] = "COMPLETED"]
        /\ ech' = ech /\ ech \subseteq Challenges
        /\ sub' = [sub EXCEPT ![h] = [at |-> "clear", ch |-> d, next |-> "create"]]
        /\ sub[h] \in Sub
    BY SubLocals DEF AcceptSubmission, Goto, TypeOK, StoreTypeOK, SubTypeOK
  <1>2. \A g \in Handlers : ~ Opening(g, d)
    BY <1>1 DEF IInv, OpeningKnown
  <1>3. d \notin ech
    BY <1>1 DEF IInv, EvaluatedLeft
  <1>4. status' \in [Challenges -> Status] /\ status'[d] = "COMPLETED"
        /\ \A c \in Challenges : c # d => status'[c] = status[c]
    BY <1>1 DEF TypeOK, StoreTypeOK, Status
  <1>5. \A c \in Challenges, g \in Handlers :
            Opening(g, c)' => (g = h /\ c = d) \/ (Opening(g, c) /\ c # d)
    <2> SUFFICES ASSUME NEW c \in Challenges, NEW g \in Handlers, Opening(g, c)'
                 PROVE  (g = h /\ c = d) \/ (Opening(g, c) /\ c # d)
      OBVIOUS
    <2>1. CASE g = h
      BY <1>1, <2>1 DEF Opening, TypeOK, SubTypeOK
    <2>2. CASE g # h
      BY <1>1, <1>2, <2>2 DEF Opening, TypeOK, SubTypeOK
    <2>. QED
      BY <2>1, <2>2
  <1>6. OpeningKnown'
    BY <1>1, <1>3, <1>4, <1>5 DEF IInv, OpeningKnown
  <1>7. OpeningUnique'
    BY <1>5 DEF IInv, OpeningUnique
  <1>8. EvaluatedLeft'
    BY <1>1, <1>4 DEF IInv, EvaluatedLeft
  <1>. QED
    BY <1>6, <1>7, <1>8 DEF IInv

\* The only opener stores the channel and is an opener no more.
LEMMA StoreKeeps ==
    ASSUME TypeOK, IInv, NEW h \in Handlers, StoreChannel(h)
    PROVE  IInv'
  <1>0. PICK d \in Challenges : sub[h].ch = d
    BY SubLocals DEF StoreChannel, TypeOK, SubTypeOK
  <1>1. /\ sub[h].at = "store"
        /\ ech' = ech \cup {d} /\ status' = status
        /\ Goto(h, [at |-> "swap", ch |-> d])
    BY <1>0 DEF StoreChannel, TypeOK, StoreTypeOK, SubTypeOK
  <1>2. Opening(h, d) /\ status[d] # "STARTED"
    BY <1>0, <1>1 DEF Opening, IInv, OpeningKnown
  <1>2a. /\ \A g \in Handlers \ {h} : sub'[g] = sub[g]
        /\ sub'[h].at = "swap"
    BY <1>1 DEF Goto, TypeOK, SubTypeOK
  <1>2b. \A c \in Challenges : ~ Opening(h, c)'
    BY <1>2a DEF Opening
  <1>3. \A c \in Challenges, g \in Handlers : Opening(g, c)' => Opening(g, c)
    BY <1>2a, <1>2b, GotoKeeps
  <1>4. \A g \in Handlers : ~ Opening(g, d)'
    BY <1>2b, <1>2, <1>3 DEF IInv, OpeningUnique
  <1>5. OpeningKnown'
    BY <1>1, <1>3, <1>4 DEF IInv, OpeningKnown
  <1>6. OpeningUnique'
    BY <1>3 DEF IInv, OpeningUnique
  <1>7. EvaluatedLeft'
    BY <1>1, <1>2 DEF IInv, EvaluatedLeft
  <1>. QED
    BY <1>5, <1>6, <1>7 DEF IInv

LEMMA OtherStepsKeep ==
    ASSUME TypeOK, IInv, Expiring \/ Passing \/ Restart \/ UNCHANGED vars
    PROVE  IInv'
  <1>1. /\ UNCHANGED ech /\ ech \subseteq Challenges
        /\ \A c \in Challenges : status'[c] = "STARTED" => status[c] = "STARTED"
    BY DEF Expiring, StartDeadlinePass, CommitDeadlinePass, DeadlinePassFails,
           ExpireChallenge, Passing, WindowExpires, BecomeOverdue, Restart, vars,
           storeVars, dbVars, TypeOK, StoreTypeOK
  <1>2. \/ UNCHANGED sub
        \/ sub' = [h \in Handlers |-> SubIdle]
    BY DEF Expiring, StartDeadlinePass, CommitDeadlinePass, DeadlinePassFails,
           ExpireChallenge, Passing, WindowExpires, BecomeOverdue, Restart, SubRestart,
           vars, subVars
  <1>3. \A c \in Challenges, g \in Handlers : Opening(g, c)' => Opening(g, c)
    BY <1>2 DEF Opening, SubIdle
  <1>. QED
    BY <1>1, <1>3, QuietKeeps

LEMMA NextKeeps == TypeOK /\ IInv /\ [Next]_vars => IInv'
  <1> SUFFICES ASSUME TypeOK, IInv, [Next]_vars PROVE IInv'
    OBVIOUS
  <1>1. ASSUME NEW h \in Handlers, Delivering(h) PROVE IInv'
    BY <1>1, AcceptKeeps, StoreKeeps, DeliveringKeeps DEF Delivering
  <1>2. ASSUME NEW h \in Handlers,
               \/ Offering(h) \/ Surrendering(h) \/ SubmissionFails(h) \/ ThreadGone(h)
               \/ HandOver(h)
        PROVE  IInv'
    BY <1>2, OfferingKeeps, DeliveringKeeps, SurrenderingKeeps
  <1>. QED
    BY <1>1, <1>2, OtherStepsKeep DEF Next, SubStep

\* The invariant holds in every reachable state.
THEOREM Invariant == Spec => [](TypeOK /\ IInv)
  BY InitTyped, InitIInv, NextTyped, NextKeeps, PTL DEF Spec

-----------------------------------------------------------------------------
(* What follows from it                                                     *)

\* However many submissions of a challenge run at once, and whatever fails
\* around them, at most one goes on to open its evaluation channel.
THEOREM OneChannel == Spec => []OneEvaluationChannel
  <1>1. IInv => OneEvaluationChannel
    BY DEF IInv, OpeningKnown, OpeningUnique, OneEvaluationChannel
  <1>. QED
    BY <1>1, Invariant, PTL

\* How a status can change in one step.
LEMMA ClosedStep ==
    ASSUME TypeOK, [Next]_vars, NEW c \in Challenges, status[c] = "NOT_COMPLETED"
    PROVE  status'[c] = "NOT_COMPLETED"
  <1>1. ASSUME NEW h \in Handlers, Delivering(h) PROVE status'[c] = "NOT_COMPLETED"
    BY <1>1 DEF Delivering, AcceptSubmission, RejectSubmission, ClearWindow,
                CreateChannel, StoreChannel, SwapRegistration, SubmitProject,
                storeVars, dbVars, TypeOK, StoreTypeOK
  <1>2. ASSUME NEW h \in Handlers, Surrendering(h) PROVE status'[c] = "NOT_COMPLETED"
    BY <1>2 DEF Surrendering, WriteSurrender, CloseChannel, PressSurrender,
                storeVars, dbVars, TypeOK, StoreTypeOK
  <1>3. ASSUME NEW h \in Handlers,
               Offering(h) \/ SubmissionFails(h) \/ ThreadGone(h) \/ HandOver(h)
        PROVE  status'[c] = "NOT_COMPLETED"
    BY <1>3 DEF Offering, OfferSubmission, ReadOpener, WriteOpener, FindStarted,
                OpenSubmissionForm, SubmissionFails, ThreadGone, HandOver,
                storeVars, dbVars
  <1>4. CASE Expiring
    BY <1>4 DEF Expiring, StartDeadlinePass, CommitDeadlinePass, DeadlinePassFails,
                ExpireChallenge, storeVars, dbVars, TypeOK, StoreTypeOK
  <1>5. CASE Passing \/ Restart \/ UNCHANGED vars
    BY <1>5 DEF Passing, WindowExpires, BecomeOverdue, Restart, vars, storeVars, dbVars
  <1>. QED
    BY <1>1, <1>2, <1>3, <1>4, <1>5 DEF Next, SubStep

\* A challenge that was given up or has expired is never delivered afterwards.
THEOREM ClosedForGood == Spec => ClosedStaysClosed
  <1>1. TypeOK /\ [Next]_vars
          => [\A c \in Challenges :
                 status[c] = "NOT_COMPLETED" => status'[c] = "NOT_COMPLETED"]_vars
    BY ClosedStep
  <1>. QED
    BY <1>1, TypeCorrect, PTL DEF Spec, ClosedStaysClosed

-----------------------------------------------------------------------------
(* What a step of the submission does to the rows                           *)

LEMMA RowsMove ==
    ASSUME TypeOK, SubStep, NEW c \in Challenges
    PROVE  /\ UNCHANGED <<jury, scored>>
           /\ cch' \subseteq cch
           /\ \/ status'[c] = status[c] /\ (c \in ech => c \in ech')
              \/ /\ status[c] = "STARTED" /\ status'[c] = "COMPLETED"
                 /\ (c \in ech' <=> c \in ech)
              \/ status'[c] = "NOT_COMPLETED" /\ (c \in ech' <=> c \in ech)
  <1> USE DEF TypeOK, StoreTypeOK
  <1>1. ASSUME NEW h \in Handlers, AcceptSubmission(h) \/ StoreChannel(h) \/ WriteSurrender(h)
        PROVE  /\ UNCHANGED <<jury, scored>>
               /\ cch' \subseteq cch
               /\ \/ status'[c] = status[c] /\ (c \in ech => c \in ech')
                  \/ /\ status[c] = "STARTED" /\ status'[c] = "COMPLETED"
                     /\ (c \in ech' <=> c \in ech)
                  \/ status'[c] = "NOT_COMPLETED" /\ (c \in ech' <=> c \in ech)
    BY <1>1 DEF AcceptSubmission, StoreChannel, WriteSurrender
  <1>2. CASE CommitDeadlinePass
    BY <1>2 DEF CommitDeadlinePass
  <1>3. CASE UNCHANGED dbVars
    BY <1>3 DEF dbVars
  <1>4. Passing => UNCHANGED dbVars
    BY DEF Passing, WindowExpires, BecomeOverdue, storeVars
  <1>5. Expiring => CommitDeadlinePass \/ UNCHANGED dbVars
    BY DEF Expiring, StartDeadlinePass, DeadlinePassFails, ExpireChallenge, storeVars
  <1>6. \A h \in Handlers :
           Offering(h) \/ SubmissionFails(h) \/ ThreadGone(h) => UNCHANGED dbVars
    BY DEF Offering, OfferSubmission, ReadOpener, WriteOpener, FindStarted,
           OpenSubmissionForm, SubmissionFails, ThreadGone, storeVars
  <1>7. \A h \in Handlers :
           Delivering(h) => AcceptSubmission(h) \/ StoreChannel(h) \/ UNCHANGED dbVars
    BY DEF Delivering, RejectSubmission, ClearWindow, CreateChannel, SwapRegistration,
           SubmitProject, storeVars
  <1>8. \A h \in Handlers : Surrendering(h) => WriteSurrender(h) \/ UNCHANGED dbVars
    BY DEF Surrendering, CloseChannel, PressSurrender, storeVars
  <1>. QED
    BY <1>1, <1>2, <1>3, <1>4, <1>5, <1>6, <1>7, <1>8 DEF SubStep

\* A handler that registers the evaluation channel of c.
Swapping(h, c) == sub[h].at = "swap" /\ sub[h].ch = c

\* Where a handler goes from storing the channel on.
LEMMA HandlersMove ==
    ASSUME TypeOK, SubStep, NEW g \in Handlers
    PROVE  \/ sub'[g] = sub[g]
           \/ sub'[g].at \notin {"swap", "hand"} /\ sub[g].at # "swap"
           \/ /\ sub[g].at = "store" /\ sub'[g] = [at |-> "swap", ch |-> sub[g].ch]
              /\ sub[g].ch \in ech'
           \/ /\ sub[g].at = "swap" /\ sub'[g] = [at |-> "hand", ch |-> sub[g].ch]
              /\ sub[g].ch \in evReg'
  <1> DEFINE Moved ==
           \/ sub'[g] = sub[g]
           \/ sub'[g].at \notin {"swap", "hand"} /\ sub[g].at # "swap"
           \/ /\ sub[g].at = "store" /\ sub'[g] = [at |-> "swap", ch |-> sub[g].ch]
              /\ sub[g].ch \in ech'
           \/ /\ sub[g].at = "swap" /\ sub'[g] = [at |-> "hand", ch |-> sub[g].ch]
              /\ sub[g].ch \in evReg'
  <1> SUFFICES Moved
    OBVIOUS
  <1> USE DEF TypeOK, SubTypeOK, Goto
  <1>1. Passing \/ Expiring => UNCHANGED sub
    BY DEF Passing, WindowExpires, BecomeOverdue, Expiring, StartDeadlinePass,
           CommitDeadlinePass, DeadlinePassFails, ExpireChallenge
  <1>2. ASSUME NEW h \in Handlers, Offering(h) PROVE Moved
    BY <1>2 DEF Offering, OfferSubmission, ReadOpener, WriteOpener, FindStarted,
                OpenSubmissionForm, SubIdle
  <1>3. ASSUME NEW h \in Handlers, Surrendering(h) \/ SubmissionFails(h) \/ ThreadGone(h)
        PROVE  Moved
    BY <1>3 DEF Surrendering, WriteSurrender, CloseChannel, PressSurrender,
                SubmissionFails, ThreadGone, SubIdle
  <1>4. ASSUME NEW h \in Handlers, AcceptSubmission(h) \/ RejectSubmission(h)
                                   \/ CreateChannel(h) \/ \E c \in Challenges : SubmitProject(h, c)
        PROVE  Moved
    BY <1>4 DEF AcceptSubmission, RejectSubmission, CreateChannel, SubmitProject, SubIdle
  <1>5. ASSUME NEW h \in Handlers, ClearWindow(h) PROVE Moved
    <2>1. sub[h].next \in {"idle", "create", "close"}
      BY <1>5, SubLocals DEF ClearWindow
    <2>2. After(sub[h].next, sub[h].ch).at \notin {"swap", "hand"}
      BY <2>1 DEF After, SubIdle
    <2>. QED
      BY <1>5, <2>2 DEF ClearWindow
  <1>6. ASSUME NEW h \in Handlers, StoreChannel(h) PROVE Moved
    BY <1>6 DEF StoreChannel
  <1>7. ASSUME NEW h \in Handlers, SwapRegistration(h) PROVE Moved
    BY <1>7 DEF SwapRegistration, RegisterEvaluation
  <1> HIDE DEF Moved
  <1>8. CASE \E h \in Handlers : Offering(h) \/ Delivering(h) \/ Surrendering(h)
                                 \/ SubmissionFails(h) \/ ThreadGone(h)
    BY <1>2, <1>3, <1>4, <1>5, <1>6, <1>7, <1>8 DEF Delivering
  <1>9. UNCHANGED sub => Moved
    BY DEF Moved
  <1>. QED
    BY <1>1, <1>8, <1>9 DEF SubStep

\* A handler that is about to hand over does, while no session and no thread
\* fails.
LEMMA HandStays ==
    ASSUME TypeOK, SubStep, Faults \cap {"db", "timeout"} = {},
           NEW g \in Handlers, sub[g].at = "hand"
    PROVE  sub'[g] = sub[g]
  <1>1. ASSUME NEW h \in Handlers, sub[h].at # "hand", NEW t, Goto(h, t) PROVE sub'[g] = sub[g]
    BY <1>1 DEF Goto, TypeOK, SubTypeOK
  <1>2. SubIdle.at # "hand"
    BY DEF SubIdle
  <1>3. ASSUME NEW h \in Handlers, Offering(h) PROVE sub'[g] = sub[g]
    BY <1>1, <1>2, <1>3 DEF Offering, OfferSubmission, ReadOpener, WriteOpener, FindStarted,
                            OpenSubmissionForm
  <1>4. ASSUME NEW h \in Handlers, Delivering(h) PROVE sub'[g] = sub[g]
    BY <1>1, <1>2, <1>4 DEF Delivering, AcceptSubmission, RejectSubmission, ClearWindow,
                            CreateChannel, StoreChannel, SwapRegistration, SubmitProject
  <1>5. ASSUME NEW h \in Handlers, Surrendering(h) PROVE sub'[g] = sub[g]
    BY <1>1, <1>2, <1>5 DEF Surrendering, WriteSurrender, CloseChannel, PressSurrender
  <1>6. \A h \in Handlers : ~ SubmissionFails(h) /\ ~ ThreadGone(h)
    BY DEF SubmissionFails, ThreadGone
  <1>7. Expiring \/ Passing => UNCHANGED sub
    BY DEF Expiring, StartDeadlinePass, CommitDeadlinePass, DeadlinePassFails, ExpireChallenge,
           Passing, WindowExpires, BecomeOverdue
  <1>. QED
    BY <1>3, <1>4, <1>5, <1>6, <1>7 DEF SubStep

\* What a new evaluation channel is registered by, and that it stays.
LEMMA RegistryGrows ==
    ASSUME TypeOK, SubStep
    PROVE  /\ evReg \subseteq evReg'
           /\ \A c \in ech' \ ech : \E h \in Handlers : Swapping(h, c)'
  <1> USE DEF TypeOK, StoreTypeOK, SubTypeOK
  <1>1. CASE UNCHANGED <<ech, evReg>>
    BY <1>1
  <1>2. ASSUME NEW h \in Handlers, SwapRegistration(h) PROVE UNCHANGED ech /\ evReg \subseteq evReg'
    BY <1>2 DEF SwapRegistration, RegisterEvaluation, dbVars
  <1>3. ASSUME NEW h \in Handlers, StoreChannel(h)
        PROVE  UNCHANGED evReg /\ \A c \in ech' \ ech : Swapping(h, c)'
    BY <1>3 DEF StoreChannel, regVars, Goto, Swapping
  <1>4. Passing \/ Expiring => UNCHANGED <<ech, evReg>>
    BY DEF Passing, WindowExpires, BecomeOverdue, Expiring, StartDeadlinePass,
           CommitDeadlinePass, DeadlinePassFails, ExpireChallenge, storeVars, dbVars, regVars
  <1>5. \A h \in Handlers :
           Offering(h) \/ Surrendering(h) \/ SubmissionFails(h) \/ ThreadGone(h)
           => UNCHANGED <<ech, evReg>>
    BY DEF Offering, OfferSubmission, ReadOpener, WriteOpener, FindStarted,
           OpenSubmissionForm, Surrendering, WriteSurrender, CloseChannel, PressSurrender,
           SubmissionFails, ThreadGone, storeVars, dbVars, regVars
  <1>6. \A h \in Handlers :
           Delivering(h) => SwapRegistration(h) \/ StoreChannel(h) \/ UNCHANGED <<ech, evReg>>
    BY DEF Delivering, AcceptSubmission, RejectSubmission, ClearWindow, CreateChannel,
           SubmitProject, storeVars, dbVars, regVars
  <1>. QED
    BY <1>1, <1>2, <1>3, <1>4, <1>5, <1>6 DEF SubStep

-----------------------------------------------------------------------------
(* The registry of challenge channels, while only restarts go wrong          *)

\* A handler that takes a challenge out of STARTED, until its channel is out of
\* the registry.
Leaving(h, c) ==
    /\ sub[h].at \in {"clear", "create", "store", "swap", "close"}
    /\ sub[h].ch = c
    /\ sub[h].at = "clear" => sub[h].next # "idle"

LeavingLeft == \A h \in Handlers, c \in Challenges : Leaving(h, c) => status[c] # "STARTED"

\* The channels the monitor has taken out of the registry, before it commits.
Expired == IF dl.at = "pass" THEN dl.done ELSE {}

StartedRegistered ==
    \A c \in Challenges : status[c] = "STARTED" => c \in cch /\ (c \in chReg \/ c \in Expired)

RegisteredStarted ==
    \A c \in chReg : status[c] = "STARTED" \/ \E h \in Handlers : Leaving(h, c)

ChannelsApart == Expired \cap chReg = {} /\ ech \cap cch = {}

RegistryFollows == LeavingLeft /\ StartedRegistered /\ RegisteredStarted /\ ChannelsApart

\* A step of a handler that leaves rows, registry and monitor alone keeps all
\* of it, if it goes on with what it was leaving and takes nothing else up.
LEMMA WalkKeeps ==
    ASSUME IInv, RegistryFollows, TypeOK, NEW h \in Handlers,
           UNCHANGED <<status, cch, ech, chReg, dl>>,
           \A g \in Handlers \ {h} : sub'[g] = sub[g],
           \A c \in Challenges : Leaving(h, c)' <=> Leaving(h, c)
    PROVE  RegistryFollows'
  <1>1. \A g \in Handlers, c \in Challenges : Leaving(g, c)' <=> Leaving(g, c)
    <2> SUFFICES ASSUME NEW g \in Handlers, NEW c \in Challenges
                 PROVE  Leaving(g, c)' <=> Leaving(g, c)
      OBVIOUS
    <2>1. CASE g # h
      BY <2>1 DEF Leaving
    <2>. QED
      BY <2>1
  <1>2. Expired' = Expired
    BY DEF Expired
  <1>. QED
    BY <1>1, <1>2 DEF RegistryFollows, LeavingLeft, StartedRegistered, RegisteredStarted,
                      ChannelsApart, TypeOK, StoreTypeOK

LEMMA WalksKeep ==
    ASSUME TypeOK, IInv, RegistryFollows, Faults \subseteq {"restart"}, NEW h \in Handlers,
           \/ Offering(h) \/ RejectSubmission(h) \/ ClearWindow(h) \/ CreateChannel(h)
           \/ SubmissionFails(h) \/ ThreadGone(h)
           \/ (\E c \in Challenges : SubmitProject(h, c))
           \/ (\E c \in Challenges : PressSurrender(h, c)) \/ HandOver(h)
    PROVE  RegistryFollows'
  <1>0. "db" \notin Faults /\ "timeout" \notin Faults /\ "slack" \notin Faults
    OBVIOUS
  <1>1. UNCHANGED <<status, cch, ech, chReg, dl>>
    BY DEF Offering, OfferSubmission, ReadOpener, WriteOpener, FindStarted, OpenSubmissionForm,
           RejectSubmission, ClearWindow, CreateChannel, SubmissionFails, ThreadGone,
           SubmitProject, PressSurrender, HandOver, storeVars, dbVars, regVars
  <1> USE DEF TypeOK, SubTypeOK, Goto
  <1>2. \A g \in Handlers \ {h} : sub'[g] = sub[g]
    BY DEF Offering, OfferSubmission, ReadOpener, WriteOpener, FindStarted, OpenSubmissionForm,
           RejectSubmission, ClearWindow, CreateChannel, SubmissionFails, ThreadGone,
           SubmitProject, PressSurrender, HandOver
  <1> DEFINE Same == \A c \in Challenges : Leaving(h, c)' <=> Leaving(h, c)
  <1> SUFFICES Same
    BY <1>1, <1>2, WalkKeeps
  <1>3. CASE Offering(h)
    BY <1>3 DEF Offering, OfferSubmission, ReadOpener, WriteOpener, FindStarted,
                OpenSubmissionForm, SubIdle, Leaving
  <1>4. CASE RejectSubmission(h) \/ \E c \in Challenges : SubmitProject(h, c)
    BY <1>4 DEF RejectSubmission, SubmitProject, Leaving, SubIdle
  <1>5. CASE ClearWindow(h)
    <2>1. sub[h].next \in {"idle", "create", "close"} /\ sub[h].at = "clear"
      BY <1>5, SubLocals DEF ClearWindow
    <2>2. sub'[h] = IF sub[h].next = "idle" THEN SubIdle ELSE [at |-> sub[h].next, ch |-> sub[h].ch]
      BY <1>5 DEF ClearWindow, After
    <2>. QED
      BY <2>1, <2>2 DEF Leaving, SubIdle
  <1>6. CASE CreateChannel(h)
    BY <1>0, <1>6 DEF CreateChannel, Leaving
  <1>7. CASE HandOver(h)
    BY <1>7 DEF HandOver, Leaving, SubIdle
  <1>8. CASE \E c \in Challenges : PressSurrender(h, c)
    BY <1>8 DEF PressSurrender, Leaving, SubIdle
  <1>9. CASE SubmissionFails(h) \/ ThreadGone(h)
    BY <1>0, <1>9 DEF SubmissionFails, ThreadGone
  <1>. QED
    BY <1>3, <1>4, <1>5, <1>6, <1>7, <1>8, <1>9

\* A handler that takes the challenge out of STARTED, and what it is leaving then.
LEMMA TakingKeeps ==
    ASSUME TypeOK, IInv, RegistryFollows, NEW h \in Handlers,
           AcceptSubmission(h) \/ WriteSurrender(h)
    PROVE  RegistryFollows'
  <1>0. PICK d \in Challenges : d = sub[h].ch
    BY SubLocals DEF AcceptSubmission, WriteSurrender, TypeOK, SubTypeOK
  <1>1. /\ UNCHANGED <<cch, ech, chReg, dl>>
        /\ status'[d] \in {"COMPLETED", "NOT_COMPLETED"}
        /\ \A c \in Challenges : c # d => status'[c] = status[c]
        /\ sub[h].at \in {"accept", "surrender"}
        /\ sub'[h].at = "clear" /\ sub'[h].ch = d /\ sub'[h].next \in {"create", "close"}
        /\ \A g \in Handlers \ {h} : sub'[g] = sub[g]
    BY <1>0 DEF AcceptSubmission, WriteSurrender, Goto, regVars,
                TypeOK, StoreTypeOK, SubTypeOK, Status
  <1>2. /\ Leaving(h, d)' /\ \A c \in Challenges : Leaving(h, c)' => c = d
        /\ \A c \in Challenges : ~ Leaving(h, c)
        /\ \A g \in Handlers \ {h}, c \in Challenges : Leaving(g, c)' <=> Leaving(g, c)
    BY <1>1 DEF Leaving
  <1>3. Expired' = Expired /\ chReg \subseteq Challenges
    BY <1>1 DEF Expired, TypeOK, StoreTypeOK
  <1>4. LeavingLeft'
    <2> SUFFICES ASSUME NEW g \in Handlers, NEW c \in Challenges, Leaving(g, c)'
                 PROVE  status'[c] # "STARTED"
      BY DEF LeavingLeft
    <2>1. c = d \/ Leaving(g, c)
      BY <1>2
    <2>. QED
      BY <1>1, <2>1 DEF RegistryFollows, LeavingLeft
  <1>5. StartedRegistered'
    BY <1>1, <1>3 DEF RegistryFollows, StartedRegistered
  <1>6. RegisteredStarted'
    <2> SUFFICES ASSUME NEW c \in chReg'
                 PROVE  status'[c] = "STARTED" \/ (\E g \in Handlers : Leaving(g, c)')
      BY DEF RegisteredStarted
    <2>1. c \in Challenges /\ c \in chReg
      BY <1>1, <1>3
    <2>2. CASE c = d
      BY <1>2, <2>2
    <2>3. CASE c # d
      <3>1. status[c] = "STARTED" \/ \E g \in Handlers : Leaving(g, c)
        BY <2>1 DEF RegistryFollows, RegisteredStarted
      <3>2. ASSUME NEW g \in Handlers, Leaving(g, c) PROVE Leaving(g, c)'
        BY <1>2, <2>1, <3>2
      <3>. QED
        BY <1>1, <2>1, <2>3, <3>1, <3>2
    <2>. QED
      BY <2>2, <2>3
  <1>7. ChannelsApart'
    BY <1>1, <1>3 DEF RegistryFollows, ChannelsApart
  <1>. QED
    BY <1>4, <1>5, <1>6, <1>7 DEF RegistryFollows

\* The channel leaves the registry with the handler that was leaving, or with
\* the row that gets an evaluation channel instead.
LEMMA LeavingKeeps ==
    ASSUME TypeOK, IInv, RegistryFollows, NEW h \in Handlers,
           StoreChannel(h) \/ SwapRegistration(h) \/ CloseChannel(h)
    PROVE  RegistryFollows'
  <1>0. PICK d \in Challenges : d = sub[h].ch
    BY SubLocals DEF StoreChannel, SwapRegistration, CloseChannel, TypeOK, SubTypeOK
  <1>1. /\ Leaving(h, d)
        /\ \A g \in Handlers \ {h} : sub'[g] = sub[g]
        /\ UNCHANGED <<status, dl>>
        /\ \A c \in Challenges : c # d => (c \in cch' <=> c \in cch) /\ (c \in ech' <=> c \in ech)
                                          /\ (c \in chReg' <=> c \in chReg)
        /\ chReg' \subseteq chReg /\ cch' \subseteq cch
        /\ \/ Leaving(h, d)' \/ d \notin chReg'
        /\ d \in ech' => d \notin cch' \/ d \in ech
        /\ \A c \in Challenges : Leaving(h, c)' => c = d
    BY <1>0 DEF StoreChannel, SwapRegistration, CloseChannel, UnregisterChallenge,
                RegisterEvaluation, Goto, Leaving, SubIdle, regVars, dbVars,
                TypeOK, StoreTypeOK, SubTypeOK
  <1>2. status[d] # "STARTED"
    BY <1>1 DEF RegistryFollows, LeavingLeft
  <1>3. \A g \in Handlers \ {h}, c \in Challenges : Leaving(g, c)' <=> Leaving(g, c)
    BY <1>1 DEF Leaving
  <1>4. \A c \in Challenges : Leaving(h, c) => c = d
    BY <1>1 DEF Leaving
  <1>5. Expired' = Expired /\ chReg \subseteq Challenges /\ ech' \subseteq Challenges
    <2>1. ech' \subseteq Challenges
      BY SubLocals DEF StoreChannel, SwapRegistration, CloseChannel, dbVars,
                       TypeOK, StoreTypeOK, SubTypeOK
    <2>. QED
      BY <1>1, <2>1 DEF Expired, TypeOK, StoreTypeOK
  <1>6. LeavingLeft'
    BY <1>1, <1>2, <1>3 DEF RegistryFollows, LeavingLeft
  <1>7. StartedRegistered'
    BY <1>1, <1>2, <1>5 DEF RegistryFollows, StartedRegistered
  <1>8. RegisteredStarted'
    <2> SUFFICES ASSUME NEW c \in chReg'
                 PROVE  status'[c] = "STARTED" \/ (\E g \in Handlers : Leaving(g, c)')
      BY DEF RegisteredStarted
    <2>1. c \in Challenges /\ c \in chReg
      BY <1>1, <1>5
    <2>2. PICK g \in Handlers : status[c] = "STARTED" \/ Leaving(g, c)
      BY <2>1 DEF RegistryFollows, RegisteredStarted
    <2>. QED
      BY <1>1, <1>3, <1>4, <2>1, <2>2
  <1>9. ChannelsApart'
    BY <1>1, <1>5 DEF RegistryFollows, ChannelsApart
  <1>. QED
    BY <1>6, <1>7, <1>8, <1>9 DEF RegistryFollows

LEMMA OtherStepsFollow ==
    ASSUME TypeOK, IInv, RegistryFollows, Faults \subseteq {"restart"},
           Expiring \/ Passing \/ UNCHANGED vars
    PROVE  RegistryFollows'
  <1>1. UNCHANGED sub
    BY DEF Expiring, StartDeadlinePass, CommitDeadlinePass, DeadlinePassFails,
           ExpireChallenge, Passing, WindowExpires, BecomeOverdue, vars, subVars
  <1>2. \A g \in Handlers, c \in Challenges : Leaving(g, c)' <=> Leaving(g, c)
    BY <1>1 DEF Leaving
  <1> USE DEF RegistryFollows, LeavingLeft, StartedRegistered, RegisteredStarted,
              ChannelsApart, TypeOK, StoreTypeOK
  <1>3. CASE Passing \/ UNCHANGED vars
    <2>1. UNCHANGED <<status, cch, ech, chReg, dl>>
      BY <1>3 DEF Passing, WindowExpires, BecomeOverdue, vars, subVars, storeVars, dbVars, regVars
    <2>. QED
      BY <1>2, <2>1 DEF Expired
  <1>4. CASE StartDeadlinePass
    <2>1. UNCHANGED <<status, cch, ech, chReg>> /\ Expired = {} /\ Expired' = {}
      BY <1>4 DEF StartDeadlinePass, storeVars, dbVars, regVars, Expired, DlIdle
    <2>. QED
      BY <1>2, <2>1
  <1>5. CASE CommitDeadlinePass
    <2>1. /\ UNCHANGED <<ech, chReg>> /\ Expired' = {}
          /\ cch' = cch \ Expired
          /\ \A c \in Challenges : status'[c] = IF c \in Expired THEN "NOT_COMPLETED" ELSE status[c]
      BY <1>5 DEF CommitDeadlinePass, regVars, Expired, DlIdle
    <2>. QED
      BY <1>2, <2>1
  <1>6. CASE DeadlinePassFails
    BY <1>6 DEF DeadlinePassFails
  <1>7. ASSUME NEW d \in Challenges, ExpireChallenge(d) PROVE RegistryFollows'
    <2>1. dl \in [at : {"pass"}, todo : SUBSET Challenges, done : SUBSET Challenges]
      BY <1>7 DEF ExpireChallenge, SubTypeOK, Deadline
    <2>2. /\ UNCHANGED <<status, cch, ech>> /\ Expired' = Expired \cup {d}
          /\ chReg' = chReg \ {d}
      BY <1>7, <2>1 DEF ExpireChallenge, UnregisterChallenge, dbVars, Expired
    <2>. QED
      BY <1>2, <2>2
  <1>. QED
    BY <1>3, <1>4, <1>5, <1>6, <1>7 DEF Expiring

LEMMA RestartFollows ==
    ASSUME TypeOK, IInv, RegistryFollows, Restart
    PROVE  RegistryFollows'
  <1>1. /\ UNCHANGED <<status, cch, ech>> /\ chReg' = {c \in cch : status[c] = "STARTED"}
        /\ Expired' = {}
    BY DEF Restart, SubRestart, RebuildRegistry, RestoredChallenges, dbVars, Expired, DlIdle
  <1>2. \A g \in Handlers, c \in Challenges : ~ Leaving(g, c)'
    BY DEF Restart, SubRestart, SubIdle, Leaving
  <1>. QED
    BY <1>1, <1>2 DEF RegistryFollows, LeavingLeft, StartedRegistered, RegisteredStarted,
                      ChannelsApart

\* As long as sessions, Slack and threads do not fail, the registry of challenge
\* channels follows the rows.
LEMMA NextFollows ==
    ASSUME TypeOK, IInv, RegistryFollows, Faults \subseteq {"restart"}, [Next]_vars
    PROVE  RegistryFollows'
  BY WalksKeep, TakingKeeps, LeavingKeeps, OtherStepsFollow, RestartFollows
     DEF Next, SubStep, Delivering, Surrendering

-----------------------------------------------------------------------------
(* The registry of evaluation channels, while only restarts go wrong         *)

DeliveredRegistered ==
    \A c \in ech : status[c] = "COMPLETED" => c \in evReg \/ \E h \in Handlers : Swapping(h, c)

LEMMA DeliveredStaysRegistered ==
    ASSUME TypeOK, IInv, DeliveredRegistered, [Next]_vars
    PROVE  DeliveredRegistered'
  <1> SUFFICES ASSUME NEW c \in ech', status'[c] = "COMPLETED"
               PROVE  c \in evReg' \/ \E h \in Handlers : Swapping(h, c)'
    BY DEF DeliveredRegistered
  <1>0. c \in Challenges
    BY NextTyped DEF TypeOK, StoreTypeOK
  <1>1. CASE SubStep
    <2>1. c \in ech => status[c] = "COMPLETED"
      BY <1>0, <1>1, RowsMove DEF IInv, EvaluatedLeft
    <2>2. evReg \subseteq evReg' /\ (c \notin ech => \E h \in Handlers : Swapping(h, c)')
      BY <1>1, RegistryGrows
    <2>3. ASSUME NEW h \in Handlers, Swapping(h, c) PROVE Swapping(h, c)' \/ c \in evReg'
      <3>1. sub'[h] = sub[h] \/ sub[h].at # "swap" \/ sub[h].ch \in evReg'
        BY <1>1, HandlersMove
      <3>. QED
        BY <2>3, <3>1 DEF Swapping
    <2>. QED
      BY <2>1, <2>2, <2>3 DEF DeliveredRegistered
  <1>2. ASSUME NEW g \in Handlers, HandOver(g)
        PROVE  c \in evReg' \/ \E h \in Handlers : Swapping(h, c)'
    <2>1. \A h \in Handlers : Swapping(h, c) => Swapping(h, c)'
      BY <1>2 DEF HandOver, Goto, Swapping, TypeOK, SubTypeOK
    <2>. QED
      BY <1>2, <2>1 DEF HandOver, storeVars, dbVars, regVars, DeliveredRegistered
  <1>3. CASE Restart
    BY <1>3 DEF Restart, RebuildRegistry, RestoredEvaluations, dbVars
  <1>4. CASE UNCHANGED vars
    BY <1>4 DEF vars, storeVars, dbVars, regVars, subVars, DeliveredRegistered, Swapping
  <1>. QED
    BY <1>1, <1>2, <1>3, <1>4 DEF Next

\* Of the submission alone: when nothing is going on, exactly the STARTED rows
\* have their channel registered, and what was delivered has exchanged it for
\* its evaluation channel, at whatever point the service was restarted.
THEOREM RegistryMatches ==
    ASSUME Faults \subseteq {"restart"}
    PROVE  Spec => []RegistryMatchesRows
  <1>1. Init => RegistryFollows /\ DeliveredRegistered
    BY DEF Init, SubInit, SubIdle, DlIdle, RegistryFollows, LeavingLeft, StartedRegistered,
           RegisteredStarted, ChannelsApart, Leaving, Expired, DeliveredRegistered
  <1>2. TypeOK /\ IInv /\ RegistryFollows /\ DeliveredRegistered /\ [Next]_vars
          => (RegistryFollows /\ DeliveredRegistered)'
    BY NextFollows, DeliveredStaysRegistered
  <1>3. RegistryFollows /\ DeliveredRegistered => RegistryMatchesRows
    <2> SUFFICES ASSUME RegistryFollows, DeliveredRegistered, Quiescent
                 PROVE  RegistryMatchesRows
      BY DEF RegistryMatchesRows
    <2>1. /\ \A h \in Handlers, c \in Challenges : ~ Leaving(h, c) /\ ~ Swapping(h, c)
          /\ Expired = {}
      BY DEF Quiescent, SubIdle, DlIdle, Leaving, Swapping, Expired
    <2>. QED
      BY <2>1 DEF RegistryFollows, StartedRegistered, RegisteredStarted, ChannelsApart,
                  DeliveredRegistered, RegistryMatchesRows
  <1>. QED
    BY <1>1, <1>2, <1>3, Invariant, PTL DEF Spec

-----------------------------------------------------------------------------
(* Without faults every delivered challenge gets its evaluation channel      *)

DeliveredOpened ==
    \A c \in Challenges : status[c] = "COMPLETED" =>
        c \in ech \/ \E h \in Handlers : Opening(h, c)

LEMMA OpeningGoesOn ==
    ASSUME TypeOK, SubStep, Faults = {}, NEW g \in Handlers, NEW c \in Challenges, Opening(g, c)
    PROVE  Opening(g, c)' \/ c \in ech'
  <1>1. sub'[g] = sub[g] => Opening(g, c)'
    BY DEF Opening
  <1>2. ASSUME NEW h \in Handlers, sub[h].at \notin {"clear", "create", "store"},
               NEW t, Goto(h, t)
        PROVE  Opening(g, c)'
    BY <1>1, <1>2 DEF Goto, Opening, TypeOK, SubTypeOK
  <1>3. SubIdle.at = "idle"
    BY DEF SubIdle
  <1>4. ASSUME NEW h \in Handlers, Offering(h) PROVE Opening(g, c)'
    BY <1>2, <1>3, <1>4 DEF Offering, OfferSubmission, ReadOpener, WriteOpener, FindStarted,
                            OpenSubmissionForm
  <1>5. ASSUME NEW h \in Handlers, Delivering(h) PROVE Opening(g, c)' \/ c \in ech'
    <2>1. CASE AcceptSubmission(h) \/ RejectSubmission(h) \/ SwapRegistration(h)
               \/ \E d \in Challenges : SubmitProject(h, d)
      BY <1>2, <1>3, <2>1 DEF AcceptSubmission, RejectSubmission, SwapRegistration, SubmitProject
    <2>2. ASSUME h # g, NEW t, Goto(h, t) PROVE Opening(g, c)'
      BY <1>1, <2>2 DEF Goto, TypeOK, SubTypeOK
    <2>3. ASSUME NEW t, Goto(h, t) PROVE sub'[h] = t
      BY <2>3 DEF Goto, TypeOK, SubTypeOK
    <2>4. CASE ClearWindow(h)
      <3>1. CASE h = g
        <4>1. sub'[g] = [at |-> "create", ch |-> c]
          BY <2>3, <2>4, <3>1 DEF ClearWindow, Opening, After
        <4>. QED
          BY <4>1 DEF Opening
      <3>. QED
        BY <2>2, <2>4, <3>1 DEF ClearWindow
    <2>5. CASE CreateChannel(h)
      <3>1. CASE h = g
        <4>1. sub'[g] = [at |-> "store", ch |-> c]
          BY <2>3, <2>5, <3>1 DEF CreateChannel, Opening
        <4>. QED
          BY <4>1 DEF Opening
      <3>. QED
        BY <2>2, <2>5, <3>1 DEF CreateChannel
    <2>6. CASE StoreChannel(h)
      <3>1. h = g => c \in ech'
        BY <2>6 DEF StoreChannel, Opening
      <3>. QED
        BY <2>2, <2>6, <3>1 DEF StoreChannel
    <2>. QED
      BY <1>5, <2>1, <2>4, <2>5, <2>6 DEF Delivering
  <1>6. ASSUME NEW h \in Handlers, Surrendering(h) PROVE Opening(g, c)'
    BY <1>2, <1>3, <1>6 DEF Surrendering, WriteSurrender, CloseChannel, PressSurrender
  <1>7. \A h \in Handlers : ~ SubmissionFails(h) /\ ~ ThreadGone(h)
    BY DEF SubmissionFails, ThreadGone
  <1>8. Expiring \/ Passing => UNCHANGED sub
    BY DEF Expiring, StartDeadlinePass, CommitDeadlinePass, DeadlinePassFails, ExpireChallenge,
           Passing, WindowExpires, BecomeOverdue
  <1>. QED
    BY <1>1, <1>4, <1>5, <1>6, <1>7, <1>8 DEF SubStep

\* Only an accepted submission delivers, and its handler opens the channel.
LEMMA AcceptedOpens ==
    ASSUME TypeOK, SubStep, NEW c \in Challenges,
           status[c] # "COMPLETED", status'[c] = "COMPLETED"
    PROVE  \E h \in Handlers : Opening(h, c)'
  <1>1. PICK h \in Handlers : AcceptSubmission(h)
    <2>1. ~ UNCHANGED status
      OBVIOUS
    <2>2. ~ CommitDeadlinePass /\ \A h \in Handlers : ~ WriteSurrender(h)
      BY DEF CommitDeadlinePass, WriteSurrender, TypeOK, StoreTypeOK
    <2> HIDE DEF TypeOK
    <2>3. \A h \in Handlers : Offering(h) \/ SubmissionFails(h) \/ ThreadGone(h) => UNCHANGED status
      BY DEF Offering, OfferSubmission, ReadOpener, WriteOpener, FindStarted, OpenSubmissionForm,
             SubmissionFails, ThreadGone, storeVars, dbVars
    <2>4. \A h \in Handlers : Delivering(h) => AcceptSubmission(h) \/ UNCHANGED status
      BY DEF Delivering, RejectSubmission, ClearWindow, CreateChannel, StoreChannel,
             SwapRegistration, SubmitProject, storeVars, dbVars
    <2>5. \A h \in Handlers : Surrendering(h) => WriteSurrender(h) \/ UNCHANGED status
      BY DEF Surrendering, CloseChannel, PressSurrender, storeVars, dbVars
    <2>6. Expiring \/ Passing => CommitDeadlinePass \/ UNCHANGED status
      BY DEF Expiring, StartDeadlinePass, DeadlinePassFails, ExpireChallenge, Passing,
             WindowExpires, BecomeOverdue, storeVars, dbVars
    <2>. QED
      BY <2>1, <2>2, <2>3, <2>4, <2>5, <2>6 DEF SubStep
  <1>2. /\ status' = [status EXCEPT ![sub[h].ch] = "COMPLETED"]
        /\ sub' = [sub EXCEPT ![h] = [at |-> "clear", ch |-> sub[h].ch, next |-> "create"]]
    BY <1>1 DEF AcceptSubmission, Goto
  <1>3. sub[h].ch = c /\ sub'[h] = [at |-> "clear", ch |-> c, next |-> "create"]
    BY <1>2 DEF TypeOK, StoreTypeOK, SubTypeOK
  <1>. QED
    BY <1>3 DEF Opening

LEMMA DeliveredStaysOpened ==
    ASSUME TypeOK, IInv, DeliveredOpened, Faults = {}, [Next]_vars
    PROVE  DeliveredOpened'
  <1> SUFFICES ASSUME NEW c \in Challenges, status'[c] = "COMPLETED"
               PROVE  c \in ech' \/ \E h \in Handlers : Opening(h, c)'
    BY DEF DeliveredOpened
  <1>1. CASE SubStep
    <2>1. status[c] = "COMPLETED" => (c \in ech => c \in ech')
      BY <1>1, RowsMove
    <2>. QED
      BY <1>1, <2>1, OpeningGoesOn, AcceptedOpens DEF DeliveredOpened
  <1>2. ASSUME NEW g \in Handlers, HandOver(g)
        PROVE  c \in ech' \/ \E h \in Handlers : Opening(h, c)'
    <2>1. \A h \in Handlers : Opening(h, c) => Opening(h, c)'
      BY <1>2 DEF HandOver, Goto, Opening, TypeOK, SubTypeOK
    <2>. QED
      BY <1>2, <2>1 DEF HandOver, storeVars, dbVars, DeliveredOpened
  <1>3. ~ Restart
    BY DEF Restart
  <1>4. CASE UNCHANGED vars
    BY <1>4 DEF vars, storeVars, dbVars, subVars, DeliveredOpened, Opening
  <1>. QED
    BY <1>1, <1>2, <1>3, <1>4 DEF Next

\* When nothing fails, a delivered challenge has a registered evaluation channel
\* as soon as nothing is going on, whatever second submissions, surrenders and
\* passes of the monitor met it.
THEOREM EveryDeliveryHasChannel ==
    ASSUME Faults = {}
    PROVE  Spec => []DeliveredHasChannel
  <1>1. Init => DeliveredRegistered /\ DeliveredOpened
    BY DEF Init, DeliveredRegistered, DeliveredOpened
  <1>2. TypeOK /\ IInv /\ DeliveredRegistered /\ DeliveredOpened /\ [Next]_vars
          => (DeliveredRegistered /\ DeliveredOpened)'
    BY DeliveredStaysRegistered, DeliveredStaysOpened
  <1>3. DeliveredRegistered /\ DeliveredOpened => DeliveredHasChannel
    <2> SUFFICES ASSUME DeliveredRegistered, DeliveredOpened, Quiescent
                 PROVE  DeliveredHasChannel
      BY DEF DeliveredHasChannel
    <2>1. \A h \in Handlers, c \in Challenges : ~ Opening(h, c) /\ ~ Swapping(h, c)
      BY DEF Quiescent, SubIdle, Opening, Swapping
    <2>. QED
      BY <2>1 DEF DeliveredRegistered, DeliveredOpened, DeliveredHasChannel
  <1>. QED
    BY <1>1, <1>2, <1>3, Invariant, PTL DEF Spec
=============================================================================
