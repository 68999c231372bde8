------------------------- MODULE MCChallengeSubmission -------------------------
(***************************************************************************)
(* Instances of ChallengeSubmission for TLC.  A run has two kinds of       *)
(* behaviours: calm ones, with two challenges and no fault, and others,    *)
(* with one challenge and every fault.                                     *)
(***************************************************************************)
EXTENDS ChallengeSubmission, TLC

CONSTANTS c1, c2, u1, h1, h2

VARIABLE calm

\* The user is on every team; teams play no part here.
Teams == [c \in Challenges |-> Users]

BothInit ==
    /\ calm \in BOOLEAN
    /\ LET started == IF calm THEN Challenges ELSE {c1} IN
       /\ status = [c \in Challenges |-> IF c \in started THEN "STARTED" ELSE "ABSENT"]
       /\ cch = started /\ chReg = started
    /\ ech = {} /\ evReg = {}
    /\ jury = [c \in Challenges |-> {}]
    /\ scored = [c \in Challenges |-> {}]
    /\ evJury = [c \in Challenges |-> {}]
    /\ SubInit

\* Slack gives the channel, no session fails, no thread is gone, no restart.
CalmNext ==
    /\ \/ \E h \in Handlers : Offering(h) \/ Delivering(h) \/ Surrendering(h) \/ HandOver(h)
       \/ StartDeadlinePass \/ CommitDeadlinePass \/ \E c \in Challenges : ExpireChallenge(c)
       \/ Passing
    /\ \A h \in Handlers : sub[h].at = "create" => sub'[h] # SubIdle

BothNext == (IF calm THEN CalmNext ELSE Next) /\ UNCHANGED calm

BothSpec ==
    /\ BothInit /\ [][BothNext]_<<vars, calm>>
    /\ \A h \in Handlers : WF_vars(RunningSub(h) /\ BothNext)
    /\ WF_vars(DeadlineRuns)

\* DeliveredHasChannel and DeadlineEnds are promised while nothing fails.
CalmDelivered == calm => DeliveredHasChannel
CalmEnds == calm => DeadlineEnds
=============================================================================
