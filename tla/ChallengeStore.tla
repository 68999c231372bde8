---------------------------- MODULE ChallengeStore ----------------------------
(***************************************************************************)
(* The state every part of the challenge service shares: the rows of the   *)
(* challenges and challenge_jury_members tables, and the in-memory channel *)
(* registry that is rebuilt from them at start-up.                         *)
(*                                                                         *)
(* A challenge is created together with its private channel, and its       *)
(* evaluation channel is created at most once, so a channel is named by    *)
(* the challenge it belongs to: c \in cch says that the row of c has a     *)
(* challenge_channel_id, c \in chReg that this channel is in the registry. *)
(***************************************************************************)
EXTENDS Naturals, FiniteSets

CONSTANTS
    Challenges,   \* the rows of the challenges table
    Users,        \* Slack users
    Team,         \* Team[c]: the members written with the row of c, never changed
    JuryCount,    \* settings.evaluation_jury_count
    Handlers,     \* Slack requests the service handles at the same time
    Faults        \* the faults a run lets happen

ASSUME StoreAssumption ==
    /\ Team \in [Challenges -> SUBSET Users]
    /\ IsFiniteSet(Users)
    /\ JuryCount \in Nat \ {0}        \* Field(default=2, ge=1)
    /\ Faults \subseteq {"restart", "db", "timeout", "slack"}

\* ChallengeStatus. NOT_STARTED is declared by the code and written nowhere;
\* "ABSENT" is a row that is not inserted yet.
Status == {"ABSENT", "STARTED", "COMPLETED", "NOT_COMPLETED",
           "IN_EVALUATION", "EVALUATED", "EVALUATION_DELAYED"}

VARIABLES
    status,   \* Challenge.status
    cch,      \* rows with a challenge_channel_id
    ech,      \* rows with an evaluation_channel_id
    jury,     \* the jury rows of each challenge
    scored,   \* the jury rows whose meta holds an evaluation
    chReg,    \* challenge channels in the registry
    evReg,    \* evaluation channels in the registry
    evJury    \* the jury list of each registered evaluation channel

dbVars  == <<status, cch, ech, jury, scored>>
regVars == <<chReg, evReg, evJury>>
storeVars == <<dbVars, regVars>>

StoreTypeOK ==
    /\ status \in [Challenges -> Status]
    /\ cch \subseteq Challenges
    /\ ech \subseteq Challenges
    /\ jury \in [Challenges -> SUBSET Users]
    /\ scored \in [Challenges -> SUBSET Users]
    /\ chReg \subseteq Challenges
    /\ evReg \subseteq Challenges
    /\ evJury \in [Challenges -> SUBSET Users]

-----------------------------------------------------------------------------
(* ChannelRegistry                                                          *)

\* register_evaluation: a record with this jury replaces the one there was.
RegisterEvaluation(c, members) ==
    /\ evReg' = evReg \cup {c}
    /\ evJury' = [evJury EXCEPT ![c] = members]

UnregisterEvaluation(c) ==
    /\ evReg' = evReg \ {c}
    /\ evJury' = [evJury EXCEPT ![c] = {}]

UnregisterChallenge(c) == chReg' = chReg \ {c}

\* What _on_startup registers from the database.
RestoredChallenges == {c \in cch : status[c] = "STARTED"}
\* (RestoredCompleted is a mutant: only waiting challenges are restored.)
RestoredCompleted == {c \in ech : status[c] = "COMPLETED"}
RestoredEvaluations ==
    {c \in ech : status[c] \in {"COMPLETED", "IN_EVALUATION", "EVALUATION_DELAYED"}}

\* ChallengeServiceManager.start in RESUME mode: nothing is NOT_STARTED, so
\* nothing is deleted; the registry is emptied and filled from the database.
RebuildRegistry ==
    /\ chReg' = RestoredChallenges
    /\ evReg' = RestoredEvaluations
    /\ evJury' = [c \in Challenges |-> IF c \in RestoredEvaluations THEN jury[c] ELSE {}]
=============================================================================
