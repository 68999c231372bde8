--------------------------- MODULE EvaluationPromise ---------------------------
(***************************************************************************)
(* What the evaluation of a challenge promises, without queues, forms,     *)
(* threads or timers: one panel of jurors from outside the team sits on    *)
(* it, each member's vote counts once, a verdict needs every vote, and an  *)
(* evaluation that has lapsed is over.                                     *)
(***************************************************************************)
EXTENDS Naturals, FiniteSets

CONSTANTS Challenges, Users, Team, JuryCount

VARIABLES
    stage,   \* "working", "waiting", "sitting", "decided" or "lapsed"
    panel,   \* the jurors appointed to each challenge
    votes    \* those of them who have voted

promiseVars == <<stage, panel, votes>>

Init ==
    /\ stage = [c \in Challenges |-> "working"]
    /\ panel = [c \in Challenges |-> {}]
    /\ votes = [c \in Challenges |-> {}]

Submit(c) ==
    /\ stage[c] = "working"
    /\ stage' = [stage EXCEPT ![c] = "waiting"]
    /\ UNCHANGED <<panel, votes>>

\* The only step that changes a panel. It is empty when the jurors left the
\* queue while they were being taken from it; such a panel can only lapse.
Appoint(c, P) ==
    /\ stage[c] = "waiting"
    /\ P \cap Team[c] = {}
    /\ P = {} \/ Cardinality(P) = JuryCount
    /\ stage' = [stage EXCEPT ![c] = "sitting"]
    /\ panel' = [panel EXCEPT ![c] = P]
    /\ UNCHANGED votes

\* The vote that completes the panel may decide; it need not, when it was
\* counted without the votes cast beside it.
Vote(c, u) ==
    /\ stage[c] = "sitting"
    /\ u \in panel[c]
    /\ votes' = [votes EXCEPT ![c] = @ \cup {u}]
    /\ \/ UNCHANGED stage
       \/ votes'[c] = panel[c] /\ stage' = [stage EXCEPT ![c] = "decided"]
    /\ UNCHANGED panel

\* Time runs out for the challenges in S, also for a verdict given while the
\* time-out was being carried out.
Lapse(S) ==
    /\ \A c \in S : stage[c] \in {"sitting", "decided"}
    /\ stage' = [c \in Challenges |-> IF c \in S THEN "lapsed" ELSE stage[c]]
    /\ UNCHANGED <<panel, votes>>

Next ==
    \/ \E c \in Challenges : Submit(c)
    \/ \E c \in Challenges, P \in SUBSET Users : Appoint(c, P)
    \/ \E c \in Challenges, u \in Users : Vote(c, u)
    \/ \E S \in SUBSET Challenges : Lapse(S)

Spec == Init /\ [][Next]_promiseVars
=============================================================================
