--------------------------- MODULE MCJuryEvaluation ---------------------------
(* Instances of JuryEvaluation for TLC.                                      *)
EXTENDS JuryEvaluation, TLC

CONSTANTS c1, c2, u1, u2, u3, u4, h1, h2

\* One challenge, one team member, three possible jurors for a panel of two.
OneTeam == c1 :> {u1}

\* Two challenges that compete for one juror, while the other may judge only
\* the challenge of the other team.
TwoTeams == c1 :> {u1} @@ c2 :> {}

HandlerSymmetry == Permutations(Handlers)
JurorSymmetry == Permutations(Handlers) \cup Permutations({u2, u3, u4})
=============================================================================
