------------------------- MODULE MCChallengeLifecycle -------------------------
(* Instances of ChallengeLifecycle for TLC.                                  *)
EXTENDS ChallengeLifecycle, TLC

CONSTANTS c1, u1, h1, h2

\* One user, who is on no team: who is on which is the matter of MCJuryEvaluation.
NoTeam == c1 :> {}

Symmetry == Permutations(Handlers)
=============================================================================
