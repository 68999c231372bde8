---------------------------- MODULE MCChannelGuard ----------------------------
(* An instance of ChannelGuard for TLC.                                      *)
EXTENDS ChannelGuard, TLC

CONSTANTS c1, u1, u2, u3, h1, h2

\* One of the users is the team.
OneTeam == c1 :> {u1}
=============================================================================
