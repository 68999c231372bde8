------------------------------- MODULE MCFeatures -------------------------------
(* Instances of Features for TLC.                                            *)
EXTENDS Features

CONSTANTS u1, h1, h2
=============================================================================
