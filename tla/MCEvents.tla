-------------------------------- MODULE MCEvents --------------------------------
(* Instances of Events for TLC.                                              *)
EXTENDS Events, TLC

CONSTANTS u1, e1, h1, h2

Symmetry == Permutations(Handlers)
=============================================================================
