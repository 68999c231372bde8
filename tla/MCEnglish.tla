------------------------------ MODULE MCEnglish ------------------------------
(* An instance of English for TLC.                                           *)
EXTENDS English, TLC

CONSTANTS h1, h2

Symmetry == Permutations(Handlers)

\* Two of the three questions of the table are near copies, as in the table of
\* the code; the model writes two questions of one pattern, one of them like a
\* question of the table, and a flawed one.
TheTable == <<"t1", "t2", "t3">>
TheKind == [q \in {"t1", "t2", "g1"} |-> "a"] @@ [q \in {"t3", "g2", "g3"} |-> "b"]
ThePattern == [q \in {"g1", "g2", "t1"} |-> "p"] @@ [q \in {"t2", "t3", "g3"} |-> "none"]
TheAlike == {<<"t1", "t2">>, <<"g1", "t3">>}
ThePool == [t \in {"topic"} |-> {"w1"}]
=============================================================================
