------------------------------- MODULE SetQueue -------------------------------
(***************************************************************************)
(* What the other modules take a waiting queue for: a set of users, from   *)
(* which any of those who are not excluded may be taken, as many as are    *)
(* asked for or nobody.                                                    *)
(***************************************************************************)
EXTENDS Integers, FiniteSets

CONSTANT Users

VARIABLE waiting

Init == waiting = {}

Enter(u) == waiting' = waiting \cup {u}

Leave(u) == waiting' = waiting \ {u}

\* T is given for n users who are none of X.
Gives(n, X, T) ==
    IF n <= Cardinality(waiting \ X)
    THEN T \subseteq waiting \ X /\ Cardinality(T) = n
    ELSE T = {}

Take(n, X) ==
    \E T \in SUBSET Users : Gives(n, X, T) /\ waiting' = waiting \ T

Clear == waiting' = {}

Next ==
    \/ \E u \in Users : Enter(u) \/ Leave(u)
    \/ \E n \in 1..Cardinality(Users), X \in SUBSET Users : Take(n, X)
    \/ Clear

Spec == Init /\ [][Next]_waiting
=============================================================================
