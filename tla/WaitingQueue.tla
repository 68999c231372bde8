----------------------------- MODULE WaitingQueue -----------------------------
(***************************************************************************)
(* CustomQueue: the users who wait for a jury or in a category, and the    *)
(* order they are taken in.  Every method runs under the lock of the queue *)
(* and is one step; what a caller has popped is out of the queue until the *)
(* caller puts it back or drops it, and others come and go meanwhile.      *)
(*                                                                         *)
(* The score of an item is the time it has waited, as no caller counts     *)
(* attempts: the order is that of the moments they joined at.  The clock   *)
(* moves on while the scores are computed, so users who joined at the same *)
(* moment come in any order.                                               *)
(***************************************************************************)
EXTENDS Integers, FiniteSets

CONSTANTS
    Users,
    LastMoment  \* where time stops: a bound

VARIABLES
    joined,  \* _items: joined[u] is the joined_at of the item of u
    before,  \* _order: the pairs of users in the order they are listed
    held,    \* items callers have popped, <<user, joined_at>>
    clock

vars == <<joined, before, held, clock>>

Members == DOMAIN joined

TypeOK ==
    /\ joined \in [Members -> Nat] /\ Members \subseteq Users
    /\ before \in SUBSET (Users \X Users)
    /\ held \in SUBSET (Users \X Nat)
    /\ clock \in Nat

\* The orders that sorting items by their score may give.
Orders(items) ==
    {order \in SUBSET ((DOMAIN items) \X (DOMAIN items)) :
        /\ \A u \in DOMAIN items : <<u, u>> \notin order
        /\ \A u, v, w \in DOMAIN items :
              <<u, v>> \in order /\ <<v, w>> \in order => <<u, w>> \in order
        /\ \A u, v \in DOMAIN items :
              u # v => <<u, v>> \in order \/ <<v, u>> \in order
        /\ \A u, v \in DOMAIN items : <<u, v>> \in order => items[u] <= items[v]}

Restricted(S) == [u \in S |-> joined[u]]

Reorder == before' \in Orders(joined')

Empty == [u \in {} |-> 0]

Init == joined = Empty /\ before = {} /\ held = {} /\ clock = 0

\* add: a user who is in the queue keeps the item that is there.
Add(u, moment) ==
    IF u \in Members THEN UNCHANGED <<joined, before>>
    ELSE /\ joined' = [v \in Members \cup {u} |-> IF v = u THEN moment ELSE joined[v]]
         /\ Reorder

Join(u) == Add(u, clock) /\ UNCHANGED <<held, clock>>

\* What was popped for a team or a panel that does not come about returns with
\* the moment it had.
ReEnqueue(item) ==
    /\ item \in held
    /\ Add(item[1], item[2])
    /\ held' = held \ {item}
    /\ UNCHANGED clock

\* The team or the panel comes about, or an error loses the item.
Drop(item) ==
    /\ item \in held
    /\ held' = held \ {item}
    /\ UNCHANGED <<joined, before, clock>>

Remove(u) ==
    /\ u \in Members
    /\ joined' = Restricted(Members \ {u})
    /\ Reorder
    /\ UNCHANGED <<held, clock>>

\* T are the first n of the users S.
FirstOf(n, S, T) ==
    /\ T \subseteq S /\ Cardinality(T) = n
    /\ \A u \in T, v \in S \ T : <<u, v>> \in before

\* The others keep their places; there is no sorting.
Pop(T) ==
    /\ joined' = Restricted(Members \ T)
    /\ before' = before \cap ((Members \ T) \X (Members \ T))
    /\ held' = held \cup {<<u, joined[u]>> : u \in T}
    /\ UNCHANGED clock

\* pop_n of the category queues.
PopN(n) ==
    IF n > Cardinality(Members) THEN UNCHANGED vars
    ELSE \E T \in SUBSET Members : FirstOf(n, Members, T) /\ Pop(T)

\* pop_n_excluding of the jury queue: the excluded stay where they are.
PopNExcluding(n, X) ==
    IF Cardinality(Members \ X) < n THEN UNCHANGED vars
    ELSE \E T \in SUBSET Members : FirstOf(n, Members \ X, T) /\ Pop(T)

\* clear, when the service starts: what callers held is gone with them.
Clear ==
    /\ joined' = Empty /\ before' = {} /\ held' = {}
    /\ UNCHANGED clock

TimePasses ==
    /\ clock < LastMoment
    /\ clock' = clock + 1
    /\ UNCHANGED <<joined, before, held>>

Next ==
    \/ \E u \in Users : Join(u) \/ Remove(u)
    \/ \E item \in held : ReEnqueue(item) \/ Drop(item)
    \/ \E n \in 1..Cardinality(Users) : PopN(n) \/ \E X \in SUBSET Users : PopNExcluding(n, X)
    \/ Clear \/ TimePasses

Spec == Init /\ [][Next]_vars

-----------------------------------------------------------------------------
(* Properties                                                               *)

\* The list names exactly those in the dictionary, longest waiting first,
\* although only add and remove sort it and the pops edit both by hand.
ListMatchesItems == before \in Orders(joined)

\* Nobody is passed over: whoever is taken has waited at least as long as
\* everybody who was not excluded and stays, those who were put back included.
LongestFirst ==
    [][\A X \in SUBSET Users, n \in 1..Cardinality(Users) :
          PopNExcluding(n, X) =>
             \A u \in Members \ DOMAIN joined', v \in DOMAIN joined' \ X :
                joined[u] <= joined[v]]_vars
=============================================================================
