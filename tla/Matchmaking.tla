------------------------------ MODULE Matchmaking ------------------------------
(***************************************************************************)
(* How a challenge finds its team: the queues of the categories, the       *)
(* groups that wait for more members (pending_challenges), the requests    *)
(* /challenge join, start and leave, each in a thread of its own, and the  *)
(* cleanup of the challenge monitor.  A lock protects the groups and each  *)
(* queue has one.  A request takes them one after another; only who cancels *)
(* a group puts its members back into the queue under both.                *)
(***************************************************************************)
EXTENDS Integers, FiniteSets

CONSTANTS
    Users,
    Categories,
    Sizes,       \* the team sizes asked for; the command takes any integer
    Groups,      \* the ids of groups, in the order of their creation: a bound
    Handlers,    \* the threads that run requests
    Faults       \* what may go wrong: "slack", "db", "restart"

ASSUME MatchAssumption ==
    /\ IsFiniteSet(Users)
    /\ Sizes \subseteq Int
    /\ Groups \subseteq Nat
    /\ Faults \subseteq {"slack", "db", "restart"}

VARIABLES
    queue,     \* category_queues: who waits in a category
    group,     \* the groups; a thread keeps its reference to a closed one
    expired,   \* the groups the cleanup has removed and not yet put back
    teams,     \* the teams in the registry of challenge channels
    req        \* what the thread of a request is about to do

vars == <<queue, group, expired, teams, req>>

-----------------------------------------------------------------------------
(* State                                                                    *)

Unused == [st |-> "unused"]

\* participants: who started the group and the others.  The starter may be
\* among the others as well, when popped from the queue by the own request.
Group == [st: {"open", "closed"}, cat: Categories, num: Sizes,
          lead: Users, rest: SUBSET Users, stale: BOOLEAN]

\* Who is in a group, and len(participants).
People(g) == {g.lead} \cup g.rest
Size(g) == 1 + Cardinality(g.rest)

Team == [members: SUBSET Users, size: Int, num: Sizes, row: BOOLEAN]

Joins == [op: {"join"}, cat: Categories]
Starts == [op: {"start"}, cat: Categories, num: Sizes]
Leave == [op |-> "leave"]

Idle == [at |-> "idle"]

Request ==
    {Idle}
    \cup [at: {"pendings", "registry"}, user: Users, want: Joins \cup Starts \cup {Leave}]
    \cup [at: {"join", "enqueue"}, user: Users, want: Joins]
    \cup [at: {"count", "take"}, user: Users, id: Groups]
    \cup [at: {"draw"}, user: Users, want: Starts]
    \cup [at: {"pop"}, user: Users, want: Starts, take: Int]
    \cup [at: {"form"}, want: Starts, lead: Users, rest: SUBSET Users]
    \cup [at: {"launch"}, from: SUBSET Groups, cat: Categories, num: Sizes,
          lead: Users, rest: SUBSET Users, popped: SUBSET Users]
    \cup [at: {"leave queues", "leave pendings"}, user: Users]

TypeOK ==
    /\ queue \in [Categories -> SUBSET Users]
    /\ group \in [Groups -> Group \cup {Unused}]
    /\ expired \subseteq Groups
    /\ teams \subseteq Team
    /\ req \in [Handlers -> Request]

Init ==
    /\ queue = [k \in Categories |-> {}]
    /\ group = [p \in Groups |-> Unused]
    /\ expired = {}
    /\ teams = {}
    /\ req = [h \in Handlers |-> Idle]

\* pending_challenges.
Open == {p \in Groups : group[p].st = "open"}

\* The first of some groups, in the order of the dictionary.
First(S) == {p \in S : \A q \in S : p <= q}

\* A request goes on with the same user and wish.
On(at, r) == [at |-> at, user |-> r.user, want |-> r.want]

Goto(h, r) == req' = [req EXCEPT ![h] = r]

Close(S) ==
    group' = [p \in Groups |-> IF p \in S THEN [group[p] EXCEPT !.st = "closed"] ELSE group[p]]

\* Mutant: the list of users is added as if it were one.
AddList(k, S) == queue' = [queue EXCEPT ![k] = @ \cup {S}]

Add(k, S) == queue' = [queue EXCEPT ![k] = @ \cup S]

-----------------------------------------------------------------------------
(* is_user_engaged: queues, groups and registry, one after another          *)

\* Bound: a start is only made while an id is left for its group.
IdsLeft ==
    Cardinality({h \in Handlers : req[h].at \in {"pendings", "registry", "draw", "pop", "form"}})
        < Cardinality({p \in Groups : group[p] = Unused})

\* What an engaged user gets: leave goes on, join and start are refused.
Engaged(u, w) == IF w = Leave THEN [at |-> "leave queues", user |-> u] ELSE Idle

\* A command or a form arrives and the queues are asked.
AskQueues(h, u, w) ==
    /\ req[h] = Idle
    /\ w.op = "start" => IdsLeft
    /\ IF \E k \in Categories : u \in queue[k]
       THEN Goto(h, Engaged(u, w))
       ELSE Goto(h, [at |-> "pendings", user |-> u, want |-> w])
    /\ UNCHANGED <<queue, group, expired, teams>>

AskPendings(h) ==
    /\ req[h].at = "pendings"
    /\ IF \E p \in Open : req[h].user \in People(group[p])
       THEN Goto(h, Engaged(req[h].user, req[h].want))
       ELSE Goto(h, On("registry", req[h]))
    /\ UNCHANGED <<queue, group, expired, teams>>

\* Nobody leaves a team this way; who is nowhere has nothing to leave.
AskRegistry(h) ==
    /\ req[h].at = "registry"
    /\ \/ /\ req[h].want = Leave \/ \E t \in teams : req[h].user \in t.members
          /\ Goto(h, Idle)
       \/ /\ \A t \in teams : req[h].user \notin t.members
          /\ req[h].want # Leave
          /\ Goto(h, On(IF req[h].want.op = "join" THEN "join" ELSE "draw", req[h]))
    /\ UNCHANGED <<queue, group, expired, teams>>

-----------------------------------------------------------------------------
(* handle_join_modal_submission                                             *)

\* The first group that has the user or is of the category, under the lock.
Found(u, k) == {p \in Open : u \in People(group[p]) \/ group[p].cat = k}

JoinGroup(h) ==
    /\ req[h].at = "join"
    /\ LET u == req[h].user IN
       \E p \in First(Found(u, req[h].want.cat)) :
         \/ /\ u \in People(group[p])
            /\ Goto(h, Idle)
            /\ UNCHANGED group
         \/ /\ u \notin People(group[p])
            /\ group' = [group EXCEPT ![p].rest = @ \cup {u}]
            /\ Goto(h, [at |-> "count", user |-> u, id |-> p])
    /\ UNCHANGED <<queue, expired, teams>>

NoGroup(h) ==
    /\ req[h].at = "join"
    /\ Found(req[h].user, req[h].want.cat) = {}
    /\ Goto(h, On("enqueue", req[h]))
    /\ UNCHANGED <<queue, group, expired, teams>>

Enqueue(h) ==
    /\ req[h].at = "enqueue"
    /\ Add(req[h].want.cat, {req[h].user})
    /\ Goto(h, Idle)
    /\ UNCHANGED <<group, expired, teams>>

\* Mutant: a group is full when it has one member too many.
IsFullStrict(g) == Size(g) > g.num

IsFull(g) == Size(g) >= g.num

\* Outside the lock: others may have joined, left or taken the group.
CountMembers(h) ==
    /\ req[h].at = "count"
    /\ IF IsFull(group[req[h].id])
       THEN Goto(h, [at |-> "take", user |-> req[h].user, id |-> req[h].id])
       ELSE Goto(h, Idle)
    /\ UNCHANGED <<queue, group, expired, teams>>

LaunchOf(p) ==
    [at |-> "launch", from |-> {p}, cat |-> group[p].cat, num |-> group[p].num,
     lead |-> group[p].lead, rest |-> group[p].rest, popped |-> {}]

\* Mutant: the group is taken whoever took it before.
TakeAny(h) ==
    /\ req[h].at = "take"
    /\ Close({req[h].id})
    /\ Goto(h, LaunchOf(req[h].id))
    /\ UNCHANGED <<queue, expired, teams>>

TakeGroup(h) ==
    /\ req[h].at = "take"
    /\ req[h].id \in Open
    /\ Close({req[h].id})
    /\ Goto(h, LaunchOf(req[h].id))
    /\ UNCHANGED <<queue, expired, teams>>

\* Somebody else took it: the user is told to be in the team.
GroupGone(h) ==
    /\ req[h].at = "take"
    /\ req[h].id \notin Open
    /\ Goto(h, Idle)
    /\ UNCHANGED <<queue, group, expired, teams>>

-----------------------------------------------------------------------------
(* handle_start_modal_submission                                            *)

CountQueue(h) ==
    /\ req[h].at = "draw"
    /\ LET w == req[h].want
           n == Cardinality(queue[w.cat])
       IN Goto(h, [at |-> "pop", user |-> req[h].user, want |-> w,
                   take |-> IF n < w.num - 1 THEN n ELSE w.num - 1])
    /\ UNCHANGED <<queue, group, expired, teams>>

\* pop_n gives all it is asked for or nothing.
Popped(k, n) ==
    IF n > 0 /\ n <= Cardinality(queue[k])
    THEN {S \in SUBSET queue[k] : Cardinality(S) = n}
    ELSE {{}}

PopMembers(h) ==
    /\ req[h].at = "pop"
    /\ \E S \in Popped(req[h].want.cat, req[h].take) :
         /\ queue' = [queue EXCEPT ![req[h].want.cat] = @ \ S]
         /\ Goto(h, [at |-> "form", want |-> req[h].want, lead |-> req[h].user, rest |-> S])
    /\ UNCHANGED <<group, expired, teams>>

StartAtOnce(h) ==
    /\ req[h].at = "form"
    /\ Size(req[h]) >= req[h].want.num
    /\ Goto(h, [at |-> "launch", from |-> {}, cat |-> req[h].want.cat, num |-> req[h].want.num,
                lead |-> req[h].lead, rest |-> req[h].rest, popped |-> req[h].rest])
    /\ UNCHANGED <<queue, group, expired, teams>>

OpenGroup(h) ==
    /\ req[h].at = "form"
    /\ Size(req[h]) < req[h].want.num
    /\ \E p \in First({q \in Groups : group[q] = Unused}) :
         group' = [group EXCEPT ![p] =
                     [st |-> "open", cat |-> req[h].want.cat, num |-> req[h].want.num,
                      lead |-> req[h].lead, rest |-> req[h].rest, stale |-> FALSE]]
    /\ Goto(h, Idle)
    /\ UNCHANGED <<queue, expired, teams>>

-----------------------------------------------------------------------------
(* _launch_challenge                                                        *)

\* The row and the entry of the registry; without its row the challenge is
\* registered as "unknown".
LaunchTeam(h) ==
    /\ req[h].at = "launch"
    /\ \E row \in BOOLEAN :
         /\ row \/ "db" \in Faults
         /\ teams' = teams \cup {[members |-> People(req[h]), size |-> Size(req[h]),
                                  num |-> req[h].num, row |-> row]}
    /\ Goto(h, Idle)
    /\ UNCHANGED <<queue, group, expired>>

\* Mutant: nobody is put back.
LaunchFailsBare(h) ==
    /\ "slack" \in Faults
    /\ req[h].at = "launch"
    /\ Goto(h, Idle)
    /\ UNCHANGED <<queue, group, expired, teams>>

\* No channel: who was popped by this request goes back to the queue.
LaunchFails(h) ==
    /\ "slack" \in Faults
    /\ req[h].at = "launch"
    /\ Add(req[h].cat, req[h].popped)
    /\ Goto(h, Idle)
    /\ UNCHANGED <<group, expired, teams>>

-----------------------------------------------------------------------------
(* handle_leave                                                             *)

LeaveQueues(h) ==
    /\ req[h].at = "leave queues"
    /\ queue' = [k \in Categories |-> queue[k] \ {req[h].user}]
    /\ Goto(h, [at |-> "leave pendings", user |-> req[h].user])
    /\ UNCHANGED <<group, expired, teams>>

\* The groups the user is in; the first one is left and no other.
GroupsOf(u) == {p \in Open : u \in People(group[p])}

\* Who started the group takes it down; the others go back to the queue.
CancelGroup(h) ==
    /\ req[h].at = "leave pendings"
    /\ \E p \in First(GroupsOf(req[h].user)) :
         /\ group[p].lead = req[h].user
         /\ Close({p})
         /\ Add(group[p].cat, group[p].rest \ {req[h].user})
    /\ Goto(h, Idle)
    /\ UNCHANGED <<expired, teams>>

LeaveGroup(h) ==
    /\ req[h].at = "leave pendings"
    /\ \E p \in First(GroupsOf(req[h].user)) :
         /\ group[p].lead # req[h].user
         /\ group' = [group EXCEPT ![p].rest = @ \ {req[h].user}]
    /\ Goto(h, Idle)
    /\ UNCHANGED <<queue, expired, teams>>

NothingLeft(h) ==
    /\ req[h].at = "leave pendings"
    /\ GroupsOf(req[h].user) = {}
    /\ Goto(h, Idle)
    /\ UNCHANGED <<queue, group, expired, teams>>

-----------------------------------------------------------------------------
(* The challenge monitor, time, the end of challenges, restarts             *)

\* pending_challenge_ttl_minutes have passed.
GroupAges(p) ==
    /\ p \in Open
    /\ ~group[p].stale
    /\ group' = [group EXCEPT ![p].stale = TRUE]
    /\ UNCHANGED <<queue, expired, teams, req>>

\* Mutant: an expired group is put back but stays where it is.
ExpireKeeping ==
    /\ expired = {}
    /\ {p \in Open : group[p].stale} # {}
    /\ expired' = {p \in Open : group[p].stale}
    /\ UNCHANGED <<queue, group, teams, req>>

\* _cleanup_stale_pending, under the lock.
ExpireGroups ==
    /\ expired = {}
    /\ {p \in Open : group[p].stale} # {}
    /\ expired' = {p \in Open : group[p].stale}
    /\ Close(expired')
    /\ UNCHANGED <<queue, teams, req>>

\* Without it, group after group, with a message awaited in between.
RequeueExpired ==
    /\ \E p \in First(expired) :
         /\ Add(group[p].cat, People(group[p]))
         /\ expired' = expired \ {p}
    /\ UNCHANGED <<group, teams, req>>

\* A challenge ends and its channels are removed from the registry; this goes
\* by the row, so what has none stays registered until a restart.
TeamEnds(t) ==
    /\ t \in teams
    /\ t.row
    /\ teams' = teams \ {t}
    /\ UNCHANGED <<queue, group, expired, req>>

\* Queues and groups are only in memory; the registry comes from the rows.
Restart ==
    /\ "restart" \in Faults
    /\ queue' = [k \in Categories |-> {}]
    /\ Close(Open)
    /\ expired' = {}
    /\ teams' = {t \in teams : t.row}
    /\ req' = [h \in Handlers |-> Idle]

-----------------------------------------------------------------------------

Asking(h) ==
    \/ \E u \in Users, w \in Joins \cup Starts \cup {Leave} : AskQueues(h, u, w)
    \/ AskPendings(h) \/ AskRegistry(h)

Joining(h) ==
    \/ JoinGroup(h) \/ NoGroup(h) \/ Enqueue(h)
    \/ CountMembers(h) \/ TakeGroup(h) \/ GroupGone(h)

Starting(h) == CountQueue(h) \/ PopMembers(h) \/ StartAtOnce(h) \/ OpenGroup(h)

Leaving(h) == LeaveQueues(h) \/ CancelGroup(h) \/ LeaveGroup(h) \/ NothingLeft(h)

Next ==
    \/ \E h \in Handlers :
         \/ Asking(h) \/ Joining(h) \/ Starting(h) \/ Leaving(h)
         \/ LaunchTeam(h) \/ LaunchFails(h)
    \/ \E p \in Groups : GroupAges(p)
    \/ ExpireGroups \/ RequeueExpired
    \/ \E t \in teams : TeamEnds(t)
    \/ Restart

Spec == Init /\ [][Next]_vars

\* Time passes and the monitor's loop runs; no request has to be made.
FairSpec ==
    /\ Spec
    /\ \A p \in Groups : WF_vars(GroupAges(p))
    /\ WF_vars(ExpireGroups \/ RequeueExpired)

-----------------------------------------------------------------------------
(* Properties                                                               *)

Quiescent == expired = {} /\ \A h \in Handlers : req[h] = Idle

\* A group is given to one launch or to the cleanup, never to two of them:
\* of all who find it full, expired or abandoned, one takes it.
TakenOnce ==
    \A p \in Groups : \A h \in Handlers :
        req[h].at = "launch" /\ p \in req[h].from =>
            /\ p \notin Open \cup expired
            /\ \A i \in Handlers : req[i].at = "launch" /\ p \in req[i].from => i = h

\* When nothing is going on no group is full: whichever request fills it, one
\* notices and launches it, although the members are counted outside the lock.
FullIsLaunched == Quiescent => \A p \in Open : ~(Size(group[p]) >= group[p].num)

\* The people the service has undertaken to find a team for, or has found one.
Placed(u) ==
    \/ \E k \in Categories : u \in queue[k]
    \/ \E p \in Open \cup expired : u \in People(group[p])
    \/ \E h \in Handlers : req[h].at \in {"form", "launch"} /\ u \in People(req[h])
    \/ \E t \in teams : u \in t.members

Excused(u) ==
    \/ \E h \in Handlers : req[h].at \in {"leave queues", "leave pendings"} /\ req[h].user = u
                           /\ req'[h] # req[h]
    \/ \E h \in Handlers : LaunchFails(h) /\ u \notin req[h].popped
    \/ \E t \in teams : TeamEnds(t)
    \/ Restart

\* Nobody gets lost on the way from queue to group to team, nor when a group is
\* cancelled or expires, nor among those popped for a launch that fails.
NobodyDropped == [][\A u \in Users : Placed(u) => Placed(u)' \/ Excused(u)]_vars

\* Every group is launched, cancelled or put back in the end.
GroupEnds == \A p \in Groups : p \in Open ~> p \notin Open

(* What the documentation says and the code does not keep                   *)

\* /challenge start n starts a challenge for n people.
TeamAsAsked == \A t \in teams : t.size = t.num
=============================================================================
