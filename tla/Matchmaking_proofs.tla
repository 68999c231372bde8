-------------------------- MODULE Matchmaking_proofs --------------------------
(***************************************************************************)
(* Theorems about Matchmaking, for any number of users, categories, team   *)
(* sizes, groups and concurrent requests and any set of faults; and about  *)
(* WaitingQueue, the queues it takes users from.                           *)
(***************************************************************************)
EXTENDS Matchmaking, FiniteSetTheorems, TLAPS

-----------------------------------------------------------------------------
(* What a request holds, by what it is about to do.                         *)

Wants == Joins \cup Starts \cup {Leave}

LEMMA RequestLocals ==
    ASSUME NEW r \in Request
    PROVE  /\ r.at \in {"pendings", "registry"} => r.user \in Users /\ r.want \in Wants
           /\ r.at \in {"join", "enqueue"} => r.user \in Users /\ r.want \in Joins
           /\ r.at \in {"count", "take"} => r.user \in Users /\ r.id \in Groups
           /\ r.at = "draw" => r.user \in Users /\ r.want \in Starts
           /\ r.at = "pop" => r.user \in Users /\ r.want \in Starts /\ r.take \in Int
           /\ r.at = "form" => r.want \in Starts /\ r.lead \in Users /\ r.rest \in SUBSET Users
           /\ r.at = "launch" => /\ r.from \in SUBSET Groups /\ r.cat \in Categories
                                 /\ r.num \in Sizes /\ r.lead \in Users
                                 /\ r.rest \in SUBSET Users /\ r.popped \in SUBSET Users
           /\ r.at \in {"leave queues", "leave pendings"} => r.user \in Users
  <1>1. CASE r = Idle
    BY <1>1 DEF Idle
  <1>2. CASE r \in [at: {"pendings", "registry"}, user: Users, want: Wants]
    BY <1>2
  <1>3. CASE r \in [at: {"join", "enqueue"}, user: Users, want: Joins]
    BY <1>3
  <1>4. CASE r \in [at: {"count", "take"}, user: Users, id: Groups]
    BY <1>4
  <1>5. CASE r \in [at: {"draw"}, user: Users, want: Starts]
    BY <1>5
  <1>6. CASE r \in [at: {"pop"}, user: Users, want: Starts, take: Int]
    BY <1>6
  <1>7. CASE r \in [at: {"form"}, want: Starts, lead: Users, rest: SUBSET Users]
    BY <1>7
  <1>8. CASE r \in [at: {"launch"}, from: SUBSET Groups, cat: Categories, num: Sizes,
                   lead: Users, rest: SUBSET Users, popped: SUBSET Users]
    BY <1>8
  <1>9. CASE r \in [at: {"leave queues", "leave pendings"}, user: Users]
    BY <1>9
  <1>. QED
    BY <1>1, <1>2, <1>3, <1>4, <1>5, <1>6, <1>7, <1>8, <1>9, Zenon DEF Request, Wants

\* Every record a request moves to is one of Request.
LEMMA AskingRecords ==
    ASSUME NEW u \in Users, NEW w \in Wants
    PROVE  /\ Idle \in Request
           /\ \A at \in {"pendings", "registry"} : [at |-> at, user |-> u, want |-> w] \in Request
           /\ \A at \in {"join", "enqueue"} :
                w \in Joins => [at |-> at, user |-> u, want |-> w] \in Request
           /\ w \in Starts => [at |-> "draw", user |-> u, want |-> w] \in Request
           /\ \A n \in Int :
                w \in Starts => [at |-> "pop", user |-> u, want |-> w, take |-> n] \in Request
  BY DEF Request, Wants

LEMMA LeavingRecords ==
    ASSUME NEW u \in Users
    PROVE  \A at \in {"leave queues", "leave pendings"} : [at |-> at, user |-> u] \in Request
  BY DEF Request

LEMMA JoiningRecords ==
    ASSUME NEW u \in Users, NEW p \in Groups
    PROVE  \A at \in {"count", "take"} : [at |-> at, user |-> u, id |-> p] \in Request
  BY DEF Request

LEMMA LaunchingRecords ==
    ASSUME NEW l \in Users, NEW S \in SUBSET Users
    PROVE  /\ \A w \in Starts : [at |-> "form", want |-> w, lead |-> l, rest |-> S] \in Request
           /\ \A f \in SUBSET Groups, k \in Categories, n \in Sizes, P \in SUBSET Users :
                [at |-> "launch", from |-> f, cat |-> k, num |-> n,
                 lead |-> l, rest |-> S, popped |-> P] \in Request
  BY DEF Request

LEMMA WantKinds ==
    ASSUME NEW w \in Wants
    PROVE  /\ w.op = "join" <=> w \in Joins
           /\ w.op = "start" <=> w \in Starts
           /\ w # Leave => w \in Joins \cup Starts
           /\ w \in Joins \cup Starts => w.cat \in Categories
           /\ w \in Starts => w.num \in Sizes
  BY DEF Wants, Joins, Starts, Leave

LEMMA SizeIsInt ==
    ASSUME NEW g, g.rest \in SUBSET Users
    PROVE  Size(g) \in Int
  <1>1. IsFiniteSet(g.rest)
    BY MatchAssumption, FS_Subset
  <1>. QED
    BY <1>1, FS_CardinalityType DEF Size

-----------------------------------------------------------------------------
(* Type correctness.  An expired group is a group, so that it can be put    *)
(* back: the one fact beyond the types that the types need.                 *)

ExpiredClosed == \A p \in expired : p \in Groups /\ group[p].st = "closed"

LEMMA Groupness ==
    ASSUME NEW g \in Group \cup {Unused}, g.st # "unused"
    PROVE  /\ g \in Group
           /\ g.cat \in Categories /\ g.num \in Sizes /\ g.lead \in Users
           /\ g.rest \in SUBSET Users
           /\ \A S \in SUBSET Users : [g EXCEPT !.rest = S] \in Group
           /\ [g EXCEPT !.st = "closed"] \in Group
           /\ [g EXCEPT !.stale = TRUE] \in Group
  <1>1. g \in Group
    BY DEF Unused
  <1>2. \A S \in SUBSET Users : [g EXCEPT !.rest = S] \in Group
    BY <1>1 DEF Group
  <1>3. [g EXCEPT !.st = "closed"] \in Group
    BY <1>1 DEF Group
  <1>4. [g EXCEPT !.stale = TRUE] \in Group
    BY <1>1 DEF Group
  <1>. QED
    BY <1>1, <1>2, <1>3, <1>4 DEF Group

LEMMA AskingTyped ==
    ASSUME TypeOK, NEW h \in Handlers, Asking(h)
    PROVE  TypeOK'
  <1> USE DEF TypeOK, Goto
  <1>0. req[h] \in Request
    OBVIOUS
  <1>1. ASSUME NEW u \in Users, NEW w \in Wants, AskQueues(h, u, w) PROVE TypeOK'
    BY <1>1, AskingRecords, LeavingRecords DEF AskQueues, Engaged
  <1>2. CASE AskPendings(h)
    <2>1. req[h].user \in Users /\ req[h].want \in Wants
      BY <1>0, <1>2, RequestLocals DEF AskPendings
    <2>2. /\ Engaged(req[h].user, req[h].want) \in Request
          /\ On("registry", req[h]) \in Request
      BY <2>1, AskingRecords, LeavingRecords DEF Engaged, On
    <2>. QED
      BY <1>2, <2>2 DEF AskPendings
  <1>3. CASE AskRegistry(h)
    <2>1. req[h].user \in Users /\ req[h].want \in Wants
      BY <1>0, <1>3, RequestLocals DEF AskRegistry
    <2>0. Idle \in Request /\ UNCHANGED <<queue, group, expired, teams>>
      BY <1>3 DEF AskRegistry, Request
    <2>2. CASE req[h].want # Leave /\ req[h].want.op = "join"
      <3>1. On("join", req[h]) \in Request
        BY <2>1, <2>2, AskingRecords, WantKinds DEF On
      <3>2. req' = [req EXCEPT ![h] = On("join", req[h])] \/ req' = [req EXCEPT ![h] = Idle]
        BY <1>3, <2>2 DEF AskRegistry
      <3>. QED
        BY <2>0, <3>1, <3>2
    <2>3. CASE req[h].want # Leave /\ req[h].want.op # "join"
      <3>1. On("draw", req[h]) \in Request
        BY <2>1, <2>3, AskingRecords, WantKinds DEF On
      <3>2. req' = [req EXCEPT ![h] = On("draw", req[h])] \/ req' = [req EXCEPT ![h] = Idle]
        BY <1>3, <2>3 DEF AskRegistry
      <3>. QED
        BY <2>0, <3>1, <3>2
    <2>4. CASE req' = [req EXCEPT ![h] = Idle]
      BY <1>3, <2>1, <2>4, AskingRecords DEF AskRegistry
    <2>. QED
      BY <1>3, <2>2, <2>3, <2>4 DEF AskRegistry
  <1>. QED
    BY <1>1, <1>2, <1>3 DEF Asking, Wants

LEMMA CloseTyped ==
    ASSUME TypeOK, NEW S \in SUBSET Groups, \A p \in S : group[p].st # "unused", Close(S)
    PROVE  /\ group' \in [Groups -> Group \cup {Unused}]
           /\ \A p \in S : group'[p].st = "closed"
           /\ \A p \in Groups \ S : group'[p] = group[p]
  <1>1. ASSUME NEW p \in S
        PROVE  /\ [group[p] EXCEPT !.st = "closed"] \in Group
               /\ [group[p] EXCEPT !.st = "closed"].st = "closed"
    <2>1. group[p] \in Group \cup {Unused} /\ group[p].st # "unused"
      BY DEF TypeOK
    <2>. QED
      BY <2>1, Groupness DEF Group
  <1>. QED
    BY <1>1 DEF TypeOK, Close

LEMMA OpenGroups ==
    ASSUME TypeOK, NEW p \in Open
    PROVE  /\ p \in Groups /\ group[p] \in Group
           /\ group[p].cat \in Categories /\ group[p].num \in Sizes
           /\ group[p].lead \in Users /\ group[p].rest \in SUBSET Users
           /\ \A S \in SUBSET Users : [group[p] EXCEPT !.rest = S] \in Group
           /\ [group[p] EXCEPT !.stale = TRUE] \in Group
  <1>1. group[p] \in Group \cup {Unused} /\ group[p].st # "unused"
    BY DEF TypeOK, Open
  <1>. QED
    BY <1>1, Groupness DEF Open

LEMMA JoiningTyped ==
    ASSUME TypeOK, NEW h \in Handlers, Joining(h)
    PROVE  TypeOK'
  <1> USE DEF TypeOK, Goto
  <1>0. req[h] \in Request
    OBVIOUS
  <1>1. CASE JoinGroup(h)
    <2>1. req[h].user \in Users /\ req[h].want \in Joins
      BY <1>0, <1>1, RequestLocals DEF JoinGroup
    <2>2. PICK p \in Found(req[h].user, req[h].want.cat) :
            \/ req' = [req EXCEPT ![h] = Idle] /\ UNCHANGED group
            \/ /\ group' = [group EXCEPT ![p].rest = @ \cup {req[h].user}]
               /\ req' = [req EXCEPT ![h] = [at |-> "count", user |-> req[h].user, id |-> p]]
      BY <1>1 DEF JoinGroup, First
    <2>3. p \in Open
      BY DEF Found
    <2>4. /\ p \in Groups
          /\ [group[p] EXCEPT !.rest = @ \cup {req[h].user}] \in Group
      <3>1. group[p].rest \cup {req[h].user} \in SUBSET Users
        BY <2>1, <2>3, OpenGroups
      <3>. QED
        BY <2>3, <3>1, OpenGroups
    <2>5. Idle \in Request /\ [at |-> "count", user |-> req[h].user, id |-> p] \in Request
      BY <2>1, <2>4, AskingRecords, JoiningRecords DEF Wants
    <2>6. group' \in [Groups -> Group \cup {Unused}]
      BY <2>2, <2>4
    <2>7. req' \in [Handlers -> Request]
      BY <2>2, <2>5
    <2>. QED
      BY <1>1, <2>6, <2>7 DEF JoinGroup
  <1>2. CASE NoGroup(h)
    <2>1. On("enqueue", req[h]) \in Request
      BY <1>0, <1>2, RequestLocals, AskingRecords DEF NoGroup, On, Wants
    <2>. QED
      BY <1>2, <2>1 DEF NoGroup
  <1>3. CASE Enqueue(h)
    <2>1. req[h].user \in Users /\ req[h].want \in Joins /\ req[h].want.cat \in Categories
      BY <1>0, <1>3, RequestLocals, WantKinds DEF Enqueue, Wants
    <2>2. Idle \in Request
      BY DEF Request
    <2>. QED
      BY <1>3, <2>1, <2>2 DEF Enqueue, Add
  <1>4. CASE CountMembers(h)
    <2>1. req[h].user \in Users /\ req[h].id \in Groups
      BY <1>0, <1>4, RequestLocals DEF CountMembers
    <2>2. Idle \in Request /\ [at |-> "take", user |-> req[h].user, id |-> req[h].id] \in Request
      BY <2>1, JoiningRecords DEF Request
    <2>. QED
      BY <1>4, <2>2 DEF CountMembers
  <1>5. CASE TakeGroup(h)
    <2>1. LaunchOf(req[h].id) \in Request
      BY <1>5, OpenGroups, LaunchingRecords DEF TakeGroup, LaunchOf
    <2>2. group' \in [Groups -> Group \cup {Unused}]
      BY <1>5, CloseTyped DEF TakeGroup, Open
    <2>. QED
      BY <1>5, <2>1, <2>2 DEF TakeGroup
  <1>6. CASE GroupGone(h)
    BY <1>6 DEF GroupGone, Request
  <1>. QED
    BY <1>1, <1>2, <1>3, <1>4, <1>5, <1>6 DEF Joining

LEMMA StartingTyped ==
    ASSUME TypeOK, NEW h \in Handlers, Starting(h)
    PROVE  TypeOK'
  <1> USE DEF TypeOK, Goto
  <1>0. req[h] \in Request
    OBVIOUS
  <1>1. CASE CountQueue(h)
    <2>1. /\ req[h].user \in Users /\ req[h].want \in Starts
          /\ req[h].want.cat \in Categories /\ req[h].want.num \in Int
      BY <1>0, <1>1, RequestLocals, WantKinds, MatchAssumption DEF CountQueue, Wants
    <2>2. Cardinality(queue[req[h].want.cat]) \in Nat
      <3>1. IsFiniteSet(queue[req[h].want.cat])
        BY <2>1, MatchAssumption, FS_Subset
      <3>. QED
        BY <3>1, FS_CardinalityType
    <2> DEFINE c == Cardinality(queue[req[h].want.cat])
               n == IF c < req[h].want.num - 1 THEN c ELSE req[h].want.num - 1
    <2>3. n \in Int
      BY <2>1, <2>2
    <2>4. [at |-> "pop", user |-> req[h].user, want |-> req[h].want, take |-> n] \in Request
      BY <2>1, <2>3, AskingRecords DEF Wants
    <2>. QED
      BY <1>1, <2>4 DEF CountQueue
  <1>2. CASE PopMembers(h)
    <2>1. /\ req[h].user \in Users /\ req[h].want \in Starts
          /\ req[h].want.cat \in Categories
      BY <1>0, <1>2, RequestLocals, WantKinds DEF PopMembers, Wants
    <2>2. PICK S \in Popped(req[h].want.cat, req[h].take) :
            /\ queue' = [queue EXCEPT ![req[h].want.cat] = @ \ S]
            /\ req' = [req EXCEPT ![h] =
                 [at |-> "form", want |-> req[h].want, lead |-> req[h].user, rest |-> S]]
      BY <1>2 DEF PopMembers
    <2>3. S \in SUBSET Users
      BY <2>1 DEF Popped
    <2>4. [at |-> "form", want |-> req[h].want, lead |-> req[h].user, rest |-> S] \in Request
      BY <2>1, <2>3, LaunchingRecords
    <2>. QED
      BY <1>2, <2>1, <2>2, <2>4 DEF PopMembers
  <1>3. CASE StartAtOnce(h)
    <2>1. /\ req[h].want \in Starts /\ req[h].lead \in Users /\ req[h].rest \in SUBSET Users
          /\ req[h].want.cat \in Categories /\ req[h].want.num \in Sizes
      BY <1>0, <1>3, RequestLocals, WantKinds DEF StartAtOnce, Wants
    <2>2. [at |-> "launch", from |-> {}, cat |-> req[h].want.cat, num |-> req[h].want.num,
           lead |-> req[h].lead, rest |-> req[h].rest, popped |-> req[h].rest] \in Request
      BY <2>1, LaunchingRecords
    <2>. QED
      BY <1>3, <2>2 DEF StartAtOnce
  <1>4. CASE OpenGroup(h)
    <2>1. /\ req[h].want \in Starts /\ req[h].lead \in Users /\ req[h].rest \in SUBSET Users
          /\ req[h].want.cat \in Categories /\ req[h].want.num \in Sizes
      BY <1>0, <1>4, RequestLocals, WantKinds DEF OpenGroup, Wants
    <2>2. [st |-> "open", cat |-> req[h].want.cat, num |-> req[h].want.num,
           lead |-> req[h].lead, rest |-> req[h].rest, stale |-> FALSE] \in Group
      BY <2>1 DEF Group
    <2>3. group' \in [Groups -> Group \cup {Unused}]
      BY <1>4, <2>2 DEF OpenGroup, First
    <2>4. Idle \in Request
      BY DEF Request
    <2>. QED
      BY <1>4, <2>3, <2>4 DEF OpenGroup
  <1>. QED
    BY <1>1, <1>2, <1>3, <1>4 DEF Starting

LEMMA LaunchingTyped ==
    ASSUME TypeOK, NEW h \in Handlers, LaunchTeam(h) \/ LaunchFails(h)
    PROVE  TypeOK'
  <1> USE DEF TypeOK, Goto
  <1>0. req[h] \in Request /\ Idle \in Request
    BY DEF Request
  <1>1. /\ req[h].cat \in Categories /\ req[h].num \in Sizes /\ req[h].lead \in Users
        /\ req[h].rest \in SUBSET Users /\ req[h].popped \in SUBSET Users
    BY <1>0, RequestLocals DEF LaunchTeam, LaunchFails
  <1>2. CASE LaunchTeam(h)
    <2>1. PICK row \in BOOLEAN :
            teams' = teams \cup {[members |-> People(req[h]), size |-> Size(req[h]),
                                 num |-> req[h].num, row |-> row]}
      BY <1>2 DEF LaunchTeam
    <2>2. People(req[h]) \in SUBSET Users
      BY <1>1 DEF People
    <2>3. Size(req[h]) \in Int
      BY <1>1, SizeIsInt
    <2>4. [members |-> People(req[h]), size |-> Size(req[h]), num |-> req[h].num, row |-> row]
            \in Team
      BY <1>1, <2>2, <2>3 DEF Team
    <2>. QED
      BY <1>0, <1>2, <2>1, <2>4 DEF LaunchTeam
  <1>3. CASE LaunchFails(h)
    BY <1>0, <1>1, <1>3 DEF LaunchFails, Add
  <1>. QED
    BY <1>2, <1>3

LEMMA LeavingTyped ==
    ASSUME TypeOK, NEW h \in Handlers, Leaving(h)
    PROVE  TypeOK'
  <1> USE DEF TypeOK, Goto
  <1>0. req[h] \in Request /\ Idle \in Request
    BY DEF Request
  <1>1. CASE LeaveQueues(h)
    <2>1. [at |-> "leave pendings", user |-> req[h].user] \in Request
      BY <1>0, <1>1, RequestLocals, LeavingRecords DEF LeaveQueues
    <2>. QED
      BY <1>1, <2>1 DEF LeaveQueues
  <1>2. CASE CancelGroup(h)
    <2>1. PICK p \in Open : Close({p}) /\ Add(group[p].cat, group[p].rest \ {req[h].user})
      BY <1>2 DEF CancelGroup, First, GroupsOf
    <2>2. /\ p \in Groups /\ group[p].st # "unused"
          /\ group[p].cat \in Categories /\ group[p].rest \in SUBSET Users
      BY OpenGroups DEF Open
    <2>3. group' \in [Groups -> Group \cup {Unused}]
      BY <2>1, <2>2, CloseTyped
    <2>4. queue' \in [Categories -> SUBSET Users]
      BY <2>1, <2>2 DEF Add
    <2>. QED
      BY <1>0, <1>2, <2>3, <2>4 DEF CancelGroup
  <1>3. CASE LeaveGroup(h)
    <2>1. PICK p \in Open : group' = [group EXCEPT ![p].rest = @ \ {req[h].user}]
      BY <1>3 DEF LeaveGroup, First, GroupsOf
    <2>2. p \in Groups /\ [group[p] EXCEPT !.rest = @ \ {req[h].user}] \in Group
      <3>1. group[p].rest \ {req[h].user} \in SUBSET Users
        BY OpenGroups
      <3>. QED
        BY <3>1, OpenGroups
    <2>3. group' \in [Groups -> Group \cup {Unused}]
      BY <2>1, <2>2
    <2>. QED
      BY <1>0, <1>3, <2>3 DEF LeaveGroup
  <1>4. CASE NothingLeft(h)
    BY <1>0, <1>4 DEF NothingLeft
  <1>. QED
    BY <1>1, <1>2, <1>3, <1>4 DEF Leaving

\* Everything that is not a request: time, the monitor, ends, restarts.
Passing ==
    \/ \E p \in Groups : GroupAges(p)
    \/ ExpireGroups \/ RequeueExpired
    \/ \E t \in teams : TeamEnds(t)
    \/ Restart

LEMMA PassingTyped ==
    ASSUME TypeOK, ExpiredClosed, Passing
    PROVE  TypeOK'
  <1> USE DEF TypeOK
  <1>1. ASSUME NEW p \in Groups, GroupAges(p) PROVE TypeOK'
    <2>1. [group[p] EXCEPT !.stale = TRUE] \in Group
      BY <1>1, OpenGroups DEF GroupAges
    <2>2. group' \in [Groups -> Group \cup {Unused}]
      BY <1>1, <2>1 DEF GroupAges
    <2>. QED
      BY <1>1, <2>2 DEF GroupAges
  <1>2. CASE ExpireGroups
    <2>1. expired' \in SUBSET Groups /\ \A p \in expired' : group[p].st # "unused"
      BY <1>2 DEF ExpireGroups, Open
    <2>2. group' \in [Groups -> Group \cup {Unused}]
      <3>1. Close(expired')
        BY <1>2 DEF ExpireGroups
      <3> DEFINE S == expired'
      <3> HIDE DEF S
      <3>2. S \in SUBSET Groups /\ (\A p \in S : group[p].st # "unused") /\ Close(S)
        BY <2>1, <3>1 DEF S
      <3>. QED
        BY <3>2, CloseTyped
    <2>. QED
      BY <1>2, <2>1, <2>2 DEF ExpireGroups
  <1>3. CASE RequeueExpired
    <2>1. PICK p \in expired : /\ Add(group[p].cat, People(group[p]))
                               /\ expired' = expired \ {p}
      BY <1>3 DEF RequeueExpired, First
    <2>2. group[p] \in Group \cup {Unused} /\ group[p].st # "unused"
      BY DEF ExpiredClosed
    <2>3. group[p].cat \in Categories /\ People(group[p]) \in SUBSET Users
      BY <2>2, Groupness DEF People
    <2>. QED
      BY <1>3, <2>1, <2>3 DEF RequeueExpired, Add
  <1>4. ASSUME NEW t \in teams, TeamEnds(t) PROVE TypeOK'
    BY <1>4 DEF TeamEnds
  <1>5. CASE Restart
    <2>1. group' \in [Groups -> Group \cup {Unused}]
      BY <1>5, CloseTyped DEF Restart, Open
    <2>. QED
      BY <1>5, <2>1 DEF Restart, Request
  <1>. QED
    BY <1>1, <1>2, <1>3, <1>4, <1>5 DEF Passing

-----------------------------------------------------------------------------
(* The inductive invariant.  A group that is being launched is closed, is   *)
(* not put back as well, and is launched by one request only; a full group  *)
(* that is still open is watched by a request that will count its members   *)
(* or is about to take it.                                                  *)

LaunchClosed ==
    \A p \in Groups : \A h \in Handlers :
        req[h].at = "launch" /\ p \in req[h].from =>
            /\ group[p].st = "closed" /\ p \notin expired
            /\ \A i \in Handlers : req[i].at = "launch" /\ p \in req[i].from => i = h

Watches(r, p) == r.at \in {"count", "take"} /\ r.id = p

FullWatched == \A p \in Open : IsFull(group[p]) => \E h \in Handlers : Watches(req[h], p)

Inv == ExpiredClosed /\ LaunchClosed /\ FullWatched

IInv == TypeOK /\ Inv

LEMMA InitInv == Init => IInv
  BY DEF Init, IInv, Inv, TypeOK, Idle, Request, Unused, Open, ExpiredClosed, LaunchClosed, FullWatched

\* A request that leaves the groups alone, begins no launch of a group and
\* does not look away from a full one.
LEMMA QuietStep ==
    ASSUME IInv, NEW h \in Handlers, NEW r, Goto(h, r),
           UNCHANGED <<group, expired>>,
           r.at = "launch" => r.from = {},
           \A p \in Open : IsFull(group[p]) /\ Watches(req[h], p) => Watches(r, p)
    PROVE  Inv'
  <1>0. /\ req'[h] = r
        /\ \A i \in Handlers \ {h} : req'[i] = req[i]
        /\ Open' = Open
    BY DEF IInv, TypeOK, Goto, Open
  <1>1. ExpiredClosed'
    BY DEF IInv, Inv, ExpiredClosed
  <1>2. LaunchClosed'
    BY <1>0 DEF IInv, Inv, LaunchClosed
  <1>3. FullWatched'
    <2> SUFFICES ASSUME NEW p \in Open', IsFull(group[p])'
                 PROVE  \E i \in Handlers : Watches(req[i], p)'
      BY DEF FullWatched
    <2>1. p \in Open /\ IsFull(group[p])
      BY <1>0 DEF IsFull, Size
    <2>2. PICK i \in Handlers : Watches(req[i], p)
      BY <2>1 DEF IInv, Inv, FullWatched
    <2>3. Watches(req'[i], p)
      BY <1>0, <2>1, <2>2
    <2>. QED
      BY <2>3 DEF Watches
  <1>. QED
    BY <1>1, <1>2, <1>3 DEF Inv

\* Requests that change neither a group nor what is watched.
LEMMA QuietRequests ==
    ASSUME IInv, NEW h \in Handlers,
           \/ Asking(h) \/ NoGroup(h) \/ Enqueue(h) \/ GroupGone(h)
           \/ CountQueue(h) \/ PopMembers(h) \/ StartAtOnce(h)
           \/ LaunchTeam(h) \/ LaunchFails(h) \/ LeaveQueues(h) \/ NothingLeft(h)
    PROVE  Inv'
  <1> USE DEF Watches, Idle
  <1>1. ASSUME NEW u \in Users, NEW w \in Wants, AskQueues(h, u, w) PROVE Inv'
    <2>0. req[h].at = "idle" /\ UNCHANGED <<group, expired>>
      BY <1>1 DEF AskQueues
    <2>1. CASE Goto(h, Idle)
      BY <2>0, <2>1, QuietStep
    <2>2. CASE Goto(h, [at |-> "leave queues", user |-> u])
      BY <2>0, <2>2, QuietStep
    <2>3. CASE Goto(h, [at |-> "pendings", user |-> u, want |-> w])
      BY <2>0, <2>3, QuietStep
    <2>. QED
      BY <1>1, <2>1, <2>2, <2>3 DEF AskQueues, Engaged
  <1>2. CASE AskPendings(h)
    <2>1. CASE Goto(h, Idle)
      BY <1>2, <2>1, QuietStep DEF AskPendings
    <2>2. CASE Goto(h, [at |-> "leave queues", user |-> req[h].user])
      BY <1>2, <2>2, QuietStep DEF AskPendings
    <2>3. CASE Goto(h, On("registry", req[h]))
      BY <1>2, <2>3, QuietStep DEF AskPendings, On
    <2>. QED
      BY <1>2, <2>1, <2>2, <2>3 DEF AskPendings, Engaged
  <1>3. CASE AskRegistry(h)
    <2>1. CASE Goto(h, Idle)
      BY <1>3, <2>1, QuietStep DEF AskRegistry
    <2>2. ASSUME NEW at \in {"join", "draw"}, Goto(h, On(at, req[h])) PROVE Inv'
      BY <1>3, <2>2, QuietStep DEF AskRegistry, On
    <2>. QED
      BY <1>3, <2>1, <2>2 DEF AskRegistry
  <1>4. CASE NoGroup(h)
    BY <1>4, QuietStep DEF NoGroup, On
  <1>5. CASE Enqueue(h)
    BY <1>5, QuietStep DEF Enqueue
  <1>6. CASE GroupGone(h)
    BY <1>6, QuietStep DEF GroupGone
  <1>7. CASE CountQueue(h)
    <2> DEFINE n == Cardinality(queue[req[h].want.cat])
               r == [at |-> "pop", user |-> req[h].user, want |-> req[h].want,
                     take |-> IF n < req[h].want.num - 1 THEN n ELSE req[h].want.num - 1]
    <2>1. Goto(h, r) /\ r.at = "pop"
      BY <1>7 DEF CountQueue
    <2>. QED
      BY <1>7, <2>1, QuietStep DEF CountQueue
  <1>8. CASE PopMembers(h)
    <2>1. PICK S : Goto(h, [at |-> "form", want |-> req[h].want, lead |-> req[h].user, rest |-> S])
      BY <1>8 DEF PopMembers
    <2>. QED
      BY <1>8, <2>1, QuietStep DEF PopMembers
  <1>9. CASE StartAtOnce(h)
    BY <1>9, QuietStep DEF StartAtOnce
  <1>10. CASE LaunchTeam(h) \/ LaunchFails(h)
    BY <1>10, QuietStep DEF LaunchTeam, LaunchFails
  <1>11. CASE LeaveQueues(h) \/ NothingLeft(h)
    BY <1>11, QuietStep DEF LeaveQueues, NothingLeft
  <1>. QED
    BY <1>1, <1>2, <1>3, <1>4, <1>5, <1>6, <1>7, <1>8, <1>9, <1>10, <1>11 DEF Asking, Wants

LEMMA CountMembersInv ==
    ASSUME IInv, NEW h \in Handlers, CountMembers(h)
    PROVE  Inv'
  <1>0. req[h].at = "count" /\ UNCHANGED <<group, expired>>
    BY DEF CountMembers
  <1>1. CASE IsFull(group[req[h].id])
    <2>1. Goto(h, [at |-> "take", user |-> req[h].user, id |-> req[h].id])
      BY <1>1 DEF CountMembers
    <2>. QED
      BY <1>0, <2>1, QuietStep DEF Watches
  <1>2. CASE ~IsFull(group[req[h].id])
    <2>1. Goto(h, Idle)
      BY <1>2 DEF CountMembers
    <2>. QED
      BY <1>0, <1>2, <2>1, QuietStep DEF Watches, Idle
  <1>. QED
    BY <1>1, <1>2

LEMMA JoinGroupInv ==
    ASSUME IInv, NEW h \in Handlers, JoinGroup(h)
    PROVE  Inv'
  <1>0. req[h].at = "join" /\ expired' = expired
    BY DEF JoinGroup
  <1>1. CASE Goto(h, Idle) /\ UNCHANGED group
    BY <1>0, <1>1, QuietStep DEF Watches, Idle
  <1>2. ASSUME NEW p \in Open,
               group' = [group EXCEPT ![p].rest = @ \cup {req[h].user}],
               Goto(h, [at |-> "count", user |-> req[h].user, id |-> p])
        PROVE  Inv'
    <2>1. /\ p \in Groups /\ group[p].st = "open"
          /\ \A q \in Groups : group'[q].st = group[q].st
          /\ \A q \in Groups \ {p} : group'[q] = group[q]
      <3>1. p \in Groups /\ group[p] \in Group /\ group[p].st = "open"
        BY OpenGroups DEF IInv, Open
      <3>2. group'[p] = [group[p] EXCEPT !.rest = @ \cup {req[h].user}]
        BY <1>2, <3>1 DEF IInv, TypeOK
      <3>3. group'[p].st = group[p].st
        BY <3>1, <3>2 DEF Group
      <3>. QED
        BY <1>2, <3>1, <3>3 DEF IInv, TypeOK
    <2>2. /\ req'[h] = [at |-> "count", user |-> req[h].user, id |-> p]
          /\ \A i \in Handlers \ {h} : req'[i] = req[i]
      BY <1>2 DEF IInv, TypeOK, Goto
    <2>3. ExpiredClosed'
      BY <1>0, <2>1 DEF IInv, Inv, ExpiredClosed
    <2>4. LaunchClosed'
      BY <1>0, <2>1, <2>2 DEF IInv, Inv, LaunchClosed
    <2>5. FullWatched'
      <3> SUFFICES ASSUME NEW q \in Open', IsFull(group[q])'
                   PROVE  \E i \in Handlers : Watches(req'[i], q)
        BY DEF FullWatched, Watches
      <3>1. CASE q = p
        BY <2>2, <3>1 DEF Watches
      <3>2. CASE q # p
        <4>1. q \in Open /\ IsFull(group[q])
          BY <2>1, <3>2 DEF Open, IsFull, Size
        <4>2. PICK i \in Handlers : Watches(req[i], q)
          BY <4>1 DEF IInv, Inv, FullWatched
        <4>. QED
          BY <1>0, <2>2, <4>2 DEF Watches
      <3>. QED
        BY <3>1, <3>2
    <2>. QED
      BY <2>3, <2>4, <2>5 DEF Inv
  <1>. QED
    BY <1>1, <1>2 DEF JoinGroup, First, Found

LEMMA TakeGroupInv ==
    ASSUME IInv, NEW h \in Handlers, TakeGroup(h)
    PROVE  Inv'
  <1> DEFINE p == req[h].id
  <1>0. p \in Open /\ p \in Groups /\ group[p].st = "open" /\ expired' = expired
    BY DEF TakeGroup, Open
  <1>1. /\ group'[p].st = "closed"
        /\ \A q \in Groups \ {p} : group'[q] = group[q]
    BY <1>0, CloseTyped DEF IInv, TakeGroup
  <1>2. /\ req'[h] = LaunchOf(p)
        /\ LaunchOf(p).at = "launch" /\ LaunchOf(p).from = {p}
        /\ \A i \in Handlers \ {h} : req'[i] = req[i]
    BY DEF IInv, TypeOK, TakeGroup, Goto, LaunchOf
  <1>3. ExpiredClosed'
    BY <1>0, <1>1 DEF IInv, Inv, ExpiredClosed
  <1>4. p \notin expired /\ \A i \in Handlers : ~(req[i].at = "launch" /\ p \in req[i].from)
    BY <1>0 DEF IInv, Inv, ExpiredClosed, LaunchClosed
  <1>5. LaunchClosed'
    <2> SUFFICES ASSUME NEW q \in Groups, NEW g \in Handlers,
                        req'[g].at = "launch", q \in req'[g].from
                 PROVE  /\ group'[q].st = "closed" /\ q \notin expired
                        /\ \A i \in Handlers : req'[i].at = "launch" /\ q \in req'[i].from => i = g
      BY <1>0 DEF LaunchClosed
    <2>1. CASE g = h
      BY <1>1, <1>2, <1>4, <2>1
    <2>2. CASE g # h
      <3>1. req[g].at = "launch" /\ q \in req[g].from /\ q # p
        BY <1>2, <1>4, <2>2
      <3>. QED
        BY <1>1, <1>2, <3>1 DEF IInv, Inv, LaunchClosed
    <2>. QED
      BY <2>1, <2>2
  <1>6. FullWatched'
    <2> SUFFICES ASSUME NEW q \in Open', IsFull(group[q])'
                 PROVE  \E i \in Handlers : Watches(req'[i], q)
      BY DEF FullWatched, Watches
    <2>1. q # p /\ q \in Open /\ IsFull(group[q])
      BY <1>1 DEF Open, IsFull, Size
    <2>2. PICK i \in Handlers : Watches(req[i], q)
      BY <2>1 DEF IInv, Inv, FullWatched
    <2>3. i # h
      BY <2>1, <2>2 DEF Watches
    <2>. QED
      BY <1>2, <2>2, <2>3
  <1>. QED
    BY <1>3, <1>5, <1>6 DEF Inv

LEMMA OpenGroupInv ==
    ASSUME IInv, NEW h \in Handlers, OpenGroup(h)
    PROVE  Inv'
  <1> DEFINE g == [st |-> "open", cat |-> req[h].want.cat, num |-> req[h].want.num,
                   lead |-> req[h].lead, rest |-> req[h].rest, stale |-> FALSE]
  <1>1. PICK p \in Groups : group[p] = Unused /\ group' = [group EXCEPT ![p] = g]
    BY DEF OpenGroup, First
  <1>2. /\ group'[p] = g /\ group[p].st = "unused"
        /\ \A q \in Groups \ {p} : group'[q] = group[q]
    BY <1>1 DEF IInv, TypeOK, Unused
  <1>3. /\ req[h].at = "form" /\ req'[h].at = "idle" /\ expired' = expired
        /\ \A i \in Handlers \ {h} : req'[i] = req[i]
    BY DEF IInv, TypeOK, OpenGroup, Goto, Idle
  <1>4. ExpiredClosed'
    BY <1>2, <1>3 DEF IInv, Inv, ExpiredClosed
  <1>5. LaunchClosed'
    BY <1>2, <1>3 DEF IInv, Inv, LaunchClosed
  <1>6. FullWatched'
    <2> SUFFICES ASSUME NEW q \in Open', IsFull(group[q])'
                 PROVE  \E i \in Handlers : Watches(req'[i], q)
      BY DEF FullWatched, Watches
    <2>1. q # p
      <3>1. ~IsFull(g)
        <4>1. req[h] \in Request /\ req[h].want \in Starts /\ req[h].want \in Wants
              /\ req[h].rest \in SUBSET Users
          BY <1>3, RequestLocals DEF IInv, TypeOK, Wants
        <4>2. req[h].want.num \in Int
          BY <4>1, WantKinds, MatchAssumption
        <4>3. Size(req[h]) \in Int /\ Size(g) = Size(req[h])
          BY <4>1, SizeIsInt DEF Size
        <4>4. Size(req[h]) < req[h].want.num
          BY DEF OpenGroup
        <4>. QED
          BY <4>2, <4>3, <4>4 DEF IsFull
      <3>2. IsFull(group'[q])
        BY DEF IsFull, Size
      <3>. QED
        BY <1>2, <3>1, <3>2
    <2>2. q \in Open /\ IsFull(group[q])
      BY <1>2, <2>1 DEF Open, IsFull, Size
    <2>3. PICK i \in Handlers : Watches(req[i], q)
      BY <2>2 DEF IInv, Inv, FullWatched
    <2>. QED
      BY <1>3, <2>3 DEF Watches
  <1>. QED
    BY <1>4, <1>5, <1>6 DEF Inv

\* Steps that close groups: nobody looks away from one that stays open, and
\* only what was closed is put back.
LEMMA ClosingInv ==
    ASSUME IInv, NEW S \in SUBSET Open, Close(S),
           expired' \in SUBSET (expired \cup S),
           \A i \in Handlers : \/ req'[i] = req[i]
                               \/ /\ req'[i] = Idle
                                  /\ \A p \in Open \ S : ~Watches(req[i], p)
    PROVE  Inv'
  <1>1. /\ S \in SUBSET Groups
        /\ \A p \in S : group[p].st = "open" /\ group'[p].st = "closed"
        /\ \A p \in Groups \ S : group'[p] = group[p]
    BY CloseTyped DEF IInv, Open
  <1>2. ExpiredClosed'
    BY <1>1 DEF IInv, Inv, ExpiredClosed
  <1>3. LaunchClosed'
    BY <1>1 DEF IInv, Inv, LaunchClosed, Idle
  <1>4. FullWatched'
    <2> SUFFICES ASSUME NEW q \in Open', IsFull(group[q])'
                 PROVE  \E i \in Handlers : Watches(req'[i], q)
      BY DEF FullWatched, Watches
    <2>1. q \in Open \ S /\ IsFull(group[q])
      BY <1>1 DEF Open, IsFull, Size
    <2>2. PICK i \in Handlers : Watches(req[i], q)
      BY <2>1 DEF IInv, Inv, FullWatched
    <2>3. req'[i] = req[i]
      BY <2>1, <2>2
    <2>. QED
      BY <2>2, <2>3
  <1>. QED
    BY <1>2, <1>3, <1>4 DEF Inv

\* Closing no group is leaving the groups alone.
LEMMA CloseNone ==
    ASSUME TypeOK, UNCHANGED group
    PROVE  {} \in SUBSET Open /\ Close({})
  BY DEF TypeOK, Close

LEMMA LeaveGroupInv ==
    ASSUME IInv, NEW h \in Handlers, CancelGroup(h) \/ LeaveGroup(h)
    PROVE  Inv'
  <1>0. /\ req[h].at = "leave pendings" /\ req'[h] = Idle /\ expired' = expired
        /\ \A i \in Handlers \ {h} : req'[i] = req[i]
    BY DEF IInv, TypeOK, CancelGroup, LeaveGroup, Goto
  <1>i. Idle.at = "idle"
    BY DEF Idle
  <1>1. CASE CancelGroup(h)
    <2>1. PICK p \in Open : Close({p})
      BY <1>1 DEF CancelGroup, First, GroupsOf
    <2>. QED
      BY <1>0, <2>1, ClosingInv DEF Watches
  <1>2. CASE LeaveGroup(h)
    <2>1. PICK p \in Open : group' = [group EXCEPT ![p].rest = @ \ {req[h].user}]
      BY <1>2 DEF LeaveGroup, First, GroupsOf
    <2>2. /\ p \in Groups /\ group[p] \in Group
          /\ group[p].rest \in SUBSET Users /\ group[p].num \in Int
      BY OpenGroups, MatchAssumption DEF IInv
    <2>3. group'[p] = [group[p] EXCEPT !.rest = @ \ {req[h].user}]
      BY <2>1, <2>2 DEF IInv, TypeOK
    <2>4. /\ group'[p].st = group[p].st /\ group'[p].num = group[p].num
          /\ group'[p].rest = group[p].rest \ {req[h].user}
          /\ \A q \in Groups \ {p} : group'[q] = group[q]
      BY <2>1, <2>2, <2>3 DEF IInv, TypeOK, Group
    <2>5. ExpiredClosed'
      BY <1>0, <2>4 DEF IInv, Inv, ExpiredClosed
    <2>6. LaunchClosed'
      <3>1. req'[h].at = "idle"
        BY <1>0, <1>i
      <3>2. \A q \in Groups : group'[q].st = group[q].st
        BY <2>4
      <3>3. LaunchClosed
        BY DEF IInv, Inv
      <3> SUFFICES ASSUME NEW q \in Groups, NEW i \in Handlers,
                          req'[i].at = "launch", q \in req'[i].from
                   PROVE  /\ group'[q].st = "closed" /\ q \notin expired'
                          /\ \A g \in Handlers :
                               req'[g].at = "launch" /\ q \in req'[g].from => g = i
        BY DEF LaunchClosed
      <3>4. i # h /\ req'[i] = req[i]
        BY <1>0, <3>1
      <3>5. \A g \in Handlers : req'[g].at = "launch" => g # h /\ req'[g] = req[g]
        BY <1>0, <3>1
      <3>6. /\ group[q].st = "closed" /\ q \notin expired
            /\ \A g \in Handlers : req[g].at = "launch" /\ q \in req[g].from => g = i
        BY <3>3, <3>4 DEF LaunchClosed
      <3>. QED
        BY <1>0, <3>2, <3>5, <3>6
    <2>7. IsFull(group'[p]) => IsFull(group[p])
      <3>1. IsFiniteSet(group[p].rest)
        BY <2>2, MatchAssumption, FS_Subset
      <3>2. /\ Cardinality(group'[p].rest) <= Cardinality(group[p].rest)
            /\ Cardinality(group'[p].rest) \in Nat /\ Cardinality(group[p].rest) \in Nat
        BY <2>4, <3>1, FS_Subset, FS_CardinalityType
      <3>. QED
        BY <2>2, <2>4, <3>2 DEF IsFull, Size
    <2>8. FullWatched'
      <3> SUFFICES ASSUME NEW q \in Open', IsFull(group[q])'
                   PROVE  \E i \in Handlers : Watches(req'[i], q)
        BY DEF FullWatched, Watches
      <3>1. IsFull(group'[q])
        BY DEF IsFull, Size
      <3>2. q \in Open /\ IsFull(group[q])
        BY <2>4, <2>7, <3>1 DEF Open
      <3>3. PICK i \in Handlers : Watches(req[i], q)
        BY <3>2 DEF IInv, Inv, FullWatched
      <3>. QED
        BY <1>0, <3>3 DEF Watches
    <2>. QED
      BY <2>5, <2>6, <2>8 DEF Inv
  <1>. QED
    BY <1>1, <1>2

LEMMA PassingInv ==
    ASSUME IInv, Passing
    PROVE  Inv'
  <1>1. ASSUME NEW p \in Groups, GroupAges(p) PROVE Inv'
    <2>1. p \in Open /\ group[p] \in Group /\ group'[p] = [group[p] EXCEPT !.stale = TRUE]
      BY <1>1, OpenGroups DEF IInv, TypeOK, GroupAges
    <2>2. /\ group'[p].st = group[p].st /\ group'[p].num = group[p].num
          /\ group'[p].rest = group[p].rest
          /\ \A q \in Groups \ {p} : group'[q] = group[q]
          /\ req' = req /\ expired' = expired
      BY <1>1, <2>1 DEF IInv, TypeOK, GroupAges, Group
    <2>3. ExpiredClosed'
      BY <2>2 DEF IInv, Inv, ExpiredClosed
    <2>4. LaunchClosed'
      BY <2>2 DEF IInv, Inv, LaunchClosed
    <2>5. FullWatched'
      BY <2>2 DEF IInv, Inv, FullWatched, Open, IsFull, Size, Watches
    <2>. QED
      BY <2>3, <2>4, <2>5 DEF Inv
  <1>2. CASE ExpireGroups
    <2> DEFINE S == expired'
    <2>1. S \in SUBSET Open /\ Close(S) /\ req' = req
      BY <1>2 DEF ExpireGroups
    <2>2. S \in SUBSET (expired \cup S)
      OBVIOUS
    <2> HIDE DEF S
    <2>3. expired' \in SUBSET (expired \cup S)
      BY <2>2 DEF S
    <2>. QED
      BY <2>1, <2>3, ClosingInv
  <1>3. CASE RequeueExpired
    <2>1. expired' \in SUBSET (expired \cup {}) /\ UNCHANGED <<group, req>>
      BY <1>3 DEF RequeueExpired, First
    <2>. QED
      BY <2>1, CloseNone, ClosingInv DEF IInv
  <1>4. ASSUME NEW t \in teams, TeamEnds(t) PROVE Inv'
    <2>1. expired' \in SUBSET (expired \cup {}) /\ UNCHANGED <<group, req>>
      BY <1>4 DEF TeamEnds
    <2>. QED
      BY <2>1, CloseNone, ClosingInv DEF IInv
  <1>5. CASE Restart
    <2>1. Close(Open) /\ expired' \in SUBSET (expired \cup Open)
          /\ \A i \in Handlers : req'[i] = Idle
      BY <1>5 DEF Restart
    <2>. QED
      BY <2>1, ClosingInv
  <1>. QED
    BY <1>1, <1>2, <1>3, <1>4, <1>5 DEF Passing

LEMMA NextInv == IInv /\ [Next]_vars => IInv'
  <1> SUFFICES ASSUME IInv, [Next]_vars PROVE IInv'
    OBVIOUS
  <1>1. ASSUME NEW h \in Handlers, Asking(h) PROVE IInv'
    BY <1>1, AskingTyped, QuietRequests DEF IInv
  <1>2. ASSUME NEW h \in Handlers, Joining(h) PROVE IInv'
    BY <1>2, JoiningTyped, QuietRequests, CountMembersInv, JoinGroupInv, TakeGroupInv
       DEF IInv, Joining
  <1>3. ASSUME NEW h \in Handlers, Starting(h) PROVE IInv'
    BY <1>3, StartingTyped, QuietRequests, OpenGroupInv DEF IInv, Starting
  <1>4. ASSUME NEW h \in Handlers, Leaving(h) PROVE IInv'
    BY <1>4, LeavingTyped, QuietRequests, LeaveGroupInv DEF IInv, Leaving
  <1>5. ASSUME NEW h \in Handlers, LaunchTeam(h) \/ LaunchFails(h) PROVE IInv'
    BY <1>5, LaunchingTyped, QuietRequests DEF IInv
  <1>6. CASE Passing
    BY <1>6, PassingTyped, PassingInv DEF IInv, Inv
  <1>7. CASE UNCHANGED vars
    BY <1>7 DEF vars, IInv, TypeOK, Inv, ExpiredClosed, LaunchClosed, FullWatched,
                Open, Watches, IsFull, Size
  <1>. QED
    BY <1>1, <1>2, <1>3, <1>4, <1>5, <1>6, <1>7 DEF Next, Passing

\* The inductive invariant holds throughout.
THEOREM Invariant == Spec => []IInv
  BY InitInv, NextInv, PTL DEF Spec

\* Every variable of Matchmaking keeps its type.
THEOREM TypeCorrect == Spec => []TypeOK
  <1>1. IInv => TypeOK
    BY DEF IInv
  <1>. QED
    BY <1>1, Invariant, PTL

\* A waiting group is given to one launch, or put back, and never both: of any
\* number of requests that find it full, and the cleanup, one takes it.
THEOREM GroupTakenOnce == Spec => []TakenOnce
  <1>1. IInv => TakenOnce
    <2> SUFFICES ASSUME IInv, NEW p \in Groups, NEW h \in Handlers,
                        req[h].at = "launch", p \in req[h].from
                 PROVE  /\ p \notin Open \cup expired
                        /\ \A i \in Handlers : req[i].at = "launch" /\ p \in req[i].from => i = h
      BY DEF TakenOnce
    <2>. QED
      BY DEF IInv, Inv, LaunchClosed, Open
  <1>. QED
    BY <1>1, Invariant, PTL

\* When no request is under way, no open group is full: whoever fills it, one
\* of the requests notices, although they count outside the lock.
THEOREM FullGroupsLaunched == Spec => []FullIsLaunched
  <1>1. IInv => FullIsLaunched
    <2> SUFFICES ASSUME IInv, Quiescent, NEW p \in Open, IsFull(group[p]) PROVE FALSE
      BY DEF FullIsLaunched, IsFull
    <2>1. PICK h \in Handlers : Watches(req[h], p)
      BY DEF IInv, Inv, FullWatched
    <2>2. req[h] = Idle
      BY DEF Quiescent
    <2>3. Idle.at = "idle"
      BY DEF Idle
    <2>. QED
      BY <2>1, <2>2, <2>3 DEF Watches
  <1>. QED
    BY <1>1, Invariant, PTL

-----------------------------------------------------------------------------
(* Nobody is dropped: where a place goes in each step that moves people.    *)

\* Whoever had a place keeps it when queues and groups only grow and a request
\* moves on that holds nobody.
LEMMA PlacesGrow ==
    ASSUME NEW u \in Users, Placed(u), NEW h \in Handlers,
           \A k \in Categories : queue[k] \subseteq queue'[k],
           \A p \in Open \cup expired :
               p \in (Open \cup expired)' /\ People(group[p]) \subseteq People(group'[p]),
           \A i \in Handlers \ {h} : req'[i] = req[i],
           req[h].at \notin {"form", "launch"},
           \A t \in teams : t \in teams'
    PROVE  Placed(u)'
  <1>1. CASE \E k \in Categories : u \in queue[k]
    BY <1>1 DEF Placed
  <1>2. CASE \E p \in Open \cup expired : u \in People(group[p])
    <2>1. PICK p \in Open \cup expired : u \in People(group[p])
      BY <1>2
    <2>2. p \in (Open \cup expired)' /\ u \in People(group'[p])
      BY <2>1
    <2>. QED
      BY <2>2 DEF Placed, People
  <1>3. CASE \E i \in Handlers : req[i].at \in {"form", "launch"} /\ u \in People(req[i])
    <2>1. PICK i \in Handlers : req[i].at \in {"form", "launch"} /\ u \in People(req[i])
      BY <1>3
    <2>2. req'[i].at \in {"form", "launch"} /\ u \in People(req'[i])
      BY <2>1
    <2>. QED
      BY <2>2 DEF Placed, People
  <1>4. CASE \E t \in teams : u \in t.members
    BY <1>4 DEF Placed
  <1>. QED
    BY <1>1, <1>2, <1>3, <1>4 DEF Placed

LEMMA RequestKeepsPlaces ==
    ASSUME IInv, NEW u \in Users, Placed(u), NEW h \in Handlers,
           \/ Asking(h) \/ JoinGroup(h) \/ NoGroup(h) \/ Enqueue(h) \/ CountMembers(h)
           \/ GroupGone(h) \/ CountQueue(h) \/ NothingLeft(h)
    PROVE  Placed(u)'
  <1> USE DEF IInv, TypeOK
  <1>1. \A i \in Handlers \ {h} : req'[i] = req[i]
    BY DEF Asking, AskQueues, AskPendings, AskRegistry, JoinGroup, NoGroup, Enqueue,
           CountMembers, GroupGone, CountQueue, NothingLeft, Goto
  <1>i. Idle.at = "idle"
    BY DEF Idle
  <1>2. req[h].at \notin {"form", "launch"}
    BY <1>i DEF Asking, AskQueues, AskPendings, AskRegistry, JoinGroup, NoGroup, Enqueue,
                CountMembers, GroupGone, CountQueue, NothingLeft
  <1>3. expired' = expired /\ teams' = teams
    BY DEF Asking, AskQueues, AskPendings, AskRegistry, JoinGroup, NoGroup, Enqueue,
           CountMembers, GroupGone, CountQueue, NothingLeft
  <1>4. \A k \in Categories : queue[k] \subseteq queue'[k]
    BY DEF Asking, AskQueues, AskPendings, AskRegistry, JoinGroup, NoGroup, Enqueue,
           CountMembers, GroupGone, CountQueue, NothingLeft, Add
  <1>5. \A p \in Open \cup expired :
            p \in (Open \cup expired)' /\ People(group[p]) \subseteq People(group'[p])
    <2>1. CASE UNCHANGED group
      BY <1>3, <2>1 DEF Open
    <2>2. ASSUME NEW q \in Open, group' = [group EXCEPT ![q].rest = @ \cup {req[h].user}]
          PROVE  \A p \in Open \cup expired :
                   p \in (Open \cup expired)' /\ People(group[p]) \subseteq People(group'[p])
      <3>1. q \in Groups /\ group[q] \in Group
        BY OpenGroups
      <3>2. group'[q] = [group[q] EXCEPT !.rest = @ \cup {req[h].user}]
        BY <2>2, <3>1
      <3>3. /\ group'[q].st = group[q].st /\ group'[q].lead = group[q].lead
            /\ group[q].rest \subseteq group'[q].rest
        BY <3>1, <3>2 DEF Group
      <3>4. \A p \in Groups \ {q} : group'[p] = group[p]
        BY <2>2, <3>1
      <3>. QED
        BY <1>3, <3>1, <3>3, <3>4 DEF Open, People
    <2>3. CASE JoinGroup(h)
      <3>1. \/ UNCHANGED group
            \/ \E q \in Open : group' = [group EXCEPT ![q].rest = @ \cup {req[h].user}]
        BY <2>3 DEF JoinGroup, First, Found
      <3>. QED
        BY <2>1, <2>2, <3>1
    <2>4. CASE ~JoinGroup(h)
      <3>1. UNCHANGED group
        BY <2>4 DEF Asking, AskQueues, AskPendings, AskRegistry, NoGroup, Enqueue,
                    CountMembers, GroupGone, CountQueue, NothingLeft
      <3>. QED
        BY <2>1, <3>1
    <2>. QED
      BY <2>3, <2>4
  <1>. QED
    BY <1>1, <1>2, <1>3, <1>4, <1>5, PlacesGrow

LEMMA StartKeepsPlaces ==
    ASSUME IInv, NEW u \in Users, Placed(u), NEW h \in Handlers,
           TakeGroup(h) \/ PopMembers(h) \/ StartAtOnce(h) \/ OpenGroup(h) \/ LaunchTeam(h)
    PROVE  Placed(u)'
  <1> USE DEF IInv, TypeOK
  <1>0. /\ \A i \in Handlers \ {h} : req'[i] = req[i]
        /\ expired' = expired
        /\ \A t \in teams : t \in teams'
    BY DEF TakeGroup, PopMembers, StartAtOnce, OpenGroup, LaunchTeam, Goto
  \* Those whom another request holds, and those in a team.
  <1>1. CASE \/ \E i \in Handlers \ {h} : req[i].at \in {"form", "launch"} /\ u \in People(req[i])
             \/ \E t \in teams : u \in t.members
    BY <1>0, <1>1 DEF Placed, People
  \* Those in an expired group: it stays as it is.
  <1>2. CASE \E p \in expired : u \in People(group[p])
    <2>1. PICK p \in expired : u \in People(group[p])
      BY <1>2
    <2>2. p \in Groups /\ group[p].st = "closed"
      BY DEF Inv, ExpiredClosed
    <2>3. group'[p] = group[p]
      <3>1. CASE TakeGroup(h)
        <4>1. p # req[h].id /\ req[h].id \in Open /\ Close({req[h].id})
          BY <2>2, <3>1 DEF TakeGroup, Open
        <4>. QED
          BY <2>2, <4>1 DEF Close
      <3>2. CASE OpenGroup(h)
        BY <2>2, <3>2 DEF OpenGroup, First, Unused
      <3>. QED
        BY <2>2, <3>1, <3>2 DEF PopMembers, StartAtOnce, LaunchTeam
    <2>. QED
      BY <1>0, <2>1, <2>3 DEF Placed, People
  \* Those in an open group: it stays open, or is taken with all its people.
  <1>3. CASE \E p \in Open : u \in People(group[p])
    <2>1. PICK p \in Open : u \in People(group[p])
      BY <1>3
    <2>2. p \in Groups /\ group[p].st = "open"
      BY DEF Open
    <2>3. CASE group'[p] = group[p]
      BY <2>1, <2>2, <2>3 DEF Placed, People, Open
    <2>4. CASE TakeGroup(h) /\ req[h].id = p
      <3>1. req'[h] = LaunchOf(p)
        BY <2>4 DEF TakeGroup, Goto
      <3>2. LaunchOf(p).at = "launch" /\ People(LaunchOf(p)) = People(group[p])
        BY DEF LaunchOf, People
      <3>. QED
        BY <2>1, <3>1, <3>2 DEF Placed, People
    <2>5. CASE TakeGroup(h) /\ req[h].id # p
      BY <2>2, <2>3, <2>5 DEF TakeGroup, Close
    <2>6. CASE OpenGroup(h)
      BY <2>2, <2>3, <2>6 DEF OpenGroup, First, Unused
    <2>. QED
      BY <2>2, <2>3, <2>4, <2>5, <2>6 DEF PopMembers, StartAtOnce, LaunchTeam
  \* Those in a queue: they stay there unless popped, and then the request has them.
  <1>4. CASE \E k \in Categories : u \in queue[k]
    <2>1. PICK k \in Categories : u \in queue[k]
      BY <1>4
    <2>2. CASE u \in queue'[k]
      BY <2>2 DEF Placed
    <2>3. CASE u \notin queue'[k]
      <3>1. PopMembers(h)
        BY <2>1, <2>3 DEF TakeGroup, StartAtOnce, OpenGroup, LaunchTeam
      <3>2. PICK S : /\ queue' = [queue EXCEPT ![req[h].want.cat] = @ \ S]
                     /\ Goto(h, [at |-> "form", want |-> req[h].want, lead |-> req[h].user, rest |-> S])
        BY <3>1 DEF PopMembers
      <3>3. u \in S
        BY <2>1, <2>3, <3>2
      <3>4. req'[h].at = "form" /\ req'[h].rest = S
        BY <3>2 DEF Goto
      <3>. QED
        BY <3>3, <3>4 DEF Placed, People
    <2>. QED
      BY <2>2, <2>3
  \* Those the request itself holds: it goes on with them or has placed them.
  <1>5. CASE req[h].at \in {"form", "launch"} /\ u \in People(req[h])
    <2>1. CASE StartAtOnce(h)
      <3>1. req'[h].at = "launch" /\ req'[h].lead = req[h].lead /\ req'[h].rest = req[h].rest
        BY <2>1 DEF StartAtOnce, Goto
      <3>. QED
        BY <1>5, <3>1 DEF Placed, People
    <2>2. CASE OpenGroup(h)
      <3>1. PICK p \in Groups : group' = [group EXCEPT ![p] =
                  [st |-> "open", cat |-> req[h].want.cat, num |-> req[h].want.num,
                   lead |-> req[h].lead, rest |-> req[h].rest, stale |-> FALSE]]
        BY <2>2 DEF OpenGroup, First
      <3>2. group'[p].st = "open" /\ group'[p].lead = req[h].lead /\ group'[p].rest = req[h].rest
        BY <3>1
      <3>. QED
        BY <1>5, <3>2 DEF Placed, People, Open
    <2>3. CASE LaunchTeam(h)
      <3>1. \E t \in teams' : t.members = People(req[h])
        <4>1. PICK row \in BOOLEAN :
                teams' = teams \cup {[members |-> People(req[h]), size |-> Size(req[h]),
                                     num |-> req[h].num, row |-> row]}
          BY <2>3 DEF LaunchTeam
        <4>2. [members |-> People(req[h]), size |-> Size(req[h]),
               num |-> req[h].num, row |-> row] \in teams'
          BY <4>1
        <4>. QED
          BY <4>2
      <3>2. \E t \in teams' : u \in t.members
        BY <1>5, <3>1
      <3>. QED
        BY <3>2 DEF Placed
    <2>. QED
      BY <1>5, <2>1, <2>2, <2>3 DEF TakeGroup, PopMembers
  <1>. QED
    BY <1>1, <1>2, <1>3, <1>4, <1>5 DEF Placed

LEMMA LeaveKeepsPlaces ==
    ASSUME IInv, NEW u \in Users, Placed(u), NEW h \in Handlers,
           LeaveQueues(h) \/ CancelGroup(h) \/ LeaveGroup(h) \/ LaunchFails(h)
    PROVE  Placed(u)' \/ Excused(u)
  <1> USE DEF IInv, TypeOK
  <1>0. /\ \A i \in Handlers \ {h} : req'[i] = req[i]
        /\ req'[h] # req[h] /\ expired' = expired /\ teams' = teams
    <2>1. Idle.at = "idle"
      BY DEF Idle
    <2>2. \E r : req' = [req EXCEPT ![h] = r]
      BY DEF LeaveQueues, CancelGroup, LeaveGroup, LaunchFails, Goto
    <2>3. CASE LeaveQueues(h)
      <3>1. req'[h].at = "leave pendings" /\ req[h].at = "leave queues"
        BY <2>3 DEF LeaveQueues, Goto
      <3>. QED
        BY <2>2, <2>3, <3>1 DEF LeaveQueues
    <2>4. CASE CancelGroup(h) \/ LeaveGroup(h) \/ LaunchFails(h)
      <3>1. req'[h] = Idle /\ req[h].at # "idle"
        BY <2>4 DEF CancelGroup, LeaveGroup, LaunchFails, Goto
      <3>2. req'[h] # req[h]
        BY <2>1, <3>1
      <3>. QED
        BY <2>2, <2>4, <3>2 DEF CancelGroup, LeaveGroup, LaunchFails
    <2>. QED
      BY <2>3, <2>4
  <1>1. CASE LaunchFails(h) /\ u \in req[h].popped
    <2>1. req[h].cat \in Categories
      BY <1>1, RequestLocals DEF LaunchFails
    <2>2. u \in queue'[req[h].cat]
      BY <1>1, <2>1 DEF LaunchFails, Add
    <2>. QED
      BY <2>1, <2>2 DEF Placed
  <1>2. CASE LaunchFails(h) /\ u \notin req[h].popped
    BY <1>2 DEF Excused
  <1>3. CASE ~LaunchFails(h) /\ req[h].user = u
    BY <1>0, <1>3 DEF Excused, LeaveQueues, CancelGroup, LeaveGroup
  <1>4. CASE ~LaunchFails(h) /\ req[h].user # u
    <2>0. req[h].at \in {"leave queues", "leave pendings"}
      BY <1>4 DEF LeaveQueues, CancelGroup, LeaveGroup
    <2>1. CASE LeaveQueues(h)
      <3>1. UNCHANGED group
        BY <2>1 DEF LeaveQueues
      <3>2. \A k \in Categories : u \in queue[k] => u \in queue'[k]
        BY <1>4, <2>1 DEF LeaveQueues
      <3>3. \A i \in Handlers : req[i].at \in {"form", "launch"} => req'[i] = req[i]
        BY <1>0, <2>0
      <3>. QED
        BY <1>0, <3>1, <3>2, <3>3 DEF Placed, People, Open
    <2>2. CASE CancelGroup(h)
      <3>1. PICK p \in Open : /\ group[p].lead = req[h].user /\ Close({p})
                              /\ Add(group[p].cat, group[p].rest \ {req[h].user})
        BY <2>2 DEF CancelGroup, First, GroupsOf
      <3>2. p \in Groups /\ group[p].cat \in Categories
        BY OpenGroups
      <3>3. \A q \in Groups \ {p} : group'[q] = group[q]
        BY <3>1 DEF Close
      <3>4. CASE u \in People(group[p])
        <4>1. u \in queue'[group[p].cat]
          BY <1>4, <3>1, <3>2, <3>4 DEF Add, People
        <4>. QED
          BY <3>2, <4>1 DEF Placed
      <3>5. CASE u \notin People(group[p])
        <4>1. \A k \in Categories : queue[k] \subseteq queue'[k]
          BY <3>1, <3>2 DEF Add
        <4>2. \A q \in Open \cup expired : u \in People(group[q]) =>
                 q \in (Open \cup expired)' /\ u \in People(group'[q])
          BY <1>0, <3>3, <3>5 DEF Open, People
        <4>3. \A i \in Handlers : req[i].at \in {"form", "launch"} => req'[i] = req[i]
          BY <1>0, <2>0
        <4>. QED
          BY <1>0, <4>1, <4>2, <4>3 DEF Placed, People
      <3>. QED
        BY <3>4, <3>5
    <2>3. CASE LeaveGroup(h)
      <3>1. PICK p \in Open : group' = [group EXCEPT ![p].rest = @ \ {req[h].user}]
        BY <2>3 DEF LeaveGroup, First, GroupsOf
      <3>2. p \in Groups /\ group[p] \in Group
        BY OpenGroups
      <3>3. group'[p] = [group[p] EXCEPT !.rest = @ \ {req[h].user}]
        BY <3>1, <3>2
      <3>4. /\ group'[p].st = group[p].st /\ group'[p].lead = group[p].lead
            /\ group'[p].rest = group[p].rest \ {req[h].user}
        BY <3>2, <3>3 DEF Group
      <3>5. \A q \in Groups \ {p} : group'[q] = group[q]
        BY <3>1, <3>2
      <3>6. \A q \in Open \cup expired : u \in People(group[q]) =>
               q \in (Open \cup expired)' /\ u \in People(group'[q])
        BY <1>0, <1>4, <3>2, <3>4, <3>5 DEF Open, People
      <3>7. \A i \in Handlers : req[i].at \in {"form", "launch"} => req'[i] = req[i]
        BY <1>0, <2>0
      <3>8. queue' = queue
        BY <2>3 DEF LeaveGroup
      <3>. QED
        BY <1>0, <3>6, <3>7, <3>8 DEF Placed, People
    <2>. QED
      BY <1>4, <2>1, <2>2, <2>3
  <1>. QED
    BY <1>1, <1>2, <1>3, <1>4

LEMMA PassingKeepsPlaces ==
    ASSUME IInv, NEW u \in Users, Placed(u), Passing
    PROVE  Placed(u)' \/ Excused(u)
  <1> USE DEF IInv, TypeOK
  <1>1. ASSUME NEW p \in Groups, GroupAges(p) PROVE Placed(u)'
    <2>1. p \in Open /\ group[p] \in Group /\ group'[p] = [group[p] EXCEPT !.stale = TRUE]
      BY <1>1, OpenGroups DEF GroupAges
    <2>2. /\ group'[p].st = group[p].st /\ group'[p].lead = group[p].lead
          /\ group'[p].rest = group[p].rest
      BY <2>1 DEF Group
    <2>3. /\ \A q \in Groups \ {p} : group'[q] = group[q]
          /\ req' = req /\ expired' = expired /\ queue' = queue /\ teams' = teams
      BY <1>1 DEF GroupAges
    <2>. QED
      BY <2>2, <2>3 DEF Placed, People, Open
  <1>2. CASE ExpireGroups
    <2>1. \A p \in Open \cup expired : p \in (Open \cup expired)' /\ People(group'[p]) = People(group[p])
      <3> SUFFICES ASSUME NEW p \in Open \cup expired
                   PROVE  p \in (Open \cup expired)' /\ People(group'[p]) = People(group[p])
        OBVIOUS
      <3>1. p \in Open /\ group[p] \in Group /\ p \in Groups
        BY <1>2, OpenGroups DEF ExpireGroups
      <3>2. CASE p \in expired'
        <4>1. group'[p] = [group[p] EXCEPT !.st = "closed"]
          BY <1>2, <3>1, <3>2 DEF ExpireGroups, Close
        <4>2. group'[p].lead = group[p].lead /\ group'[p].rest = group[p].rest
          BY <3>1, <4>1 DEF Group
        <4>. QED
          BY <3>2, <4>2 DEF People
      <3>3. CASE p \notin expired'
        <4>1. group'[p] = group[p]
          BY <1>2, <3>1, <3>3 DEF ExpireGroups, Close
        <4>. QED
          BY <3>1, <4>1 DEF People, Open
      <3>. QED
        BY <3>2, <3>3
    <2>2. queue' = queue /\ req' = req /\ teams' = teams
      BY <1>2 DEF ExpireGroups
    <2>. QED
      BY <2>1, <2>2 DEF Placed, People
  <1>3. CASE RequeueExpired
    <2>1. PICK p \in expired : /\ Add(group[p].cat, People(group[p]))
                               /\ expired' = expired \ {p}
      BY <1>3 DEF RequeueExpired, First
    <2>2. group[p].cat \in Categories
      BY Groupness DEF Inv, ExpiredClosed
    <2>3. group' = group /\ req' = req /\ teams' = teams
      BY <1>3 DEF RequeueExpired
    <2>4. CASE u \in People(group[p])
      <3>1. u \in queue'[group[p].cat]
        BY <2>1, <2>2, <2>4 DEF Add
      <3>. QED
        BY <2>2, <3>1 DEF Placed
    <2>5. CASE u \notin People(group[p])
      <3>1. \A k \in Categories : queue[k] \subseteq queue'[k]
        BY <2>1, <2>2 DEF Add
      <3>2. Open' = Open
        BY <2>3 DEF Open
      <3>. QED
        BY <2>1, <2>3, <2>5, <3>1, <3>2 DEF Placed, People
    <2>. QED
      BY <2>4, <2>5
  <1>4. CASE (\E t \in teams : TeamEnds(t)) \/ Restart
    BY <1>4 DEF Excused
  <1>. QED
    BY <1>1, <1>2, <1>3, <1>4 DEF Passing

\* Nobody who has a place in a queue, a group, a launch or a team loses it but
\* by leaving, by a refused channel, by the end of a challenge or by a restart.
THEOREM NobodyIsDropped == Spec => NobodyDropped
  <1>1. ASSUME IInv, [Next]_vars
        PROVE  [\A u \in Users : Placed(u) => Placed(u)' \/ Excused(u)]_vars
    <2> SUFFICES ASSUME Next, NEW u \in Users, Placed(u) PROVE Placed(u)' \/ Excused(u)
      BY <1>1
    <2>1. ASSUME NEW h \in Handlers, Asking(h) \/ Joining(h) \/ Starting(h)
          PROVE  Placed(u)'
      BY <1>1, <2>1, RequestKeepsPlaces, StartKeepsPlaces DEF Joining, Starting
    <2>2. ASSUME NEW h \in Handlers, Leaving(h) \/ LaunchTeam(h) \/ LaunchFails(h)
          PROVE  Placed(u)' \/ Excused(u)
      BY <1>1, <2>2, RequestKeepsPlaces, StartKeepsPlaces, LeaveKeepsPlaces DEF Leaving
    <2>3. CASE Passing
      BY <1>1, <2>3, PassingKeepsPlaces
    <2>. QED
      BY <2>1, <2>2, <2>3 DEF Next, Passing
  <1>. QED
    BY <1>1, Invariant, PTL DEF Spec, NobodyDropped

-----------------------------------------------------------------------------
(* WaitingQueue: Matchmaking takes each queue of a category for a set of    *)
(* users.  What follows is about the queue itself, for any users and times, *)
(* and ends in the proof that it is such a set.                             *)

CONSTANT LastMoment

VARIABLES joined, before, held, clock

Q == INSTANCE WaitingQueue

\* The users who are in the queue.
AsSet == INSTANCE SetQueue WITH waiting <- Q!Members

\* WaitingQueue and SetQueue count as this module does.
LEMMA QueueSameCount ==
    \A S : Q!Cardinality(S) = Cardinality(S) /\ AsSet!Cardinality(S) = Cardinality(S)
  BY DEF Q!Cardinality, AsSet!Cardinality, Cardinality

-----------------------------------------------------------------------------
(* WaitingQueue: what a pop leaves                                           *)

\* What a pop leaves of the list is a list of those who stay: no sorting is
\* needed after it.
LEMMA QueueRestrictedOrder ==
    ASSUME NEW S, S \subseteq Q!Members, before \in Q!Orders(joined)
    PROVE  before \cap (S \X S) \in Q!Orders(Q!Restricted(S))
  <1> DEFINE rest == before \cap (S \X S)
  <1>1. DOMAIN Q!Restricted(S) = S /\ \A u \in S : Q!Restricted(S)[u] = joined[u]
    BY DEF Q!Restricted
  <1>2. rest \in SUBSET (S \X S)
    OBVIOUS
  <1>3. \A u, v \in S : <<u, v>> \in rest <=> <<u, v>> \in before
    OBVIOUS
  <1>4. \A u \in S : <<u, u>> \notin rest
    BY <1>3 DEF Q!Orders, Q!Members
  <1>5. \A u, v, w \in S : <<u, v>> \in rest /\ <<v, w>> \in rest => <<u, w>> \in rest
    BY <1>3 DEF Q!Orders, Q!Members
  <1>6. \A u, v \in S : u # v => <<u, v>> \in rest \/ <<v, u>> \in rest
    BY <1>3 DEF Q!Orders, Q!Members
  <1>7. \A u, v \in S : <<u, v>> \in rest => Q!Restricted(S)[u] <= Q!Restricted(S)[v]
    BY <1>1, <1>3 DEF Q!Orders, Q!Members
  <1> QED
    BY <1>1, <1>2, <1>4, <1>5, <1>6, <1>7 DEF Q!Orders

-----------------------------------------------------------------------------
(* WaitingQueue: type correctness and the order                             *)

QueueInv == Q!TypeOK /\ Q!ListMatchesItems

LEMMA QueueInitHolds == Q!Init => QueueInv
  BY DEF Q!Init, Q!Empty, QueueInv, Q!TypeOK, Q!Members, Q!ListMatchesItems, Q!Orders

\* Adding an item that has a moment of time.
LEMMA QueueAddHolds ==
    ASSUME QueueInv, NEW u \in Users, NEW moment \in Nat, Q!Add(u, moment)
    PROVE  /\ joined' \in [Q!Members' -> Nat] /\ Q!Members' \subseteq Users
           /\ before' \in SUBSET (Users \X Users)
           /\ Q!ListMatchesItems'
  <1>1. CASE u \in Q!Members
    BY <1>1 DEF Q!Add, QueueInv, Q!TypeOK, Q!ListMatchesItems, Q!Orders, Q!Members
  <1>2. CASE u \notin Q!Members
    <2>1. Q!Members' = Q!Members \cup {u}
      BY <1>2 DEF Q!Add, Q!Members
    <2>2. joined' \in [Q!Members' -> Nat] /\ Q!Members' \subseteq Users
      BY <1>2, <2>1 DEF Q!Add, QueueInv, Q!TypeOK, Q!Members
    <2>3. before' \in Q!Orders(joined')
      BY <1>2 DEF Q!Add, Q!Reorder
    <2>4. before' \in SUBSET (Q!Members' \X Q!Members')
      BY <2>3 DEF Q!Orders, Q!Members
    <2> QED
      BY <2>2, <2>3, <2>4 DEF Q!ListMatchesItems
  <1> QED
    BY <1>1, <1>2

LEMMA QueuePopHolds ==
    ASSUME QueueInv, NEW T \in SUBSET Q!Members, Q!Pop(T)
    PROVE  QueueInv'
  <1> DEFINE rest == Q!Members \ T
  <1>1. joined' = Q!Restricted(rest) /\ Q!Members' = rest
    BY DEF Q!Pop, Q!Restricted, Q!Members
  <1>2. joined' \in [Q!Members' -> Nat] /\ Q!Members' \subseteq Users
    BY <1>1 DEF Q!Restricted, QueueInv, Q!TypeOK
  <1>3. before' \in SUBSET (Users \X Users)
    BY DEF Q!Pop, QueueInv, Q!TypeOK
  <1>4. held' \in SUBSET (Users \X Nat) /\ clock' \in Nat
    BY DEF Q!Pop, QueueInv, Q!TypeOK
  <1>5. before' \in Q!Orders(joined')
    BY <1>1, QueueRestrictedOrder DEF Q!Pop, QueueInv, Q!ListMatchesItems
  <1> QED
    BY <1>2, <1>3, <1>4, <1>5 DEF QueueInv, Q!TypeOK, Q!ListMatchesItems

LEMMA QueueNextHolds == QueueInv /\ [Q!Next]_Q!vars => QueueInv'
  <1> SUFFICES ASSUME QueueInv, [Q!Next]_Q!vars PROVE QueueInv'
    OBVIOUS
  <1>1. ASSUME NEW u \in Users, Q!Join(u) PROVE QueueInv'
    <2>1. clock \in Nat /\ Q!Add(u, clock) /\ UNCHANGED <<held, clock>>
      BY <1>1 DEF Q!Join, QueueInv, Q!TypeOK
    <2> QED
      BY <2>1, QueueAddHolds DEF QueueInv, Q!TypeOK
  <1>2. ASSUME NEW u \in Users, Q!Remove(u) PROVE QueueInv'
    <2>1. Q!Members' = Q!Members \ {u}
      BY <1>2 DEF Q!Remove, Q!Restricted, Q!Members
    <2>2. joined' \in [Q!Members' -> Nat] /\ Q!Members' \subseteq Users
      BY <1>2, <2>1 DEF Q!Remove, Q!Restricted, QueueInv, Q!TypeOK, Q!Members
    <2>3. before' \in Q!Orders(joined')
      BY <1>2 DEF Q!Remove, Q!Reorder
    <2>4. before' \in SUBSET (Q!Members' \X Q!Members')
      BY <2>3 DEF Q!Orders, Q!Members
    <2> QED
      BY <1>2, <2>2, <2>3, <2>4 DEF Q!Remove, QueueInv, Q!TypeOK, Q!ListMatchesItems
  <1>3. ASSUME NEW item \in held, Q!ReEnqueue(item) PROVE QueueInv'
    <2>1. item[1] \in Users /\ item[2] \in Nat /\ Q!Add(item[1], item[2])
      BY <1>3 DEF Q!ReEnqueue, QueueInv, Q!TypeOK
    <2>2. held' \in SUBSET (Users \X Nat) /\ clock' \in Nat
      BY <1>3 DEF Q!ReEnqueue, QueueInv, Q!TypeOK
    <2> QED
      BY <2>1, <2>2, QueueAddHolds DEF QueueInv, Q!TypeOK
  <1>4. ASSUME NEW item \in held, Q!Drop(item) PROVE QueueInv'
    BY <1>4 DEF Q!Drop, QueueInv, Q!TypeOK, Q!ListMatchesItems, Q!Orders, Q!Members
  <1>5. ASSUME NEW n, Q!PopN(n) PROVE QueueInv'
    <2>1. CASE UNCHANGED Q!vars
      BY <2>1 DEF Q!vars, QueueInv, Q!TypeOK, Q!ListMatchesItems, Q!Orders, Q!Members
    <2>2. CASE \E T \in SUBSET Q!Members : Q!FirstOf(n, Q!Members, T) /\ Q!Pop(T)
      BY <2>2, QueuePopHolds
    <2> QED
      BY <1>5, <2>1, <2>2 DEF Q!PopN
  <1>6. ASSUME NEW n, NEW X, Q!PopNExcluding(n, X) PROVE QueueInv'
    <2>1. CASE UNCHANGED Q!vars
      BY <2>1 DEF Q!vars, QueueInv, Q!TypeOK, Q!ListMatchesItems, Q!Orders, Q!Members
    <2>2. CASE \E T \in SUBSET Q!Members : Q!FirstOf(n, Q!Members \ X, T) /\ Q!Pop(T)
      BY <2>2, QueuePopHolds
    <2> QED
      BY <1>6, <2>1, <2>2 DEF Q!PopNExcluding
  <1>7. ASSUME Q!Clear PROVE QueueInv'
    BY <1>7 DEF Q!Clear, Q!Empty, QueueInv, Q!TypeOK, Q!ListMatchesItems, Q!Orders, Q!Members
  <1>8. ASSUME Q!TimePasses PROVE QueueInv'
    BY <1>8 DEF Q!TimePasses, QueueInv, Q!TypeOK, Q!ListMatchesItems, Q!Orders, Q!Members
  <1>9. ASSUME UNCHANGED Q!vars PROVE QueueInv'
    BY <1>9 DEF Q!vars, QueueInv, Q!TypeOK, Q!ListMatchesItems, Q!Orders, Q!Members
  <1> QED
    BY <1>1, <1>2, <1>3, <1>4, <1>5, <1>6, <1>7, <1>8, <1>9 DEF Q!Next

\* The list is sorted and complete at any time, though pops do not sort.
THEOREM ListStaysSorted == Q!Spec => []Q!ListMatchesItems
  <1>1. QueueInv => Q!ListMatchesItems
    BY DEF QueueInv
  <1> QED
    BY <1>1, QueueInitHolds, QueueNextHolds, PTL DEF Q!Spec

\* No pop passes over a user who has waited longer.
THEOREM NobodyPassedOver == Q!Spec => Q!LongestFirst
  <1>1. ASSUME QueueInv, NEW X \in SUBSET Users, NEW n \in 1..Cardinality(Users),
               Q!PopNExcluding(n, X),
               NEW u \in Q!Members \ DOMAIN joined', NEW v \in DOMAIN joined' \ X
        PROVE  joined[u] <= joined[v]
    <2>1. ~ UNCHANGED Q!vars
      BY <1>1 DEF Q!vars, Q!Members
    <2>2. PICK T \in SUBSET Q!Members : Q!FirstOf(n, Q!Members \ X, T) /\ Q!Pop(T)
      BY <1>1, <2>1 DEF Q!PopNExcluding
    <2>3. DOMAIN joined' = Q!Members \ T
      BY <2>2 DEF Q!Pop, Q!Restricted
    <2>4. u \in T /\ v \in (Q!Members \ X) \ T
      BY <1>1, <2>3
    <2>5. <<u, v>> \in before
      BY <2>2, <2>4 DEF Q!FirstOf
    <2> QED
      BY <1>1, <2>4, <2>5 DEF QueueInv, Q!ListMatchesItems, Q!Orders, Q!Members
  <1>2. QueueInv /\ [Q!Next]_Q!vars =>
          [\A X \in SUBSET Users, n \in 1..Cardinality(Users) :
             Q!PopNExcluding(n, X) =>
                \A u \in Q!Members \ DOMAIN joined', v \in DOMAIN joined' \ X :
                   joined[u] <= joined[v]]_Q!vars
    BY <1>1
  <1>3. QueueInv /\ [Q!Next]_Q!vars =>
          [\A X \in SUBSET Users, n \in 1..Q!Cardinality(Users) :
             Q!PopNExcluding(n, X) =>
                \A u \in Q!Members \ DOMAIN joined', v \in DOMAIN joined' \ X :
                   joined[u] <= joined[v]]_Q!vars
    BY <1>2, QueueSameCount
  <1> QED
    BY <1>3, QueueInitHolds, QueueNextHolds, PTL DEF Q!Spec, Q!LongestFirst

-----------------------------------------------------------------------------
(* WaitingQueue: the queue as a set                                         *)


LEMMA QueuePopIsTake ==
    ASSUME IsFiniteSet(Users), QueueInv, NEW n \in 1..Cardinality(Users), NEW X \in SUBSET Users,
           Q!PopNExcluding(n, X)
    PROVE  AsSet!Take(n, X)
  <1>1. IsFiniteSet(Q!Members \ X) /\ Cardinality(Q!Members \ X) \in Nat /\ n \in Nat
    BY FS_Subset, FS_CardinalityType DEF QueueInv, Q!TypeOK
  <1>2. CASE Cardinality(Q!Members \ X) < n
    <2>1. Q!Members' = Q!Members
      BY <1>2, QueueSameCount DEF Q!PopNExcluding, Q!vars, Q!Members
    <2>2. AsSet!Gives(n, X, {})
      BY <1>1, <1>2, QueueSameCount DEF AsSet!Gives
    <2>3. Q!Members' = Q!Members \ {}
      BY <2>1
    <2> QED
      BY <2>2, <2>3 DEF AsSet!Take
  <1>3. CASE ~ (Cardinality(Q!Members \ X) < n)
    <2>1. PICK T \in SUBSET Q!Members : Q!FirstOf(n, Q!Members \ X, T) /\ Q!Pop(T)
      BY <1>3, QueueSameCount DEF Q!PopNExcluding
    <2>2. Q!Members' = Q!Members \ T
      BY <2>1 DEF Q!Pop, Q!Restricted, Q!Members
    <2>3. T \in SUBSET Users /\ AsSet!Gives(n, X, T)
      BY <1>1, <1>3, <2>1, QueueSameCount
         DEF AsSet!Gives, Q!FirstOf, QueueInv, Q!TypeOK
    <2> QED
      BY <2>2, <2>3 DEF AsSet!Take
  <1> QED
    BY <1>2, <1>3

\* Whatever the order, times and put-backs do, callers deal with a set: this is
\* what JuryEvaluation and Matchmaking use in the place of the queue.
THEOREM QueueIsASet == ASSUME IsFiniteSet(Users) PROVE Q!Spec => AsSet!Spec
  <1>1. Q!Init => AsSet!Init
    BY DEF Q!Init, Q!Empty, AsSet!Init, Q!Members
  <1>2. QueueInv /\ [Q!Next]_Q!vars => [AsSet!Next]_Q!Members
    <2> SUFFICES ASSUME QueueInv, [Q!Next]_Q!vars PROVE AsSet!Next \/ Q!Members' = Q!Members
      OBVIOUS
    <2>1. ASSUME NEW u \in Users, NEW moment, Q!Add(u, moment)
          PROVE  AsSet!Enter(u) \/ Q!Members' = Q!Members
      BY <2>1 DEF Q!Add, AsSet!Enter, Q!Members
    <2>2. ASSUME NEW u \in Users, Q!Join(u) PROVE AsSet!Next \/ Q!Members' = Q!Members
      BY <2>1, <2>2 DEF Q!Join, AsSet!Next
    <2>3. ASSUME NEW u \in Users, Q!Remove(u) PROVE AsSet!Next
      <3>1. AsSet!Leave(u)
        BY <2>3 DEF Q!Remove, Q!Restricted, AsSet!Leave, Q!Members
      <3> QED
        BY <3>1 DEF AsSet!Next
    <2>4. ASSUME NEW item \in held, Q!ReEnqueue(item) PROVE AsSet!Next \/ Q!Members' = Q!Members
      <3>1. item[1] \in Users /\ Q!Add(item[1], item[2])
        BY <2>4 DEF Q!ReEnqueue, QueueInv, Q!TypeOK
      <3> QED
        BY <2>1, <3>1 DEF AsSet!Next
    <2>5. ASSUME NEW n \in 1..Cardinality(Users), Q!PopN(n) PROVE AsSet!Next
      <3>1. IsFiniteSet(Q!Members) /\ Cardinality(Q!Members) \in Nat /\ n \in Nat
        BY FS_Subset, FS_CardinalityType DEF QueueInv, Q!TypeOK
      <3>2. Q!Members \ {} = Q!Members
        OBVIOUS
      <3>3. Q!PopNExcluding(n, {})
        BY <2>5, <3>1, <3>2, QueueSameCount DEF Q!PopN, Q!PopNExcluding
      <3> QED
        BY <3>3, QueuePopIsTake, QueueSameCount DEF AsSet!Next
    <2>6. ASSUME NEW n \in 1..Cardinality(Users), NEW X \in SUBSET Users, Q!PopNExcluding(n, X)
          PROVE  AsSet!Next
      BY <2>6, QueuePopIsTake, QueueSameCount DEF AsSet!Next
    <2>7. ASSUME Q!Clear PROVE AsSet!Next
      <3>1. AsSet!Clear
        BY <2>7 DEF Q!Clear, Q!Empty, AsSet!Clear, Q!Members
      <3> QED
        BY <3>1 DEF AsSet!Next
    <2>8. ASSUME UNCHANGED joined PROVE Q!Members' = Q!Members
      BY <2>8 DEF Q!Members
    <2> QED
      BY <2>2, <2>3, <2>4, <2>5, <2>6, <2>7, <2>8, QueueSameCount
         DEF Q!Next, Q!Drop, Q!TimePasses, Q!vars
  <1> QED
    BY <1>1, <1>2, QueueInitHolds, QueueNextHolds, PTL DEF Q!Spec, AsSet!Spec
=============================================================================
