----------------------------- MODULE ChannelGuard -----------------------------
(***************************************************************************)
(* Who is inside the private channels, and the monitor that keeps          *)
(* strangers out: ChallengeMonitor.check_all_channels beside everything    *)
(* JuryEvaluation does, which invites, registers and archives.             *)
(*                                                                         *)
(* A room is a channel of a challenge; an archived one is empty.  The bot  *)
(* and the administrators are in all of them and may be: they are left     *)
(* out.                                                                    *)
(***************************************************************************)
EXTENDS ChallengeStore

VARIABLES
    jq, forms, task, age, reminded, mon,  \* of JuryEvaluation
    inside,                               \* who is in a room
    guard                                 \* the running pass of the monitor

Evaluation == INSTANCE JuryEvaluation

evaluationVars == <<storeVars, jq, forms, task, age, reminded, mon>>
vars == <<evaluationVars, inside, guard>>

Rooms == {"challenge", "evaluation"} \X Challenges

\* A pass and what it holds: the rooms left, the juries registered when it
\* began, and those it is about to remove from one of them.  `seated` is history:
\* the panels that sat, and nobody was about to register, when it began.
Asleep == [at |-> "asleep"]
Panels == [Challenges -> SUBSET Users]
Pass == [at : {"pass"}, left : SUBSET Rooms, jury : Panels, seated : Panels]
   \cup [at : {"kick"}, left : SUBSET Rooms, jury : Panels, seated : Panels,
         room : Rooms, who : (SUBSET Users) \ {{}}]

TypeOK ==
    /\ Evaluation!TypeOK
    /\ inside \in [Rooms -> SUBSET Users]
    /\ guard \in {Asleep} \cup Pass

-----------------------------------------------------------------------------
(* The monitor                                                              *)

Registered == ({"challenge"} \X chReg) \cup ({"evaluation"} \X evReg)

\* Mutant: the jury of a record is forgotten.
AuthorizedTeam(room, panels) == Team[room[2]]

\* _get_authorized_ids of the record of a room.
Authorized(room, panels) ==
    Team[room[2]] \cup IF room[1] = "evaluation" THEN panels[room[2]] ELSE {}

Assigned(c) == \E h \in Handlers : task[h].at = "publish" /\ task[h].ch = c

StartGuard ==
    /\ guard = Asleep /\ Registered # {}
    /\ guard' = [at |-> "pass", left |-> Registered, jury |-> evJury,
                 seated |-> [c \in Challenges |-> IF Assigned(c) THEN {} ELSE jury[c]]]
    /\ UNCHANGED <<evaluationVars, inside>>

\* The next room, or the end of the pass.
Done(room) ==
    IF guard.left = {room} THEN Asleep
    ELSE [at |-> "pass", left |-> guard.left \ {room}, jury |-> guard.jury,
          seated |-> guard.seated]

\* The members are asked for; the record is the one the pass began with.
CheckRoom(room) ==
    /\ guard.at = "pass" /\ room \in guard.left
    /\ LET intruders == inside[room] \ Authorized(room, guard.jury) IN
       guard' = IF intruders = {} THEN Done(room)
                ELSE [at |-> "kick", left |-> guard.left, jury |-> guard.jury,
                      seated |-> guard.seated, room |-> room, who |-> intruders]
    /\ UNCHANGED <<evaluationVars, inside>>

CheckFails(room) ==
    /\ "slack" \in Faults
    /\ guard.at = "pass" /\ room \in guard.left
    /\ guard' = Done(room)
    /\ UNCHANGED <<evaluationVars, inside>>

\* Mutant: only one intruder is removed from a room.
NextIntruderLast(u) == guard' = Done(guard.room)
NextIntruder(u) ==
    guard' = IF guard.who = {u} THEN Done(guard.room) ELSE [guard EXCEPT !.who = @ \ {u}]

\* Nothing is looked up again before the call.
Kick(u) ==
    /\ guard.at = "kick" /\ u \in guard.who
    /\ inside' = [inside EXCEPT ![guard.room] = @ \ {u}]
    /\ NextIntruder(u)
    /\ UNCHANGED evaluationVars

KickFails(u) ==
    /\ "slack" \in Faults
    /\ guard.at = "kick" /\ u \in guard.who
    /\ NextIntruder(u)
    /\ UNCHANGED <<evaluationVars, inside>>

-----------------------------------------------------------------------------
(* Who comes and goes                                                       *)

\* Anybody may be invited by somebody inside.
Enter(u, room) ==
    /\ inside[room] # {} /\ u \notin inside[room]
    /\ inside' = [inside EXCEPT ![room] = @ \cup {u}]
    /\ UNCHANGED <<evaluationVars, guard>>

\* The room of the team is archived, the one of the evaluation is opened; an
\* invitation that fails is only logged, here and below.
Deliver(h, c) ==
    /\ Evaluation!Deliver(h, c)
    /\ \E invited \in {Team[c]} \cup IF "slack" \in Faults THEN {{}} ELSE {} :
         inside' = [inside EXCEPT ![<<"challenge", c>>] = {}, ![<<"evaluation", c>>] = invited]
    /\ UNCHANGED guard

\* Whoever was popped is invited before the panel is stored, and stays inside
\* if it is not.
PopJurors(h) ==
    /\ Evaluation!PopJurors(h)
    /\ \/ inside' = [inside EXCEPT ![<<"evaluation", task[h].ch>>] = @ \cup task'[h].picked]
       \/ "slack" \in Faults /\ UNCHANGED inside
    /\ UNCHANGED guard

\* The command is given inside the room.
OpenForm(u, c) ==
    /\ u \in inside[<<"evaluation", c>>]
    /\ Evaluation!OpenForm(u, c)
    /\ UNCHANGED <<inside, guard>>

\* archive_channel logs an error and goes on.
Archive(c) ==
    \/ inside' = [inside EXCEPT ![<<"evaluation", c>>] = {}]
    \/ "slack" \in Faults /\ UNCHANGED inside

Close ==
    /\ \/ \E h \in Handlers : Evaluation!CloseEvaluation(h) /\ Archive(task[h].ch)
       \/ \E c \in Challenges : Evaluation!FailEvaluation(c) /\ Archive(c)
    /\ UNCHANGED guard

\* All else that JuryEvaluation does.
Elsewhere ==
    /\ \/ \E h \in Handlers :
             \/ Evaluation!ScanWaiting(h) \/ Evaluation!SaveJury(h)
             \/ Evaluation!ReEnqueueJurors(h) \/ Evaluation!PublishJury(h)
             \/ Evaluation!CastVote(h) \/ Evaluation!RejectVote(h)
             \/ Evaluation!CloseTimesOut(h) \/ Evaluation!RequestFails(h)
             \/ Evaluation!RegisterDelivered(h)
             \/ \E u \in Users : Evaluation!JuryJoin(h, u)
             \/ \E c \in Challenges :
                   \/ Evaluation!DeferAssignment(h, c) \/ Evaluation!CountJurors(h, c)
                   \/ \E u \in Users : Evaluation!SubmitForm(h, u, c)
       \/ \E u \in Users : Evaluation!JuryLeave(u)
       \/ \E c \in Challenges : Evaluation!Wait(c) \/ Evaluation!SendReminder(c)
       \/ Evaluation!StartPass \/ Evaluation!CommitPass \/ Evaluation!PassFails
    /\ UNCHANGED <<inside, guard>>

Restart ==
    /\ Evaluation!Restart
    /\ guard' = Asleep
    /\ UNCHANGED inside

-----------------------------------------------------------------------------

Init ==
    /\ Evaluation!Init
    /\ inside = [room \in Rooms |-> IF room[1] = "challenge" THEN Team[room[2]] ELSE {}]
    /\ guard = Asleep

Guarding == StartGuard \/ (\E room \in Rooms : CheckRoom(room)) \/ \E u \in Users : Kick(u)

SlackFails == (\E room \in Rooms : CheckFails(room)) \/ \E u \in Users : KickFails(u)

Next ==
    \/ Guarding \/ SlackFails
    \/ \E u \in Users, room \in Rooms : Enter(u, room)
    \/ \E u \in Users, c \in Challenges : OpenForm(u, c)
    \/ \E h \in Handlers : PopJurors(h) \/ \E c \in Challenges : Deliver(h, c)
    \/ Close \/ Elsewhere \/ Restart

Spec == Init /\ [][Next]_vars

\* The monitor runs, and in the end Slack answers it and the service stays up.
FairSpec == Spec /\ WF_vars(Guarding) /\ <>[][~ (SlackFails \/ Restart)]_vars

-----------------------------------------------------------------------------
(* Properties                                                               *)

Stranger(u, room) ==
    room \in Registered /\ u \in inside[room] \ Authorized(room, evJury)

\* A stranger does not stay: whoever entered a guarded room, was invited and
\* not appointed, or came back, is removed, unless the room ends before that or
\* the stranger joins the panel.
StrangersLeave ==
    \A u \in Users, room \in Rooms : Stranger(u, room) ~> ~ Stranger(u, room)

\* A panel that sat when the pass began is not removed by it, whatever was
\* registered, restored or closed: the registry listed it as the rows do.
SeatedJurorsStay ==
    [][\A u \in Users : Kick(u) /\ guard.room[1] = "evaluation"
                          => u \notin guard.seated[guard.room[2]]]_vars
=============================================================================
