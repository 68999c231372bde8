--------------------------------- MODULE Events ---------------------------------
(***************************************************************************)
(* Events: members ask for one, admins approve or reject it, owners move   *)
(* or cancel it, members show interest, and a scheduler ends and announces *)
(* what is due.  The requests run in the threads of the process that holds *)
(* the Slack socket, the scheduler in a process of its own; no row is ever *)
(* locked.  A session reads the row in one step and stores the columns it  *)
(* changed in a later one, whatever the row holds by then; its follow-up   *)
(* in Slack is a step of the same thread.                                  *)
(***************************************************************************)
EXTENDS Integers, FiniteSets

CONSTANTS
    Users,
    Events,      \* the ids of event rows: a bound
    Limit,       \* event_max_pending_per_user; 0 is no limit
    Slots,       \* the moments a form offers for an event
    LastMoment,  \* where time stops: a bound
    Handlers,    \* the requests under way at once, from the form to the last message
    Faults       \* what may go wrong: "gone", "slack", "pass"

ASSUME EventsAssumption ==
    /\ IsFiniteSet(Users) /\ IsFiniteSet(Events) /\ IsFiniteSet(Handlers)
    /\ Limit \in Nat /\ LastMoment \in Nat
    /\ Users # {} /\ Slots # {} /\ Slots \subseteq Nat
    /\ Faults \subseteq {"gone", "slack", "pass"}

VARIABLES
    status, creator, at,  \* columns of the rows
    approved,    \* the rows with an approved_by
    meta,        \* the keys in the meta of a row
    interest,    \* event_interest: who is interested in an event
    said,        \* what members and admins have been told about an event
    told,        \* the moments announced for an event
    mornings,    \* the days whose summary was posted
    req,         \* what the thread of a request is about to do
    sch,         \* what the scheduler is about to do
    lastMorning, \* _morning_reminder_last_date, in memory; -1 is None
    now,         \* the present moment
    overdue,     \* requests older than event_approval_timeout_hours
    lost         \* events and days whose message or mark a fault has taken

rowVars == <<status, creator, at, approved, meta, interest>>
slackVars == <<said, told, mornings>>
memVars == <<req, sch, lastMorning>>
vars == <<rowVars, slackVars, memVars, now, overdue, lost>>

-----------------------------------------------------------------------------
(* State                                                                    *)

\* A day has two moments: before event_morning_reminder_hour, and after it.
Moments == 0 .. LastMoment
Day(m) == m \div 2
HourReached == now % 2 = 1

Statuses == {"NONE", "PENDING", "APPROVED", "REJECTED", "CANCELLED", "COMPLETED"}

\* The reference to the admin message, and the mark of the ten-minute reminder.
Marks == {"admin", "reminded"}

Messages == {"asked", "rejected", "cancelled", "soon"}

Idle == [do |-> "idle"]

Request ==
    {Idle}
    \cup [do : {"create form", "insert"}, who : Users]
    \cup [do : {"ask", "ref", "approve form", "reject form", "approve", "reject",
                "cancel form", "cancel", "update pick", "update form",
                "tell reject", "tell cancel"}, ev : Events]
    \cup [do : {"save ref"}, ev : Events, seen : SUBSET Marks]
    \cup [do : {"update"}, ev : Events, old : Slots, new : Slots]
    \cup [do : {"announce", "announce update"}, ev : Events, new : Slots]
    \cup [do : {"add form", "interest"}, ev : Events, who : Users]

\* Between two passes, and when the process has just started.
Asleep == [do |-> "sleep"]
Started == [do |-> "start"]

\* The checks of a pass, in their order, and what each holds over its awaits.
Pass ==
    {Asleep, Started}
    \cup [do : {"complete?", "morning?", "soon?"}]
    \cup [do : {"timeout"}, todo : SUBSET Events, done : SUBSET Events]
    \cup [do : {"complete"}, done : SUBSET Events]
    \cup [do : {"morning", "flag"}, day : Nat]
    \cup [do : {"soon"}, todo : SUBSET Events, done : SUBSET Events]
    \cup [do : {"mark"}, todo : SUBSET Events, bare : SUBSET Events, ref : SUBSET Events]

TypeOK ==
    /\ status \in [Events -> Statuses]
    /\ creator \in [Events -> Users]
    /\ at \in [Events -> Slots]
    /\ approved \subseteq Events
    /\ meta \in [Events -> SUBSET Marks]
    /\ interest \in [Events -> SUBSET Users]
    /\ said \in [Events -> SUBSET Messages]
    /\ told \in [Events -> SUBSET Slots]
    /\ mornings \subseteq Nat
    /\ req \in [Handlers -> Request]
    /\ sch \in Pass
    /\ lastMorning \in Nat \cup {-1}
    /\ now \in Moments
    /\ overdue \subseteq Events
    /\ lost \subseteq Events \cup Nat

Init ==
    /\ status = [e \in Events |-> "NONE"]
    /\ creator = [e \in Events |-> CHOOSE u \in Users : TRUE]
    /\ at = [e \in Events |-> CHOOSE s \in Slots : TRUE]
    /\ approved = {} /\ overdue = {} /\ lost = {} /\ mornings = {}
    /\ meta = [e \in Events |-> {}]
    /\ interest = [e \in Events |-> {}]
    /\ said = [e \in Events |-> {}]
    /\ told = [e \in Events |-> {}]
    /\ req = [h \in Handlers |-> Idle]
    /\ sch = Started
    /\ lastMorning = -1
    /\ now = 0

Goto(h, r) == req' = [req EXCEPT ![h] = r]

\* A step that only reads, and keeps what it has read for the next one.
Reads(h, r) ==
    /\ Goto(h, r)
    /\ UNCHANGED <<rowVars, slackVars, sch, lastMorning, now, overdue, lost>>

\* A call of Slack that is refused is logged and forgotten.
Say(e, what) ==
    \/ /\ said' = [said EXCEPT ![e] = @ \cup {what}]
       /\ UNCHANGED lost
    \/ /\ "slack" \in Faults
       /\ lost' = lost \cup {e}
       /\ UNCHANGED said

Pending(u) == {e \in Events : status[e] = "PENDING" /\ creator[e] = u}

-----------------------------------------------------------------------------
(* A request for an event                                                   *)

\* Mutant: one more than the limit is let in.
FullLate(u) == Limit > 0 /\ Cardinality(Pending(u)) > Limit

Full(u) == Limit > 0 /\ Cardinality(Pending(u)) >= Limit

\* The command refuses a full quota before it opens the form ...
OpenCreate(h, u) ==
    /\ req[h] = Idle
    /\ ~Full(u)
    /\ Reads(h, [do |-> "create form", who |-> u])

\* ... and the form, sent any time later, counts again.
CountPending(h) ==
    /\ req[h].do = "create form"
    /\ Reads(h, IF Full(req[h].who) THEN Idle ELSE [do |-> "insert", who |-> req[h].who])

InsertEvent(h, e, slot) ==
    /\ req[h].do = "insert"
    /\ status[e] = "NONE"
    /\ status' = [status EXCEPT ![e] = "PENDING"]
    /\ creator' = [creator EXCEPT ![e] = req[h].who]
    /\ at' = [at EXCEPT ![e] = slot]
    /\ Goto(h, [do |-> "ask", ev |-> e])
    /\ UNCHANGED <<approved, meta, interest, slackVars, sch, lastMorning, now, overdue, lost>>

\* post_admin_request shows the two buttons; what it returns is stored, later.
AskAdmins(h) ==
    LET e == req[h].ev IN
    /\ req[h].do = "ask"
    /\ Say(e, "asked")
    /\ Goto(h, IF said' = said THEN Idle ELSE [do |-> "ref", ev |-> e])
    /\ UNCHANGED <<rowVars, told, mornings, sch, lastMorning, now, overdue>>

ReadMeta(h) ==
    /\ req[h].do = "ref"
    /\ Reads(h, [do |-> "save ref", ev |-> req[h].ev, seen |-> meta[req[h].ev]])

\* Mutant: the row as it was created is stored, not only its meta.
SaveRow(h) ==
    /\ req[h].do = "save ref"
    /\ meta' = [meta EXCEPT ![req[h].ev] = req[h].seen \cup {"admin"}]
    /\ status' = [status EXCEPT ![req[h].ev] = "PENDING"]
    /\ Goto(h, Idle)
    /\ UNCHANGED <<creator, at, approved, interest, slackVars, sch,
                   lastMorning, now, overdue, lost>>

\* The whole of the meta that was read is stored, with the reference added.
SaveRef(h) ==
    /\ req[h].do = "save ref"
    /\ meta' = [meta EXCEPT ![req[h].ev] = req[h].seen \cup {"admin"}]
    /\ Goto(h, Idle)
    /\ UNCHANGED <<status, creator, at, approved, interest, slackVars, sch,
                   lastMorning, now, overdue, lost>>

-----------------------------------------------------------------------------
(* The decision of an admin                                                 *)

\* A button opens the form of the decision, whatever has become of the request.
OpenDecision(h, e) ==
    /\ req[h] = Idle
    /\ "asked" \in said[e]
    /\ \E verdict \in {"approve form", "reject form"} :
          Reads(h, [do |-> verdict, ev |-> e])

\* The form that is sent has to find the request pending.
Judged(h, form, verdict) ==
    /\ req[h].do = form
    /\ Reads(h, IF status[req[h].ev] = "PENDING"
                THEN [do |-> verdict, ev |-> req[h].ev] ELSE Idle)

ReadToApprove(h) == Judged(h, "approve form", "approve")

ReadToReject(h) == Judged(h, "reject form", "reject")

\* The row is read again before the commit, for the announcement.
WriteApproval(h) ==
    LET e == req[h].ev IN
    /\ req[h].do = "approve"
    /\ status' = [status EXCEPT ![e] = "APPROVED"]
    /\ approved' = approved \cup {e}
    /\ Goto(h, [do |-> "announce", ev |-> e, new |-> at[e]])
    /\ UNCHANGED <<creator, at, meta, interest, slackVars, sch, lastMorning,
                   now, overdue, lost>>

WriteRejection(h) ==
    LET e == req[h].ev IN
    /\ req[h].do = "reject"
    /\ status' = [status EXCEPT ![e] = "REJECTED"]
    /\ Goto(h, [do |-> "tell reject", ev |-> e])
    /\ UNCHANGED <<creator, at, approved, meta, interest, slackVars, sch,
                   lastMorning, now, overdue, lost>>

-----------------------------------------------------------------------------
(* What owners and members do with an approved event                        *)

\* /event cancel and /event update offer the approved events of the member, an
\* admin those of everybody; /event add_me those still to come.
OpenCancel(h, e) ==
    /\ req[h] = Idle
    /\ status[e] = "APPROVED"
    /\ Reads(h, [do |-> "cancel form", ev |-> e])

OpenUpdate(h, e) ==
    /\ req[h] = Idle
    /\ status[e] = "APPROVED"
    /\ Reads(h, [do |-> "update pick", ev |-> e])

OpenAddMe(h, e, u) ==
    /\ req[h] = Idle
    /\ status[e] = "APPROVED" /\ Day(at[e]) >= Day(now) /\ u \notin interest[e]
    /\ Reads(h, [do |-> "add form", ev |-> e, who |-> u])

\* What is sent has to find the event approved once more.
Sent(h, form, next) ==
    /\ req[h].do = form
    /\ Reads(h, IF status[req[h].ev] = "APPROVED" THEN next ELSE Idle)

ReadToCancel(h) == Sent(h, "cancel form", [do |-> "cancel", ev |-> req[h].ev])

\* The event that was picked opens a second form with what it holds.
PickUpdate(h) == Sent(h, "update pick", [do |-> "update form", ev |-> req[h].ev])

ReadToUpdate(h) ==
    \E s \in Slots :
        Sent(h, "update form",
             [do |-> "update", ev |-> req[h].ev, old |-> at[req[h].ev], new |-> s])

\* An interest that is there already is answered, not stored again.
Wanted(e, u) ==
    IF u \in interest[e] THEN Idle ELSE [do |-> "interest", ev |-> e, who |-> u]

ReadToAdd(h) == Sent(h, "add form", Wanted(req[h].ev, req[h].who))

\* Mutant: the button does not look at the status.
ClickAny(h, e, u) ==
    /\ req[h] = Idle
    /\ Reads(h, Wanted(e, u))

\* The button of an announcement or of /event list, new or old.
ClickInterest(h, e, u) ==
    /\ req[h] = Idle
    /\ status[e] = "APPROVED"
    /\ Reads(h, Wanted(e, u))

WriteCancellation(h) ==
    LET e == req[h].ev IN
    /\ req[h].do = "cancel"
    /\ status' = [status EXCEPT ![e] = "CANCELLED"]
    /\ Goto(h, [do |-> "tell cancel", ev |-> e])
    /\ UNCHANGED <<creator, at, approved, meta, interest, slackVars, sch,
                   lastMorning, now, overdue, lost>>

\* Mutant: the announcement is made from the row as it was before.
WriteUpdateStale(h) ==
    LET e == req[h].ev IN
    /\ req[h].do = "update"
    /\ IF req[h].new # req[h].old
       THEN at' = [at EXCEPT ![e] = req[h].new] ELSE UNCHANGED at
    /\ Goto(h, [do |-> "announce update", ev |-> e, new |-> req[h].old])
    /\ UNCHANGED <<status, creator, approved, meta, interest, slackVars, sch,
                   lastMorning, now, overdue, lost>>

\* Only what the form changed is stored, and a moment that is the same is not
\* news.  The mark of the reminder stays.
WriteUpdate(h) ==
    LET e == req[h].ev IN
    /\ req[h].do = "update"
    /\ \/ /\ req[h].new # req[h].old
          /\ at' = [at EXCEPT ![e] = req[h].new]
          /\ Goto(h, [do |-> "announce update", ev |-> e, new |-> req[h].new])
       \/ /\ req[h].new = req[h].old
          /\ Goto(h, Idle)
          /\ UNCHANGED at
    /\ UNCHANGED <<status, creator, approved, meta, interest, slackVars, sch,
                   lastMorning, now, overdue, lost>>

\* The row is unique: the slower of two clicks fails.
AddInterest(h) ==
    /\ req[h].do = "interest"
    /\ interest' = [interest EXCEPT ![req[h].ev] = @ \cup {req[h].who}]
    /\ Goto(h, Idle)
    /\ UNCHANGED <<status, creator, at, approved, meta, slackVars, sch,
                   lastMorning, now, overdue, lost>>

\* The channels that get_announcement_channels names, told the moment that the
\* thread took from the row.
TellWhen(h, what) ==
    LET e == req[h].ev IN
    /\ req[h].do = what
    /\ \/ /\ told' = [told EXCEPT ![e] = @ \cup {req[h].new}]
          /\ UNCHANGED lost
       \/ /\ "slack" \in Faults
          /\ lost' = lost \cup {e}
          /\ UNCHANGED told
    /\ Goto(h, Idle)
    /\ UNCHANGED <<rowVars, said, mornings, sch, lastMorning, now, overdue>>

Announce(h) == TellWhen(h, "announce")

AnnounceUpdate(h) == TellWhen(h, "announce update")

\* The message to the creator, and the announcement that an event is off.
TellEnd(h, what, message) ==
    /\ req[h].do = what
    /\ Say(req[h].ev, message)
    /\ Goto(h, Idle)
    /\ UNCHANGED <<rowVars, told, mornings, sch, lastMorning, now, overdue>>

TellRejection(h) == TellEnd(h, "tell reject", "rejected")

TellCancellation(h) == TellEnd(h, "tell cancel", "cancelled")

\* An error of the database, the 30 seconds of run_async or a restart of the
\* process: the thread is gone, wherever it was.
HandlerGone(h) ==
    /\ "gone" \in Faults
    /\ req[h] # Idle
    /\ Goto(h, Idle)
    /\ lost' = IF req[h].do \in {"ask", "announce", "announce update", "tell reject", "tell cancel"}
               THEN lost \cup {req[h].ev} ELSE lost
    /\ UNCHANGED <<rowVars, slackVars, sch, lastMorning, now, overdue>>

-----------------------------------------------------------------------------
(* The scheduler: four checks, one after another, every minute              *)

Then(p) == sch' = p

\* 1. _check_pending_timeout: the rows are read, each creator is told and the
\* admin message closed, and the rows are stored at the end.
ReadOverdue ==
    /\ sch \in {Asleep, Started}
    /\ Then([do |-> "timeout", done |-> {},
             todo |-> {e \in overdue : status[e] = "PENDING"}])
    /\ UNCHANGED <<rowVars, slackVars, req, lastMorning, now, overdue, lost>>

TellOverdue(e) ==
    /\ sch.do = "timeout" /\ e \in sch.todo
    /\ Say(e, "rejected")
    /\ Then([sch EXCEPT !.todo = @ \ {e}, !.done = @ \cup {e}])
    /\ UNCHANGED <<rowVars, told, mornings, req, lastMorning, now, overdue>>

\* Mutant: the rows are left as they were.
StoreNoTimeout ==
    /\ sch.do = "timeout" /\ sch.todo = {}
    /\ Then([do |-> "complete?"])
    /\ UNCHANGED <<rowVars, slackVars, req, lastMorning, now, overdue, lost>>

StoreTimeout ==
    /\ sch.do = "timeout" /\ sch.todo = {}
    /\ status' = [e \in Events |-> IF e \in sch.done THEN "REJECTED" ELSE status[e]]
    /\ Then([do |-> "complete?"])
    /\ UNCHANGED <<creator, at, approved, meta, interest, slackVars, req,
                   lastMorning, now, overdue, lost>>

\* 2. _check_completed_transition.
Past(e) == status[e] = "APPROVED" /\ Day(at[e]) < Day(now)

ReadPast ==
    /\ sch.do = "complete?"
    /\ Then([do |-> "complete", done |-> {e \in Events : Past(e)}])
    /\ UNCHANGED <<rowVars, slackVars, req, lastMorning, now, overdue, lost>>

StoreCompleted ==
    /\ sch.do = "complete"
    /\ status' = [e \in Events |-> IF e \in sch.done THEN "COMPLETED" ELSE status[e]]
    /\ Then([do |-> "morning?"])
    /\ UNCHANGED <<creator, at, approved, meta, interest, slackVars, req,
                   lastMorning, now, overdue, lost>>

\* 3. _check_morning_reminder: once a day, from the hour on; a day without an
\* event is done as well.
ReadToday ==
    /\ sch.do = "morning?"
    /\ \/ /\ HourReached /\ lastMorning # Day(now)
          /\ \/ /\ \E e \in Events : status[e] = "APPROVED" /\ Day(at[e]) = Day(now)
                /\ Then([do |-> "morning", day |-> Day(now)])
                /\ UNCHANGED lastMorning
             \/ /\ ~\E e \in Events : status[e] = "APPROVED" /\ Day(at[e]) = Day(now)
                /\ lastMorning' = Day(now)
                /\ Then([do |-> "soon?"])
       \/ /\ ~(HourReached /\ lastMorning # Day(now))
          /\ Then([do |-> "soon?"])
          /\ UNCHANGED lastMorning
    /\ UNCHANGED <<rowVars, slackVars, req, now, overdue, lost>>

PostMorning ==
    /\ sch.do = "morning"
    /\ mornings' = mornings \cup {sch.day}
    /\ Then([do |-> "flag", day |-> sch.day])
    /\ UNCHANGED <<rowVars, said, told, req, lastMorning, now, overdue, lost>>

\* Mutant: the day is not remembered.
FlagNothing ==
    /\ sch.do = "flag"
    /\ Then([do |-> "soon?"])
    /\ UNCHANGED <<rowVars, slackVars, req, lastMorning, now, overdue, lost>>

\* After the mails the day is remembered, in memory only.
FlagMorning ==
    /\ sch.do = "flag"
    /\ lastMorning' = sch.day
    /\ Then([do |-> "soon?"])
    /\ UNCHANGED <<rowVars, slackVars, req, now, overdue, lost>>

\* 4. _check_10min_reminder: read, tell, and mark in a session of its own.
ReadSoon ==
    /\ sch.do = "soon?"
    /\ Then([do |-> "soon", done |-> {},
             todo |-> {e \in Events : /\ status[e] = "APPROVED" /\ at[e] = now
                                      /\ "reminded" \notin meta[e]}])
    /\ UNCHANGED <<rowVars, slackVars, req, lastMorning, now, overdue, lost>>

TellSoon(e) ==
    /\ sch.do = "soon" /\ e \in sch.todo
    /\ Say(e, "soon")
    /\ Then([sch EXCEPT !.todo = @ \ {e}, !.done = @ \cup {e}])
    /\ UNCHANGED <<rowVars, told, mornings, req, lastMorning, now, overdue>>

\* Mutant: what is still to be told is marked as well.
MarkEarly ==
    /\ sch.do = "soon"
    /\ Then([do |-> "mark", todo |-> sch.done \cup sch.todo, bare |-> {}, ref |-> {}])
    /\ UNCHANGED <<rowVars, slackVars, req, lastMorning, now, overdue, lost>>

\* events_to_mark may be empty.
StartMarking ==
    /\ sch.do = "soon" /\ sch.todo = {}
    /\ Then(IF sch.done = {} THEN Asleep
            ELSE [do |-> "mark", todo |-> sch.done, bare |-> {}, ref |-> {}])
    /\ UNCHANGED <<rowVars, slackVars, req, lastMorning, now, overdue, lost>>

\* The meta of a row is read, with or without the reference ...
ReadMark(e) ==
    /\ sch.do = "mark" /\ e \in sch.todo
    /\ Then(IF "admin" \in meta[e]
            THEN [sch EXCEPT !.todo = @ \ {e}, !.ref = @ \cup {e}]
            ELSE [sch EXCEPT !.todo = @ \ {e}, !.bare = @ \cup {e}])
    /\ UNCHANGED <<rowVars, slackVars, req, lastMorning, now, overdue, lost>>

\* ... and stored as a whole, with the mark added.
StoreMarks ==
    /\ sch.do = "mark" /\ sch.todo = {}
    /\ meta' = [e \in Events |-> IF e \in sch.ref THEN {"admin", "reminded"}
                                 ELSE IF e \in sch.bare THEN {"reminded"} ELSE meta[e]]
    /\ Then(Asleep)
    /\ UNCHANGED <<status, creator, at, approved, interest, slackVars, req,
                   lastMorning, now, overdue, lost>>

\* An error ends the pass, unless it is over; the loop goes on with the next one.
PassFails ==
    /\ "pass" \in Faults
    /\ sch \notin {Asleep, Started} /\ (sch.do = "soon" => sch.todo # {})
    /\ Then(Asleep)
    /\ lost' = IF sch.do = "flag" THEN lost \cup {sch.day} ELSE lost
    /\ UNCHANGED <<rowVars, slackVars, req, lastMorning, now, overdue>>

\* A restart of the process of the scheduler forgets the day as well.
SchedulerRestart ==
    /\ "pass" \in Faults
    /\ Then(Started)
    /\ lastMorning' = -1
    /\ lost' = lost \cup mornings
    /\ UNCHANGED <<rowVars, slackVars, req, now, overdue>>

-----------------------------------------------------------------------------

BecomeOverdue(e) ==
    /\ status[e] = "PENDING" /\ e \notin overdue
    /\ overdue' = overdue \cup {e}
    /\ UNCHANGED <<rowVars, slackVars, memVars, now, lost>>

TimePasses ==
    /\ now < LastMoment
    /\ now' = now + 1
    /\ UNCHANGED <<rowVars, slackVars, memVars, overdue, lost>>

Requesting(h) ==
    \/ \E u \in Users : OpenCreate(h, u)
    \/ CountPending(h)
    \/ \E e \in Events, s \in Slots : InsertEvent(h, e, s)
    \/ AskAdmins(h) \/ ReadMeta(h) \/ SaveRef(h)
    \/ \E e \in Events : OpenDecision(h, e) \/ OpenCancel(h, e) \/ OpenUpdate(h, e)
    \/ \E e \in Events, u \in Users : OpenAddMe(h, e, u) \/ ClickInterest(h, e, u)
    \/ ReadToApprove(h) \/ WriteApproval(h)
    \/ ReadToReject(h) \/ WriteRejection(h)
    \/ ReadToCancel(h) \/ WriteCancellation(h)
    \/ PickUpdate(h) \/ ReadToUpdate(h) \/ WriteUpdate(h)
    \/ ReadToAdd(h) \/ AddInterest(h)
    \/ Announce(h) \/ AnnounceUpdate(h) \/ TellRejection(h) \/ TellCancellation(h)

Scheduling ==
    \/ ReadOverdue \/ StoreTimeout \/ ReadPast \/ StoreCompleted
    \/ ReadToday \/ PostMorning \/ FlagMorning
    \/ ReadSoon \/ StartMarking \/ StoreMarks
    \/ \E e \in Events : TellOverdue(e) \/ TellSoon(e) \/ ReadMark(e)

Next ==
    \/ \E h \in Handlers : Requesting(h) \/ HandlerGone(h)
    \/ Scheduling \/ PassFails \/ SchedulerRestart
    \/ \E e \in Events : BecomeOverdue(e)
    \/ TimePasses

Spec == Init /\ [][Next]_vars

\* The loop of the scheduler runs, and its errors and restarts come to an end.
FairSpec ==
    /\ Spec
    /\ WF_vars(Scheduling)
    /\ <>[][~(PassFails \/ SchedulerRestart)]_vars

-----------------------------------------------------------------------------
(* Properties                                                               *)

\* Some request is about to tell members what the row of e holds.
Telling(what, e) == \E h \in Handlers : req[h].do = what /\ req[h].ev = e

\* Nothing of an event is made public that no admin has approved: there is no
\* interest, announcement, reminder, cancellation or completion of it.
PublicOnlyApproved ==
    \A e \in Events :
        \/ interest[e] # {} \/ told[e] # {} \/ said[e] \cap {"soon", "cancelled"} # {}
        \/ status[e] \in {"APPROVED", "CANCELLED", "COMPLETED"}
        => e \in approved

\* What the row of an event says, those it concerns have been told, or a request
\* is about to tell them: that it was asked for, rejected or cancelled, and the
\* moment it will take place, whoever else decides, moves or cancels it at the
\* same time. Only a refused call or a thread that is gone is an excuse.
RowIsTold ==
    \A e \in Events : e \in lost \/
        /\ status[e] = "PENDING" => "asked" \in said[e] \/ Telling("ask", e)
        /\ status[e] = "REJECTED" => "rejected" \in said[e] \/ Telling("tell reject", e)
        /\ status[e] = "CANCELLED" => "cancelled" \in said[e] \/ Telling("tell cancel", e)
        /\ e \in approved =>
               \/ at[e] \in told[e]
               \/ \E h \in Handlers, what \in {"announce", "announce update"} :
                      req[h] = [do |-> what, ev |-> e, new |-> at[e]]

\* Requests that are sent at once pass the quota together, but no more of them
\* than there are threads: the first to be counted was below the limit.
QuotaOvershoot ==
    Limit > 0 => \A u \in Users :
        Cardinality(Pending(u)) + Cardinality({h \in Handlers : req[h] = [do |-> "insert", who |-> u]})
            < Limit + Cardinality(Handlers)

\* An event is marked as reminded only after it has been: no failure of a pass
\* and no restart takes the reminder away.
MarkedIsReminded ==
    \A e \in Events : "reminded" \in meta[e] => "soon" \in said[e] \/ e \in lost

\* The summary of a day is not posted again, unless an error or a restart has
\* made the scheduler forget it.
MorningOnce ==
    sch.do = "morning" => sch.day \notin mornings \/ sch.day \in lost

\* A decided request is never waiting for a decision again.
NeverPendingAgain ==
    [][\A e \in Events : status[e] # "NONE" => status'[e] # "NONE"
                      /\ (status'[e] = "PENDING" => status[e] = "PENDING")]_vars

\* What is due is ended, however the scheduler's passes fail and its stores
\* cross the requests: a request that waits too long is decided, by an admin or
\* by the scheduler, and an approved event whose day is over is completed unless
\* it is moved or ended otherwise.
DueIsEnded ==
    \A e \in Events :
       /\ status[e] = "PENDING" /\ e \in overdue ~> status[e] # "PENDING"
       /\ Past(e) ~> ~Past(e)
=============================================================================
