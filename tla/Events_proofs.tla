----------------------------- MODULE Events_proofs -----------------------------
(***************************************************************************)
(* Theorems about Events, for any number of users, events, moments and     *)
(* concurrent requests, any quota and any set of faults.                   *)
(*                                                                         *)
(* A thread and the scheduler act on what they read earlier, so that no    *)
(* property is inductive by itself.  The invariant says of everything a    *)
(* request or a pass holds what is still true of the rows and of what has  *)
(* been told: facts that no step takes away (Grows).                       *)
(***************************************************************************)
EXTENDS Events, FiniteSetTheorems, TLAPS

-----------------------------------------------------------------------------
(* What a request and a pass hold, by what they are about to do.            *)

AboutEvent ==
    {"ask", "ref", "save ref", "approve form", "reject form", "approve", "reject",
     "cancel form", "cancel", "update pick", "update form", "update", "announce",
     "announce update", "add form", "interest", "tell reject", "tell cancel"}

\* What is only done about an event that has been approved.
AboutPublic ==
    {"cancel form", "cancel", "update pick", "update form", "update", "announce",
     "announce update", "add form", "interest", "tell cancel"}

\* The steps that are about to send a message.
Tells == {"ask", "announce", "announce update", "tell reject", "tell cancel"}

LEMMA RequestLocals ==
    ASSUME NEW r \in Request
    PROVE  /\ r.do \in {"create form", "insert"} => r.who \in Users
           /\ r.do \in AboutEvent => r.ev \in Events
           /\ r.do = "save ref" => r.seen \in SUBSET Marks
           /\ r.do = "update" => r.old \in Slots /\ r.new \in Slots
           /\ r.do \in {"announce", "announce update"} => r.new \in Slots
           /\ r.do \in {"add form", "interest"} => r.who \in Users
  <1> USE DEF Idle, AboutEvent
  <1>1. CASE r = Idle
    BY <1>1
  <1>2. CASE r \in [do : {"create form", "insert"}, who : Users]
    BY <1>2
  <1>3. CASE r \in [do : {"ask", "ref", "approve form", "reject form", "approve", "reject",
                          "cancel form", "cancel", "update pick", "update form",
                          "tell reject", "tell cancel"}, ev : Events]
    BY <1>3
  <1>4. CASE r \in [do : {"save ref"}, ev : Events, seen : SUBSET Marks]
    BY <1>4
  <1>5. CASE r \in [do : {"update"}, ev : Events, old : Slots, new : Slots]
    BY <1>5
  <1>6. CASE r \in [do : {"announce", "announce update"}, ev : Events, new : Slots]
    BY <1>6
  <1>7. CASE r \in [do : {"add form", "interest"}, ev : Events, who : Users]
    BY <1>7
  <1>. QED
    BY <1>1, <1>2, <1>3, <1>4, <1>5, <1>6, <1>7, Zenon DEF Request

LEMMA IdleRecord ==
    ASSUME NEW r \in Request, r.do = "idle"
    PROVE  r = Idle
  <1>1. r \notin [do : {"create form", "insert"}, who : Users]
    OBVIOUS
  <1>2. r \notin [do : {"ask", "ref", "approve form", "reject form", "approve", "reject",
                        "cancel form", "cancel", "update pick", "update form",
                        "tell reject", "tell cancel"}, ev : Events]
    OBVIOUS
  <1>3. /\ r \notin [do : {"save ref"}, ev : Events, seen : SUBSET Marks]
        /\ r \notin [do : {"update"}, ev : Events, old : Slots, new : Slots]
        /\ r \notin [do : {"announce", "announce update"}, ev : Events, new : Slots]
        /\ r \notin [do : {"add form", "interest"}, ev : Events, who : Users]
    OBVIOUS
  <1>. QED
    BY <1>1, <1>2, <1>3, Zenon DEF Request

LEMMA InsertRecord ==
    ASSUME NEW r \in Request, r.do = "insert"
    PROVE  r = [do |-> "insert", who |-> r.who]
  <1>1. r # Idle
    BY DEF Idle
  <1>2. r \notin [do : {"ask", "ref", "approve form", "reject form", "approve", "reject",
                        "cancel form", "cancel", "update pick", "update form",
                        "tell reject", "tell cancel"}, ev : Events]
    OBVIOUS
  <1>3. /\ r \notin [do : {"save ref"}, ev : Events, seen : SUBSET Marks]
        /\ r \notin [do : {"update"}, ev : Events, old : Slots, new : Slots]
        /\ r \notin [do : {"announce", "announce update"}, ev : Events, new : Slots]
        /\ r \notin [do : {"add form", "interest"}, ev : Events, who : Users]
    OBVIOUS
  <1>4. r \in [do : {"create form", "insert"}, who : Users]
    BY <1>1, <1>2, <1>3, Zenon DEF Request
  <1>. QED
    BY <1>4

\* Every record a thread moves to is one of Request.
LEMMA RequestRecords ==
    /\ Idle \in Request
    /\ \A d \in {"create form", "insert"}, u \in Users : [do |-> d, who |-> u] \in Request
    /\ \A d \in {"ask", "ref", "approve form", "reject form", "approve", "reject",
                 "cancel form", "cancel", "update pick", "update form",
                 "tell reject", "tell cancel"}, e \in Events : [do |-> d, ev |-> e] \in Request
    /\ \A e \in Events, S \in SUBSET Marks : [do |-> "save ref", ev |-> e, seen |-> S] \in Request
    /\ \A e \in Events, s, t \in Slots :
          [do |-> "update", ev |-> e, old |-> s, new |-> t] \in Request
    /\ \A d \in {"announce", "announce update"}, e \in Events, s \in Slots :
          [do |-> d, ev |-> e, new |-> s] \in Request
    /\ \A d \in {"add form", "interest"}, e \in Events, u \in Users :
          [do |-> d, ev |-> e, who |-> u] \in Request
  BY DEF Request

LEMMA PassLocals ==
    ASSUME NEW p \in Pass
    PROVE  /\ p.do = "timeout" => p.todo \in SUBSET Events /\ p.done \in SUBSET Events
           /\ p.do = "complete" => p.done \in SUBSET Events
           /\ p.do \in {"morning", "flag"} => p.day \in Nat
           /\ p.do = "soon" => p.todo \in SUBSET Events /\ p.done \in SUBSET Events
           /\ p.do = "mark" => /\ p.todo \in SUBSET Events
                               /\ p.bare \in SUBSET Events /\ p.ref \in SUBSET Events
  <1>1. CASE p \in {Asleep, Started} \cup [do : {"complete?", "morning?", "soon?"}]
    BY <1>1 DEF Asleep, Started
  <1>2. CASE p \in [do : {"timeout"}, todo : SUBSET Events, done : SUBSET Events]
    BY <1>2
  <1>3. CASE p \in [do : {"complete"}, done : SUBSET Events]
    BY <1>3
  <1>4. CASE p \in [do : {"morning", "flag"}, day : Nat]
    BY <1>4
  <1>5. CASE p \in [do : {"soon"}, todo : SUBSET Events, done : SUBSET Events]
    BY <1>5
  <1>6. CASE p \in [do : {"mark"}, todo : SUBSET Events, bare : SUBSET Events,
                    ref : SUBSET Events]
    BY <1>6
  <1>. QED
    BY <1>1, <1>2, <1>3, <1>4, <1>5, <1>6, Zenon DEF Pass

\* A check goes on with the rows it holds.
LEMMA PassMoves ==
    ASSUME NEW p \in Pass, NEW e \in Events
    PROVE  /\ p.do \in {"timeout", "soon"} =>
                LET q == [p EXCEPT !.todo = @ \ {e}, !.done = @ \cup {e}]
                IN  /\ q \in Pass /\ q.do = p.do
                    /\ q.todo = p.todo \ {e} /\ q.done = p.done \cup {e}
           /\ p.do = "mark" =>
                LET q == [p EXCEPT !.todo = @ \ {e}, !.ref = @ \cup {e}]
                IN  /\ q \in Pass /\ q.do = p.do
                    /\ q.todo = p.todo \ {e} /\ q.ref = p.ref \cup {e} /\ q.bare = p.bare
           /\ p.do = "mark" =>
                LET q == [p EXCEPT !.todo = @ \ {e}, !.bare = @ \cup {e}]
                IN  /\ q \in Pass /\ q.do = p.do
                    /\ q.todo = p.todo \ {e} /\ q.bare = p.bare \cup {e} /\ q.ref = p.ref
  <1>1. p.do = "timeout" => p \in [do : {"timeout"}, todo : SUBSET Events, done : SUBSET Events]
    BY DEF Pass, Asleep, Started
  <1>2. p.do = "soon" => p \in [do : {"soon"}, todo : SUBSET Events, done : SUBSET Events]
    BY DEF Pass, Asleep, Started
  <1>3. p.do = "mark" =>
          p \in [do : {"mark"}, todo : SUBSET Events, bare : SUBSET Events, ref : SUBSET Events]
    BY DEF Pass, Asleep, Started
  <1>. QED
    BY <1>1, <1>2, <1>3 DEF Pass

LEMMA PassRecords ==
    /\ Asleep \in Pass /\ Started \in Pass
    /\ \A d \in {"complete?", "morning?", "soon?"} : [do |-> d] \in Pass
    /\ \A S, T \in SUBSET Events :
          /\ [do |-> "timeout", done |-> S, todo |-> T] \in Pass
          /\ [do |-> "soon", done |-> S, todo |-> T] \in Pass
          /\ [do |-> "complete", done |-> S] \in Pass
          /\ [do |-> "mark", todo |-> S, bare |-> {}, ref |-> {}] \in Pass
    /\ \A d \in {"morning", "flag"}, n \in Nat : [do |-> d, day |-> n] \in Pass
  BY DEF Pass

LEMMA DayOrder ==
    ASSUME NEW m \in Nat
    PROVE  Day(m) \in Nat /\ Day(m + 1) \in Nat /\ Day(m) <= Day(m + 1)
  BY DEF Day

-----------------------------------------------------------------------------
(* The invariant                                                            *)

Known(e) == status[e] # "NONE"

\* A message was sent, unless a fault has taken it.
Heard(e, what) == what \in said[e] \/ e \in lost

\* What a request holds is about a row that exists, or one that was approved;
\* and the meta it has read does not run ahead of the reminder.
Sound(r) ==
    /\ r.do \in AboutEvent => Known(r.ev)
    /\ r.do \in AboutPublic => r.ev \in approved
    /\ r.do = "save ref" => ("reminded" \in r.seen => Heard(r.ev, "soon"))

RequestsSound == \A h \in Handlers : Sound(req[h])

\* The same of a pass: the rows it ends or reminds of are what it takes them
\* for, and those it is about to store or to mark have heard of it.
PassSound ==
    /\ sch.do = "timeout" => \A e \in sch.todo \cup sch.done : Known(e)
    /\ sch.do = "timeout" => \A e \in sch.done : Heard(e, "rejected")
    /\ sch.do = "complete" => sch.done \subseteq approved
    /\ sch.do = "soon" => sch.todo \cup sch.done \subseteq approved
    /\ sch.do = "soon" => \A e \in sch.done : Heard(e, "soon")
    /\ sch.do = "mark" => \A e \in sch.todo \cup sch.bare \cup sch.ref : Heard(e, "soon")

\* Nothing has happened to a row that does not exist yet.
NothingBefore == \A e \in Events : said[e] # {} \/ e \in approved => Known(e)

\* The days whose summary was posted are remembered, about to be, or excused.
MorningsKept ==
    /\ lastMorning <= Day(now)
    /\ sch.do \in {"morning", "flag"} => lastMorning <= sch.day /\ sch.day <= Day(now)
    /\ \A d \in mornings :
          \/ d <= lastMorning
          \/ d \in lost
          \/ sch.do = "flag" /\ d = sch.day

IInv ==
    /\ TypeOK
    /\ RequestsSound /\ PassSound /\ NothingBefore
    /\ PublicOnlyApproved /\ RowIsTold /\ MarkedIsReminded
    /\ MorningsKept /\ MorningOnce
    /\ QuotaOvershoot

-----------------------------------------------------------------------------
(* The steps of a request that only read                                    *)

ReadOnly(h) ==
    \/ \E u \in Users : OpenCreate(h, u)
    \/ CountPending(h) \/ ReadMeta(h)
    \/ \E e \in Events : OpenDecision(h, e) \/ OpenCancel(h, e) \/ OpenUpdate(h, e)
    \/ \E e \in Events, u \in Users : OpenAddMe(h, e, u) \/ ClickInterest(h, e, u)
    \/ ReadToApprove(h) \/ ReadToReject(h)
    \/ ReadToCancel(h) \/ PickUpdate(h) \/ ReadToUpdate(h) \/ ReadToAdd(h)

\* What such a step reads is sound, it counts the quota before it goes on to
\* insert, and it gives up nothing that was about to be told.
LEMMA ReadingStep ==
    ASSUME TypeOK, RequestsSound, NothingBefore, PublicOnlyApproved, MarkedIsReminded,
           NEW h \in Handlers, ReadOnly(h)
    PROVE  \E r \in Request :
              /\ Reads(h, r) /\ Sound(r)
              /\ r.do \notin Tells /\ req[h].do \notin Tells \cup {"insert"}
              /\ r.do = "insert" => ~Full(r.who)
  <1> DEFINE Fits(r) == /\ r \in Request /\ Sound(r) /\ r.do \notin Tells
                        /\ r.do = "insert" => ~Full(r.who)
  <1>. SUFFICES \E r \in Request : /\ Reads(h, r) /\ Fits(r)
                                  /\ req[h].do \notin Tells \cup {"insert"}
    OBVIOUS
  <1>0. req[h] \in Request /\ Sound(req[h])
    BY DEF TypeOK, RequestsSound
  <1>1. Fits(Idle)
    BY RequestRecords DEF Idle, Sound, AboutEvent, AboutPublic, Tells
  <1>2. Idle.do = "idle"
    BY DEF Idle
  <1>3. ASSUME NEW u \in Users, OpenCreate(h, u)
        PROVE  \E r \in Request : Reads(h, r) /\ Fits(r) /\ req[h] = Idle
    BY <1>3, RequestRecords DEF OpenCreate, Sound, AboutEvent, AboutPublic, Tells
  <1>4. CASE CountPending(h)
    <2>1. req[h].who \in Users
      BY <1>0, <1>4, RequestLocals DEF CountPending
    <2>2. ~Full(req[h].who) => Fits([do |-> "insert", who |-> req[h].who])
      BY <2>1, RequestRecords DEF Sound, AboutEvent, AboutPublic, Tells
    <2>. QED
      BY <1>1, <1>4, <2>2 DEF CountPending, Tells
  <1>5. CASE ReadMeta(h)
    <2>1. req[h].ev \in Events /\ Known(req[h].ev) /\ meta[req[h].ev] \in SUBSET Marks
      BY <1>0, <1>5, RequestLocals DEF ReadMeta, AboutEvent, Sound, TypeOK
    <2>2. Fits([do |-> "save ref", ev |-> req[h].ev, seen |-> meta[req[h].ev]])
      BY <2>1, RequestRecords
         DEF Sound, AboutEvent, AboutPublic, Tells, MarkedIsReminded, Heard
    <2>. QED
      BY <1>5, <2>2 DEF ReadMeta, Tells
  <1>6. ASSUME NEW e \in Events, Known(e)
        PROVE  \A d \in {"approve form", "reject form", "approve", "reject"} :
                  Fits([do |-> d, ev |-> e])
    BY <1>6, RequestRecords DEF Sound, AboutEvent, AboutPublic, Tells
  <1>7. ASSUME NEW e \in Events, status[e] = "APPROVED"
        PROVE  /\ \A d \in {"cancel form", "cancel", "update pick", "update form"} :
                     Fits([do |-> d, ev |-> e])
               /\ \A s, t \in Slots :
                     Fits([do |-> "update", ev |-> e, old |-> s, new |-> t])
               /\ \A d \in {"add form", "interest"}, u \in Users :
                     Fits([do |-> d, ev |-> e, who |-> u])
    <2>1. Known(e) /\ e \in approved
      BY <1>7 DEF Known, PublicOnlyApproved
    <2>. QED
      BY <2>1, RequestRecords DEF Sound, AboutEvent, AboutPublic, Tells
  <1>8. ASSUME NEW e \in Events, OpenDecision(h, e)
        PROVE  \E r \in Request : Reads(h, r) /\ Fits(r) /\ req[h] = Idle
    <2>1. Known(e)
      BY <1>8 DEF OpenDecision, NothingBefore
    <2>. QED
      BY <1>6, <1>8, <2>1 DEF OpenDecision
  <1>9. ASSUME NEW e \in Events, OpenCancel(h, e) \/ OpenUpdate(h, e)
        PROVE  \E r \in Request : Reads(h, r) /\ Fits(r) /\ req[h] = Idle
    BY <1>7, <1>9 DEF OpenCancel, OpenUpdate
  <1>10. ASSUME NEW e \in Events, NEW u \in Users, OpenAddMe(h, e, u) \/ ClickInterest(h, e, u)
         PROVE  \E r \in Request : Reads(h, r) /\ Fits(r) /\ req[h] = Idle
    BY <1>1, <1>7, <1>10 DEF OpenAddMe, ClickInterest, Wanted
  <1>11. CASE ReadToApprove(h) \/ ReadToReject(h)
    <2>1. req[h].ev \in Events /\ req[h].do \notin Tells \cup {"insert"}
      BY <1>0, <1>11, RequestLocals DEF ReadToApprove, ReadToReject, Judged, AboutEvent, Tells
    <2>2. status[req[h].ev] = "PENDING" => Known(req[h].ev)
      BY DEF Known
    <2>. QED
      BY <1>1, <1>6, <1>11, <2>1, <2>2 DEF ReadToApprove, ReadToReject, Judged
  <1>12. CASE ReadToCancel(h) \/ PickUpdate(h)
    <2>1. req[h].ev \in Events /\ req[h].do \notin Tells \cup {"insert"}
      BY <1>0, <1>12, RequestLocals DEF ReadToCancel, PickUpdate, Sent, AboutEvent, Tells
    <2>. QED
      BY <1>1, <1>7, <1>12, <2>1 DEF ReadToCancel, PickUpdate, Sent
  <1>13. CASE ReadToUpdate(h)
    <2>1. /\ req[h].ev \in Events /\ req[h].do \notin Tells \cup {"insert"}
          /\ at[req[h].ev] \in Slots
      BY <1>0, <1>13, RequestLocals DEF ReadToUpdate, Sent, AboutEvent, Tells, TypeOK
    <2>. QED
      BY <1>1, <1>7, <1>13, <2>1 DEF ReadToUpdate, Sent
  <1>14. CASE ReadToAdd(h)
    <2>1. /\ req[h].ev \in Events /\ req[h].do \notin Tells \cup {"insert"}
          /\ req[h].who \in Users
      BY <1>0, <1>14, RequestLocals DEF ReadToAdd, Sent, AboutEvent, Tells
    <2>. QED
      BY <1>1, <1>7, <1>14, <2>1 DEF ReadToAdd, Sent, Wanted
  <1>15. req[h] = Idle => req[h].do \notin Tells \cup {"insert"}
    BY <1>2 DEF Tells
  <1>. HIDE DEF Fits
  <1>. QED
    BY <1>3, <1>4, <1>5, <1>8, <1>9, <1>10, <1>11, <1>12, <1>13, <1>14, <1>15 DEF ReadOnly

-----------------------------------------------------------------------------
(* Type correctness                                                         *)

LEMMA InitTyped == Init => TypeOK
  <1>1. (CHOOSE u \in Users : TRUE) \in Users /\ (CHOOSE s \in Slots : TRUE) \in Slots
    BY EventsAssumption
  <1>2. Day(0) = 0 /\ 0 \in Moments
    BY EventsAssumption DEF Day, Moments
  <1>. QED
    BY <1>1, <1>2, RequestRecords, PassRecords DEF Init, TypeOK, Statuses

\* The requests and the scheduler meet only in the rows and in what was told.
LEMMA RequestLeaves ==
    ASSUME TypeOK, RequestsSound, NothingBefore, PublicOnlyApproved, MarkedIsReminded,
           NEW h \in Handlers, Requesting(h) \/ HandlerGone(h)
    PROVE  UNCHANGED <<sch, lastMorning, now, mornings>>
  <1>1. CASE ReadOnly(h)
    BY <1>1, ReadingStep DEF Reads, slackVars
  <1>. QED
    BY <1>1, Zenon
       DEF Requesting, ReadOnly, HandlerGone, InsertEvent, AskAdmins, SaveRef, WriteApproval,
           WriteRejection, WriteCancellation, WriteUpdate, AddInterest, Announce,
           AnnounceUpdate, TellWhen, TellRejection, TellCancellation, TellEnd, slackVars

LEMMA PassLeaves ==
    ASSUME Scheduling \/ PassFails \/ SchedulerRestart
    PROVE  UNCHANGED <<req, now, creator, at, approved, interest, told>>
  BY Zenon
     DEF Scheduling, ReadOverdue, StoreTimeout, ReadPast, StoreCompleted, ReadToday,
         PostMorning, FlagMorning, ReadSoon, StartMarking, StoreMarks, TellOverdue,
         TellSoon, ReadMark, PassFails, SchedulerRestart, rowVars, slackVars

LEMMA WritingTyped ==
    ASSUME TypeOK, NEW h \in Handlers
    PROVE  /\ \A e \in Events, s \in Slots : InsertEvent(h, e, s) => TypeOK'
           /\ AskAdmins(h) \/ SaveRef(h) => TypeOK'
           /\ WriteApproval(h) \/ WriteRejection(h) \/ WriteCancellation(h) => TypeOK'
           /\ WriteUpdate(h) \/ AddInterest(h) => TypeOK'
           /\ Announce(h) \/ AnnounceUpdate(h) => TypeOK'
           /\ TellRejection(h) \/ TellCancellation(h) \/ HandlerGone(h) => TypeOK'
  <1> USE DEF TypeOK
  <1>0. req[h] \in Request
    OBVIOUS
  <1>1. ASSUME NEW e \in Events, NEW s \in Slots, InsertEvent(h, e, s) PROVE TypeOK'
    <2>1. req[h].who \in Users
      BY <1>0, <1>1, RequestLocals DEF InsertEvent
    <2>. QED
      BY <1>1, <2>1, RequestRecords DEF InsertEvent, Goto, Statuses, slackVars
  <1>2. ASSUME AskAdmins(h) \/ SaveRef(h) PROVE TypeOK'
    <2>1. req[h].ev \in Events
      BY <1>0, <1>2, RequestLocals DEF AskAdmins, SaveRef, AboutEvent
    <2>2. CASE AskAdmins(h)
      BY <2>1, <2>2, RequestRecords DEF AskAdmins, Goto, Say, Messages, rowVars
    <2>3. CASE SaveRef(h)
      <3>1. req[h].seen \cup {"admin"} \in SUBSET Marks
        BY <1>0, <2>3, RequestLocals DEF SaveRef, Marks
      <3>. QED
        BY <2>1, <2>3, <3>1, RequestRecords DEF SaveRef, Goto, slackVars
    <2>. QED
      BY <1>2, <2>2, <2>3
  <1>3. ASSUME WriteApproval(h) \/ WriteRejection(h) \/ WriteCancellation(h) PROVE TypeOK'
    <2>1. req[h].ev \in Events
      BY <1>0, <1>3, RequestLocals DEF WriteApproval, WriteRejection, WriteCancellation, AboutEvent
    <2>2. CASE WriteApproval(h)
      BY <2>1, <2>2, RequestRecords DEF WriteApproval, Goto, Statuses, slackVars
    <2>3. CASE WriteRejection(h)
      BY <2>1, <2>3, RequestRecords DEF WriteRejection, Goto, Statuses, slackVars
    <2>4. CASE WriteCancellation(h)
      BY <2>1, <2>4, RequestRecords DEF WriteCancellation, Goto, Statuses, slackVars
    <2>. QED
      BY <1>3, <2>2, <2>3, <2>4
  <1>4. ASSUME WriteUpdate(h) \/ AddInterest(h) PROVE TypeOK'
    <2>1. req[h].ev \in Events
      BY <1>0, <1>4, RequestLocals DEF WriteUpdate, AddInterest, AboutEvent
    <2>2. CASE WriteUpdate(h)
      <3>1. req[h].new \in Slots
        BY <1>0, <2>2, RequestLocals DEF WriteUpdate
      <3>2. \A r \in Request : Goto(h, r) => req' \in [Handlers -> Request]
        BY DEF Goto
      <3>3. /\ Idle \in Request
            /\ [do |-> "announce update", ev |-> req[h].ev, new |-> req[h].new] \in Request
        BY <2>1, <3>1, RequestRecords
      <3>4. req' \in [Handlers -> Request]
        BY <2>2, <3>2, <3>3 DEF WriteUpdate
      <3>. QED
        BY <2>1, <2>2, <3>1, <3>4 DEF WriteUpdate, slackVars
    <2>3. CASE AddInterest(h)
      <3>1. req[h].who \in Users
        BY <1>0, <2>3, RequestLocals DEF AddInterest
      <3>. QED
        BY <2>1, <2>3, <3>1, RequestRecords DEF AddInterest, Goto, slackVars
    <2>. QED
      BY <1>4, <2>2, <2>3
  <1>5. ASSUME Announce(h) \/ AnnounceUpdate(h) PROVE TypeOK'
    <2>1. req[h].ev \in Events /\ req[h].new \in Slots
      BY <1>0, <1>5, RequestLocals DEF Announce, AnnounceUpdate, TellWhen, AboutEvent
    <2>2. ASSUME NEW what, TellWhen(h, what) PROVE TypeOK'
      <3>1. req' \in [Handlers -> Request]
        BY <2>2, RequestRecords DEF TellWhen, Goto
      <3>2. told' \in [Events -> SUBSET Slots] /\ lost' \subseteq Events \cup Nat
        BY <2>1, <2>2 DEF TellWhen
      <3>. QED
        BY <2>2, <3>1, <3>2 DEF TellWhen, rowVars
    <2>. QED
      BY <1>5, <2>2 DEF Announce, AnnounceUpdate
  <1>6. ASSUME TellRejection(h) \/ TellCancellation(h) PROVE TypeOK'
    <2>1. req[h].ev \in Events
      BY <1>0, <1>6, RequestLocals DEF TellRejection, TellCancellation, TellEnd, AboutEvent
    <2>2. ASSUME NEW what, NEW message \in Messages, TellEnd(h, what, message) PROVE TypeOK'
      <3>1. req' \in [Handlers -> Request]
        BY <2>2, RequestRecords DEF TellEnd, Goto
      <3>2. said' \in [Events -> SUBSET Messages] /\ lost' \subseteq Events \cup Nat
        BY <2>1, <2>2 DEF TellEnd, Say
      <3>. QED
        BY <2>2, <3>1, <3>2 DEF TellEnd, rowVars
    <2>. QED
      BY <1>6, <2>2 DEF TellRejection, TellCancellation, Messages
  <1>7. ASSUME HandlerGone(h) PROVE TypeOK'
    <2>1. lost' \subseteq Events \cup Nat
      BY <1>0, <1>7, RequestLocals DEF HandlerGone, AboutEvent
    <2>. QED
      BY <1>7, <2>1, RequestRecords DEF HandlerGone, Goto, rowVars, slackVars
  <1>. QED
    BY <1>1, <1>2, <1>3, <1>4, <1>5, <1>6, <1>7

LEMMA SchedulingTyped ==
    ASSUME TypeOK, Scheduling \/ PassFails \/ SchedulerRestart
    PROVE  TypeOK'
  <1> USE DEF TypeOK, Then
  <1>0. sch \in Pass
    OBVIOUS
  <1>1. now \in Nat /\ Day(now) \in Nat
    BY EventsAssumption, DayOrder DEF Moments
  <1>2. CASE ReadOverdue
    <2>1. {e \in overdue : status[e] = "PENDING"} \in SUBSET Events
      OBVIOUS
    <2>. QED
      BY <1>2, <2>1, PassRecords DEF ReadOverdue, rowVars, slackVars
  <1>3. CASE StoreTimeout
    BY <1>3, PassRecords DEF StoreTimeout, Statuses, slackVars
  <1>4. CASE ReadPast
    <2>1. {e \in Events : Past(e)} \in SUBSET Events
      OBVIOUS
    <2>. QED
      BY <1>4, <2>1, PassRecords DEF ReadPast, rowVars, slackVars
  <1>5. CASE StoreCompleted
    BY <1>5, PassRecords DEF StoreCompleted, Statuses, slackVars
  <1>6. CASE ReadToday
    BY <1>1, <1>6, PassRecords DEF ReadToday, rowVars, slackVars
  <1>7. CASE PostMorning
    <2>1. sch.day \in Nat
      BY <1>0, <1>7, PassLocals DEF PostMorning
    <2>. QED
      BY <1>7, <2>1, PassRecords DEF PostMorning, rowVars
  <1>8. CASE FlagMorning
    <2>1. sch.day \in Nat
      BY <1>0, <1>8, PassLocals DEF FlagMorning
    <2>. QED
      BY <1>8, <2>1, PassRecords DEF FlagMorning, rowVars, slackVars
  <1>9. CASE ReadSoon
    <2>1. {e \in Events : status[e] = "APPROVED" /\ at[e] = now /\ "reminded" \notin meta[e]}
             \in SUBSET Events
      OBVIOUS
    <2>. QED
      BY <1>9, <2>1, PassRecords DEF ReadSoon, rowVars, slackVars
  <1>10. CASE StartMarking
    <2>1. sch.done \in SUBSET Events
      BY <1>0, <1>10, PassLocals DEF StartMarking
    <2>. QED
      BY <1>10, <2>1, PassRecords DEF StartMarking, rowVars, slackVars
  <1>11. CASE StoreMarks
    BY <1>11, PassRecords DEF StoreMarks, Marks, slackVars
  <1>12. ASSUME NEW e \in Events, TellOverdue(e) \/ TellSoon(e)
         PROVE  TypeOK'
    <2>1. sch' \in Pass
      <3>1. sch.do \in {"timeout", "soon"}
        BY <1>12 DEF TellOverdue, TellSoon
      <3>2. sch' = [sch EXCEPT !.todo = @ \ {e}, !.done = @ \cup {e}]
        BY <1>12 DEF TellOverdue, TellSoon
      <3>. QED
        BY <1>0, <3>1, <3>2, PassMoves
    <2>. QED
      BY <1>12, <2>1 DEF TellOverdue, TellSoon, Say, Messages, rowVars
  <1>13. ASSUME NEW e \in Events, ReadMark(e)
         PROVE  TypeOK'
    <2>1. sch' \in Pass
      BY <1>0, <1>13, PassMoves DEF ReadMark
    <2>. QED
      BY <1>13, <2>1 DEF ReadMark, rowVars, slackVars
  <1>14. CASE PassFails
    <2>1. lost' \subseteq Events \cup Nat
      BY <1>0, <1>14, PassLocals DEF PassFails
    <2>. QED
      BY <1>14, <2>1, PassRecords DEF PassFails, rowVars, slackVars
  <1>15. CASE SchedulerRestart
    BY <1>15, PassRecords DEF SchedulerRestart, rowVars, slackVars
  <1>. QED
    BY <1>2, <1>3, <1>4, <1>5, <1>6, <1>7, <1>8, <1>9, <1>10, <1>11, <1>12, <1>13, <1>14,
       <1>15 DEF Scheduling

\* Every step keeps the types; the reading steps need what they read to be sound.
LEMMA StepTyped ==
    ASSUME TypeOK, RequestsSound, NothingBefore, PublicOnlyApproved, MarkedIsReminded,
           [Next]_vars
    PROVE  TypeOK'
  <1>1. ASSUME NEW h \in Handlers, ReadOnly(h)
        PROVE  TypeOK'
    BY <1>1, ReadingStep DEF Reads, Goto, TypeOK, rowVars, slackVars
  <1>2. ASSUME NEW e \in Events, BecomeOverdue(e)
        PROVE  TypeOK'
    BY <1>2 DEF BecomeOverdue, TypeOK, rowVars, slackVars, memVars
  <1>3. CASE TimePasses
    BY <1>3, EventsAssumption DEF TimePasses, TypeOK, Moments, rowVars, slackVars, memVars
  <1>4. CASE UNCHANGED vars
    BY <1>4 DEF vars, TypeOK, rowVars, slackVars, memVars
  <1>. QED
    BY <1>1, <1>2, <1>3, <1>4, WritingTyped, SchedulingTyped DEF Next, Requesting, ReadOnly

-----------------------------------------------------------------------------
(* What no step takes away                                                  *)

Grows ==
    /\ \A e \in Events : Known(e) => Known(e)'
    /\ \A e \in Events : said[e] \subseteq said'[e] /\ told[e] \subseteq told'[e]
    /\ approved \subseteq approved' /\ lost \subseteq lost'

LEMMA WritingGrows ==
    ASSUME TypeOK, NEW h \in Handlers, Requesting(h) \/ HandlerGone(h), ~ReadOnly(h)
    PROVE  /\ Grows
           /\ \A e \in Events : Known(e) /\ status'[e] = "PENDING" => status[e] = "PENDING"
  <1> USE DEF Grows, Known, TypeOK
  <1>1. ASSUME NEW e \in Events, NEW s \in Slots, InsertEvent(h, e, s)
        PROVE  Grows /\ \A d \in Events : Known(d) => status'[d] = status[d]
    BY <1>1 DEF InsertEvent, slackVars
  <1>2. CASE AskAdmins(h)
    BY <1>2 DEF AskAdmins, Say, rowVars
  <1>3. CASE SaveRef(h) \/ WriteUpdate(h) \/ AddInterest(h)
    BY <1>3 DEF SaveRef, WriteUpdate, AddInterest, slackVars
  <1>4. CASE WriteApproval(h)
    BY <1>4 DEF WriteApproval, slackVars
  <1>5. CASE WriteRejection(h)
    BY <1>5 DEF WriteRejection, slackVars
  <1>6. CASE WriteCancellation(h)
    BY <1>6 DEF WriteCancellation, slackVars
  <1>7. CASE Announce(h) \/ AnnounceUpdate(h)
    <2>1. /\ UNCHANGED <<rowVars, said>> /\ lost \subseteq lost'
          /\ \A e \in Events : told[e] \subseteq told'[e]
      BY <1>7 DEF Announce, AnnounceUpdate, TellWhen
    <2>. QED
      BY <2>1 DEF rowVars
  <1>8. CASE TellRejection(h) \/ TellCancellation(h)
    <2>1. /\ UNCHANGED <<rowVars, told>> /\ lost \subseteq lost'
          /\ \A e \in Events : said[e] \subseteq said'[e]
      BY <1>8 DEF TellRejection, TellCancellation, TellEnd, Say
    <2>. QED
      BY <2>1 DEF rowVars
  <1>9. CASE HandlerGone(h)
    BY <1>9 DEF HandlerGone, rowVars, slackVars
  <1>. QED
    BY <1>1, <1>2, <1>3, <1>4, <1>5, <1>6, <1>7, <1>8, <1>9, Zenon DEF Requesting, ReadOnly

LEMMA SchedulingGrows ==
    ASSUME TypeOK, Scheduling \/ PassFails \/ SchedulerRestart
    PROVE  /\ Grows
           /\ \A e \in Events : Known(e) /\ status'[e] = "PENDING" => status[e] = "PENDING"
  <1> USE DEF Grows, Known, TypeOK
  <1>1. CASE ReadOverdue \/ ReadPast \/ ReadToday \/ FlagMorning \/ ReadSoon \/ StartMarking
    <2>1. UNCHANGED <<rowVars, slackVars, lost>>
      BY <1>1, Zenon DEF ReadOverdue, ReadPast, ReadToday, FlagMorning, ReadSoon, StartMarking
    <2>. QED
      BY <2>1 DEF rowVars, slackVars
  <1>2. CASE StoreTimeout
    BY <1>2 DEF StoreTimeout, slackVars
  <1>3. CASE StoreCompleted
    BY <1>3 DEF StoreCompleted, slackVars
  <1>4. CASE StoreMarks
    BY <1>4 DEF StoreMarks, slackVars
  <1>5. CASE PostMorning
    BY <1>5 DEF PostMorning, rowVars
  <1>6. ASSUME NEW e \in Events, TellOverdue(e) \/ TellSoon(e)
        PROVE  Grows /\ UNCHANGED status
    BY <1>6 DEF TellOverdue, TellSoon, Say, rowVars
  <1>7. ASSUME NEW e \in Events, ReadMark(e)
        PROVE  Grows /\ UNCHANGED status
    BY <1>7 DEF ReadMark, rowVars, slackVars
  <1>8. CASE PassFails \/ SchedulerRestart
    <2>1. UNCHANGED <<rowVars, slackVars>> /\ lost \subseteq lost'
      BY <1>8 DEF PassFails, SchedulerRestart
    <2>. QED
      BY <2>1 DEF rowVars, slackVars
  <1>. QED
    BY <1>1, <1>2, <1>3, <1>4, <1>5, <1>6, <1>7, <1>8 DEF Scheduling

LEMMA StepGrows ==
    ASSUME IInv, [Next]_vars
    PROVE  /\ Grows
           /\ \A e \in Events : Known(e) /\ status'[e] = "PENDING" => status[e] = "PENDING"
  <1>1. ASSUME NEW h \in Handlers, ReadOnly(h)
        PROVE  Grows /\ UNCHANGED status
    <2>1. UNCHANGED <<rowVars, slackVars, lost>>
      BY <1>1, ReadingStep DEF Reads, IInv
    <2>. QED
      BY <2>1 DEF Grows, Known, rowVars, slackVars
  <1>2. ASSUME UNCHANGED <<rowVars, slackVars, lost>>
        PROVE  Grows /\ UNCHANGED status
    BY <1>2 DEF Grows, Known, rowVars, slackVars
  <1>3. ASSUME NEW e \in Events, BecomeOverdue(e)
        PROVE  UNCHANGED <<rowVars, slackVars, lost>>
    BY <1>3 DEF BecomeOverdue
  <1>4. CASE TimePasses \/ UNCHANGED vars
    BY <1>2, <1>4 DEF TimePasses, vars
  <1>. QED
    BY <1>1, <1>2, <1>3, <1>4, WritingGrows, SchedulingGrows DEF Next, IInv

-----------------------------------------------------------------------------
(* What is held stays sound                                                 *)

LEMMA SoundStays ==
    ASSUME TypeOK, RequestsSound, Grows, NEW g \in Handlers, req'[g] = req[g]
    PROVE  Sound(req[g])'
  <1>1. /\ Sound(req[g])
        /\ req[g].do \in AboutEvent => req[g].ev \in Events
    BY RequestLocals DEF TypeOK, RequestsSound
  <1>2. req[g].do = "save ref" => req[g].do \in AboutEvent
    BY DEF AboutEvent
  <1>. QED
    BY <1>1, <1>2 DEF Sound, Grows, Heard

LEMMA RequestsStaySound ==
    ASSUME IInv, Grows, [Next]_vars
    PROVE  RequestsSound'
  <1>. TypeOK /\ RequestsSound
    BY DEF IInv
  <1>0. ASSUME UNCHANGED req PROVE RequestsSound'
    BY <1>0, SoundStays DEF RequestsSound
  <1>1. ASSUME NEW h \in Handlers, NEW r, Goto(h, r), Sound(req[h])'
        PROVE  RequestsSound'
    <2>1. ASSUME NEW g \in Handlers PROVE Sound(req[g])'
      <3>1. CASE g = h
        BY <3>1, <1>1
      <3>2. CASE g # h
        <4>1. req'[g] = req[g]
          BY <1>1, <3>2 DEF Goto, TypeOK
        <4>. QED
          BY <4>1, SoundStays
      <3>. QED
        BY <3>1, <3>2
    <2>. QED
      BY <2>1 DEF RequestsSound
  <1>2. ASSUME NEW h \in Handlers, Goto(h, Idle)
        PROVE  RequestsSound'
    <2>1. Sound(req[h])'
      BY <1>2 DEF Goto, TypeOK, Sound, Idle, AboutEvent, AboutPublic
    <2>. QED
      BY <1>1, <1>2, <2>1
  <1>3. ASSUME NEW h \in Handlers, ReadOnly(h)
        PROVE  RequestsSound'
    <2>1. PICK r \in Request : Reads(h, r) /\ Sound(r)
      BY <1>3, ReadingStep DEF IInv
    <2>2. Sound(req[h])'
      BY <2>1 DEF Reads, Goto, TypeOK, Sound, Known, Heard, rowVars, slackVars
    <2>. QED
      BY <1>1, <2>1, <2>2 DEF Reads
  <1>4. ASSUME NEW h \in Handlers, NEW e \in Events, NEW d \in AboutEvent,
               d # "save ref", Goto(h, [do |-> d, ev |-> e]), status'[e] # "NONE",
               d \in AboutPublic => e \in approved'
        PROVE  RequestsSound'
    <2>1. Sound(req[h])'
      BY <1>4 DEF Goto, TypeOK, Sound, Known
    <2>. QED
      BY <1>1, <1>4, <2>1
  <1>5. ASSUME NEW h \in Handlers, NEW e \in Events, NEW d \in {"announce", "announce update"},
               NEW s, Goto(h, [do |-> d, ev |-> e, new |-> s]), status'[e] # "NONE", e \in approved'
        PROVE  RequestsSound'
    <2>1. Sound(req[h])'
      BY <1>5 DEF Goto, TypeOK, Sound, Known, AboutEvent, AboutPublic
    <2>. QED
      BY <1>1, <1>5, <2>1
  <1>6. ASSUME NEW h \in Handlers, NEW e \in Events, NEW s \in Slots, InsertEvent(h, e, s)
        PROVE  RequestsSound'
    <2>1. status'[e] # "NONE"
      BY <1>6 DEF InsertEvent, Known, TypeOK
    <2>. QED
      BY <1>4, <1>6, <2>1 DEF InsertEvent, AboutEvent, AboutPublic
  <1>7. ASSUME NEW h \in Handlers, req[h].do \in AboutEvent
        PROVE  /\ req[h].ev \in Events /\ status'[req[h].ev] # "NONE"
               /\ req[h].do \in AboutPublic => req[h].ev \in approved'
    BY <1>7, RequestLocals DEF TypeOK, RequestsSound, Sound, Grows, Known
  <1>8. ASSUME NEW h \in Handlers, AskAdmins(h)
        PROVE  RequestsSound'
    BY <1>2, <1>4, <1>7, <1>8 DEF AskAdmins, AboutEvent, AboutPublic
  <1>9. ASSUME NEW h \in Handlers, WriteRejection(h)
        PROVE  RequestsSound'
    BY <1>4, <1>7, <1>9 DEF WriteRejection, AboutEvent, AboutPublic
  <1>10. ASSUME NEW h \in Handlers, WriteCancellation(h)
         PROVE  RequestsSound'
    BY <1>4, <1>7, <1>10 DEF WriteCancellation, AboutEvent, AboutPublic
  <1>11. ASSUME NEW h \in Handlers, WriteApproval(h)
         PROVE  RequestsSound'
    BY <1>5, <1>7, <1>11 DEF WriteApproval, AboutEvent
  <1>12. ASSUME NEW h \in Handlers, WriteUpdate(h)
         PROVE  RequestsSound'
    BY <1>2, <1>5, <1>7, <1>12 DEF WriteUpdate, AboutEvent, AboutPublic
  <1>13. ASSUME NEW h \in Handlers,
                \/ SaveRef(h) \/ AddInterest(h) \/ Announce(h) \/ AnnounceUpdate(h)
                \/ TellRejection(h) \/ TellCancellation(h) \/ HandlerGone(h)
         PROVE  RequestsSound'
    BY <1>2, <1>13
       DEF SaveRef, AddInterest, Announce, AnnounceUpdate, TellWhen, TellRejection,
           TellCancellation, TellEnd, HandlerGone
  <1>14. ASSUME (\E e \in Events : BecomeOverdue(e)) \/ TimePasses \/ UNCHANGED vars
         PROVE  UNCHANGED req
    BY <1>14 DEF BecomeOverdue, TimePasses, vars, memVars
  <1>. QED
    BY <1>0, <1>3, <1>6, <1>8, <1>9, <1>10, <1>11, <1>12, <1>13, <1>14, PassLeaves
       DEF Next, Requesting, ReadOnly

LEMMA PassStaysSound ==
    ASSUME IInv, Grows, [Next]_vars
    PROVE  PassSound'
  <1>. TypeOK /\ PassSound /\ sch \in Pass
    BY DEF IInv, TypeOK
  <1>1. ASSUME UNCHANGED sch PROVE PassSound'
    BY <1>1, PassLocals, SMTT(30) DEF PassSound, Grows, Known, Heard
  <1>2. ASSUME sch'.do \notin {"timeout", "complete", "soon", "mark"} PROVE PassSound'
    BY <1>2 DEF PassSound
  <1>3. CASE ReadOverdue
    <2>1. /\ sch' = [do |-> "timeout", done |-> {}, todo |-> {e \in overdue : status[e] = "PENDING"}]
          /\ overdue \subseteq Events /\ UNCHANGED status
      BY <1>3 DEF ReadOverdue, Then, TypeOK, rowVars
    <2>. QED
      BY <2>1 DEF PassSound, Known
  <1>4. ASSUME NEW e \in Events, TellOverdue(e)
        PROVE  PassSound'
    <2>1. /\ sch'.do = "timeout" /\ sch'.todo = sch.todo \ {e} /\ sch'.done = sch.done \cup {e}
          /\ sch.do = "timeout" /\ e \in sch.todo
          /\ sch.todo \subseteq Events /\ sch.done \subseteq Events
      BY <1>4, PassMoves, PassLocals DEF TellOverdue, Then
    <2>2. Heard(e, "rejected")'
      BY <1>4 DEF TellOverdue, Say, Heard, TypeOK
    <2>3. \A d \in sch.todo \cup sch.done : Known(d)'
      BY <2>1 DEF PassSound, Grows
    <2>4. \A d \in sch.done : Heard(d, "rejected")'
      BY <2>1 DEF PassSound, Grows, Heard
    <2>. QED
      BY <2>1, <2>2, <2>3, <2>4 DEF PassSound
  <1>5. CASE ReadPast
    <2>1. /\ sch' = [do |-> "complete", done |-> {e \in Events : Past(e)}]
          /\ UNCHANGED approved
      BY <1>5 DEF ReadPast, Then, rowVars
    <2>2. {e \in Events : Past(e)} \subseteq approved
      BY DEF Past, PublicOnlyApproved, IInv
    <2>. QED
      BY <2>1, <2>2 DEF PassSound
  <1>6. CASE ReadSoon
    <2>1. sch' = [do |-> "soon", done |-> {},
                  todo |-> {e \in Events : /\ status[e] = "APPROVED" /\ at[e] = now
                                           /\ "reminded" \notin meta[e]}]
      BY <1>6 DEF ReadSoon, Then
    <2>2. {e \in Events : status[e] = "APPROVED"} \subseteq approved'
      BY DEF PublicOnlyApproved, IInv, Grows
    <2>. QED
      BY <2>1, <2>2 DEF PassSound
  <1>7. ASSUME NEW e \in Events, TellSoon(e)
        PROVE  PassSound'
    <2>1. /\ sch'.do = "soon" /\ sch'.todo = sch.todo \ {e} /\ sch'.done = sch.done \cup {e}
          /\ sch.do = "soon" /\ e \in sch.todo
          /\ sch.todo \subseteq Events /\ sch.done \subseteq Events
      BY <1>7, PassMoves, PassLocals DEF TellSoon, Then
    <2>2. Heard(e, "soon")'
      BY <1>7 DEF TellSoon, Say, Heard, TypeOK
    <2>3. sch.todo \cup sch.done \subseteq approved'
      BY <2>1 DEF PassSound, Grows
    <2>4. \A d \in sch.done : Heard(d, "soon")'
      BY <2>1 DEF PassSound, Grows, Heard
    <2>. QED
      BY <2>1, <2>2, <2>3, <2>4 DEF PassSound
  <1>8. CASE StartMarking
    <2>1. /\ sch.do = "soon" /\ sch.done \subseteq Events
          /\ \/ sch' = Asleep
             \/ sch' = [do |-> "mark", todo |-> sch.done, bare |-> {}, ref |-> {}]
      BY <1>8, PassLocals DEF StartMarking, Then
    <2>2. \A d \in sch.done : Heard(d, "soon")'
      BY <2>1 DEF PassSound, Grows, Heard
    <2>. QED
      BY <1>2, <2>1, <2>2 DEF PassSound, Asleep
  <1>9. ASSUME NEW e \in Events, ReadMark(e)
        PROVE  PassSound'
    <2>1. /\ sch'.do = "mark" /\ sch.do = "mark"
          /\ sch'.todo \cup sch'.bare \cup sch'.ref \subseteq sch.todo \cup sch.bare \cup sch.ref
          /\ sch.todo \cup sch.bare \cup sch.ref \subseteq Events
      <3>1. /\ sch.do = "mark" /\ e \in sch.todo
            /\ \/ sch' = [sch EXCEPT !.todo = @ \ {e}, !.ref = @ \cup {e}]
               \/ sch' = [sch EXCEPT !.todo = @ \ {e}, !.bare = @ \cup {e}]
        BY <1>9 DEF ReadMark, Then
      <3>2. /\ sch'.do = "mark" /\ sch'.todo = sch.todo \ {e}
            /\ \/ sch'.ref = sch.ref \cup {e} /\ sch'.bare = sch.bare
               \/ sch'.bare = sch.bare \cup {e} /\ sch'.ref = sch.ref
        <4>1. CASE sch' = [sch EXCEPT !.todo = @ \ {e}, !.ref = @ \cup {e}]
          BY <3>1, <4>1, PassMoves
        <4>2. CASE sch' = [sch EXCEPT !.todo = @ \ {e}, !.bare = @ \cup {e}]
          BY <3>1, <4>2, PassMoves
        <4>. QED
          BY <3>1, <4>1, <4>2
      <3>3. sch.todo \subseteq Events /\ sch.bare \subseteq Events /\ sch.ref \subseteq Events
        BY <3>1, PassLocals
      <3>. QED
        BY <3>1, <3>2, <3>3
    <2>2. \A d \in sch.todo \cup sch.bare \cup sch.ref : Heard(d, "soon")'
      BY <2>1 DEF PassSound, Grows, Heard
    <2>. QED
      BY <2>1, <2>2 DEF PassSound
  <1>10. CASE \/ StoreTimeout \/ StoreCompleted \/ ReadToday \/ PostMorning \/ FlagMorning
              \/ StoreMarks \/ PassFails \/ SchedulerRestart
    <2>1. sch' \in {Asleep, Started} \cup [do : {"complete?", "morning?", "soon?"}]
                      \cup [do : {"morning", "flag"}, day : {Day(now), sch.day}]
      BY <1>10 DEF StoreTimeout, StoreCompleted, ReadToday, PostMorning, FlagMorning,
                   StoreMarks, PassFails, SchedulerRestart, Then
    <2>. QED
      BY <1>2, <2>1 DEF Asleep, Started
  <1>11. ASSUME (\E e \in Events : BecomeOverdue(e)) \/ TimePasses \/ UNCHANGED vars
         PROVE  UNCHANGED sch
    BY <1>11 DEF BecomeOverdue, TimePasses, vars, memVars
  <1>. QED
    BY <1>1, <1>3, <1>4, <1>5, <1>6, <1>7, <1>8, <1>9, <1>10, <1>11, RequestLeaves
       DEF Next, Scheduling, IInv

-----------------------------------------------------------------------------
(* What the steps that change a row or send a message do                    *)

Quiet == UNCHANGED <<rowVars, slackVars, lost>>

Loud(h) ==
    \/ \E e \in Events, s \in Slots : InsertEvent(h, e, s)
    \/ AskAdmins(h) \/ SaveRef(h)
    \/ WriteApproval(h) \/ WriteRejection(h) \/ WriteCancellation(h) \/ WriteUpdate(h)
    \/ AddInterest(h) \/ Announce(h) \/ AnnounceUpdate(h)
    \/ TellRejection(h) \/ TellCancellation(h) \/ HandlerGone(h)

LoudPass ==
    \/ StoreTimeout \/ StoreCompleted \/ PostMorning \/ StoreMarks
    \/ \E e \in Events : TellOverdue(e) \/ TellSoon(e)
    \/ PassFails \/ SchedulerRestart

LEMMA StepCases ==
    ASSUME IInv, [Next]_vars
    PROVE  Quiet \/ LoudPass \/ \E h \in Handlers : Loud(h)
  <1>1. ASSUME NEW h \in Handlers, ReadOnly(h)
        PROVE  Quiet
    BY <1>1, ReadingStep DEF IInv, Reads, Quiet
  <1>2. ASSUME \/ ReadOverdue \/ ReadPast \/ ReadToday \/ FlagMorning \/ ReadSoon \/ StartMarking
               \/ \E e \in Events : ReadMark(e)
        PROVE  Quiet
    BY <1>2, Zenon DEF ReadOverdue, ReadPast, ReadToday, FlagMorning, ReadSoon, StartMarking,
                       ReadMark, Quiet
  <1>3. ASSUME (\E e \in Events : BecomeOverdue(e)) \/ TimePasses \/ UNCHANGED vars
        PROVE  Quiet
    BY <1>3 DEF BecomeOverdue, TimePasses, vars, Quiet
  <1>. QED
    BY <1>1, <1>2, <1>3, Zenon
       DEF Next, Requesting, Scheduling, ReadOnly, Loud, LoudPass

\* The event a request is about to change or to tell of exists, and is approved
\* when the change is a public one.
LEMMA HeldEvent ==
    ASSUME TypeOK, RequestsSound, NEW h \in Handlers, req[h].do \in AboutEvent
    PROVE  /\ req[h].ev \in Events /\ Known(req[h].ev)
           /\ req[h].do \in AboutPublic => req[h].ev \in approved
  BY RequestLocals DEF TypeOK, RequestsSound, Sound

Public(s) == s \in {"APPROVED", "CANCELLED", "COMPLETED"}

\* Only what exists is told of, and only what is approved is made public.
LEMMA PublicSteps ==
    ASSUME IInv, [Next]_vars, NEW e \in Events
    PROVE  /\ said'[e] # said[e] \/ (e \in approved' /\ e \notin approved) => Known(e)
           /\ \A w \in said'[e] : w \in said[e] \/ w \notin {"soon", "cancelled"} \/ e \in approved
           /\ interest'[e] # interest[e] \/ told'[e] # told[e] => e \in approved
           /\ Public(status'[e]) => Public(status[e]) \/ e \in approved'
  <1> DEFINE Held == /\ said'[e] # said[e] \/ (e \in approved' /\ e \notin approved) => Known(e)
                     /\ \A w \in said'[e] :
                           w \in said[e] \/ w \notin {"soon", "cancelled"} \/ e \in approved
                     /\ interest'[e] # interest[e] \/ told'[e] # told[e] => e \in approved
                     /\ Public(status'[e]) => Public(status[e]) \/ e \in approved'
  <1>. SUFFICES Held
    OBVIOUS
  <1>. /\ TypeOK /\ RequestsSound /\ PassSound /\ sch \in Pass
       /\ e \in approved => Known(e)
    BY DEF IInv, TypeOK, NothingBefore
  <1>0. ASSUME UNCHANGED <<status, said, approved, interest, told>>
        PROVE  Held
    BY <1>0
  <1>1. CASE Quiet \/ PassFails \/ SchedulerRestart \/ PostMorning \/ StoreMarks
    <2>1. UNCHANGED <<status, said, approved, interest, told>>
      BY <1>1 DEF Quiet, PassFails, SchedulerRestart, PostMorning, StoreMarks, rowVars, slackVars
    <2>. QED
      BY <1>0, <2>1
  <1>2. CASE StoreTimeout
    BY <1>2 DEF StoreTimeout, slackVars, Public
  <1>3. CASE StoreCompleted
    <2>1. sch.done \subseteq approved
      BY <1>3 DEF StoreCompleted, PassSound
    <2>. QED
      BY <1>3, <2>1 DEF StoreCompleted, slackVars, TypeOK
  <1>4. ASSUME NEW d \in Events, TellOverdue(d)
        PROVE  Held
    <2>1. Known(d)
      BY <1>4 DEF TellOverdue, PassSound
    <2>2. said' = [said EXCEPT ![d] = @ \cup {"rejected"}] \/ said' = said
      BY <1>4 DEF TellOverdue, Say
    <2>3. UNCHANGED <<status, approved, interest, told>>
      BY <1>4 DEF TellOverdue, rowVars
    <2>. QED
      BY <2>1, <2>2, <2>3 DEF TypeOK
  <1>5. ASSUME NEW d \in Events, TellSoon(d)
        PROVE  Held
    <2>1. d \in approved
      BY <1>5 DEF TellSoon, PassSound
    <2>2. said' = [said EXCEPT ![d] = @ \cup {"soon"}] \/ said' = said
      BY <1>5 DEF TellSoon, Say
    <2>3. UNCHANGED <<status, approved, interest, told>>
      BY <1>5 DEF TellSoon, rowVars
    <2>. QED
      BY <2>1, <2>2, <2>3 DEF TypeOK
  <1>6. ASSUME NEW h \in Handlers, NEW d \in Events, NEW s \in Slots, InsertEvent(h, d, s)
        PROVE  Held
    BY <1>6 DEF InsertEvent, TypeOK, slackVars, Public
  <1>7. ASSUME NEW h \in Handlers, AskAdmins(h) \/ TellEnd(h, "tell reject", "rejected")
        PROVE  Held
    <2>1. Known(req[h].ev) /\ req[h].ev \in Events
      BY <1>7, HeldEvent DEF AskAdmins, TellEnd, AboutEvent
    <2>2. \/ said' = [said EXCEPT ![req[h].ev] = @ \cup {"asked"}]
          \/ said' = [said EXCEPT ![req[h].ev] = @ \cup {"rejected"}]
          \/ said' = said
      BY <1>7 DEF AskAdmins, TellEnd, Say
    <2>3. UNCHANGED <<status, approved, interest, told>>
      BY <1>7 DEF AskAdmins, TellEnd, rowVars
    <2>. QED
      BY <2>1, <2>2, <2>3 DEF TypeOK
  <1>8. ASSUME NEW h \in Handlers, TellCancellation(h)
        PROVE  Held
    <2>1. req[h].ev \in approved /\ req[h].ev \in Events
      BY <1>8, HeldEvent DEF TellCancellation, TellEnd, AboutEvent, AboutPublic
    <2>2. said' = [said EXCEPT ![req[h].ev] = @ \cup {"cancelled"}] \/ said' = said
      BY <1>8 DEF TellCancellation, TellEnd, Say
    <2>3. UNCHANGED <<status, approved, interest, told>>
      BY <1>8 DEF TellCancellation, TellEnd, rowVars
    <2>. QED
      BY <2>1, <2>2, <2>3 DEF TypeOK
  <1>9. ASSUME NEW h \in Handlers, SaveRef(h) \/ WriteUpdate(h) \/ HandlerGone(h)
        PROVE  Held
    <2>1. UNCHANGED <<status, said, approved, interest, told>>
      BY <1>9 DEF SaveRef, WriteUpdate, HandlerGone, rowVars, slackVars
    <2>. QED
      BY <1>0, <2>1
  <1>10. ASSUME NEW h \in Handlers, WriteApproval(h)
         PROVE  Held
    <2>1. Known(req[h].ev) /\ req[h].ev \in Events
      BY <1>10, HeldEvent DEF WriteApproval, AboutEvent
    <2>. QED
      BY <1>10, <2>1 DEF WriteApproval, TypeOK, slackVars
  <1>11. ASSUME NEW h \in Handlers, WriteRejection(h)
         PROVE  Held
    <2>1. req[h].ev \in Events
      BY <1>11, HeldEvent DEF WriteRejection, AboutEvent
    <2>. QED
      BY <1>11, <2>1 DEF WriteRejection, TypeOK, slackVars, Public
  <1>12. ASSUME NEW h \in Handlers, WriteCancellation(h)
         PROVE  Held
    <2>1. req[h].ev \in Events /\ req[h].ev \in approved
      BY <1>12, HeldEvent DEF WriteCancellation, AboutEvent, AboutPublic
    <2>. QED
      BY <1>12, <2>1 DEF WriteCancellation, TypeOK, slackVars
  <1>13. ASSUME NEW h \in Handlers, AddInterest(h)
         PROVE  Held
    <2>1. req[h].ev \in Events /\ req[h].ev \in approved
      BY <1>13, HeldEvent DEF AddInterest, AboutEvent, AboutPublic
    <2>. QED
      BY <1>13, <2>1 DEF AddInterest, TypeOK, slackVars
  <1>14. ASSUME NEW h \in Handlers, Announce(h) \/ AnnounceUpdate(h)
         PROVE  Held
    <2>1. req[h].ev \in Events /\ req[h].ev \in approved
      BY <1>14, HeldEvent DEF Announce, AnnounceUpdate, TellWhen, AboutEvent, AboutPublic
    <2>2. told' = [told EXCEPT ![req[h].ev] = @ \cup {req[h].new}] \/ told' = told
      BY <1>14 DEF Announce, AnnounceUpdate, TellWhen
    <2>3. UNCHANGED <<status, approved, interest, said>>
      BY <1>14 DEF Announce, AnnounceUpdate, TellWhen, rowVars
    <2>. QED
      BY <2>1, <2>2, <2>3 DEF TypeOK
  <1>. QED
    <2>. HIDE DEF Held
    <2>. QED
      BY <1>1, <1>2, <1>3, <1>4, <1>5, <1>6, <1>7, <1>8, <1>9, <1>10, <1>11, <1>12, <1>13,
         <1>14, StepCases DEF Loud, LoudPass, TellRejection

LEMMA PublicStays ==
    ASSUME IInv, Grows, [Next]_vars
    PROVE  NothingBefore' /\ PublicOnlyApproved'
  <1>1. ASSUME NEW e \in Events
        PROVE  said'[e] # {} \/ e \in approved' => Known(e)'
    BY <1>1, PublicSteps DEF IInv, NothingBefore, Grows
  <1>2. ASSUME NEW e \in Events,
               \/ interest'[e] # {} \/ told'[e] # {} \/ said'[e] \cap {"soon", "cancelled"} # {}
               \/ Public(status'[e])
        PROVE  e \in approved'
    <2>1. CASE \E w \in {"soon", "cancelled"} : w \in said'[e]
      BY <2>1, PublicSteps DEF IInv, PublicOnlyApproved, Grows
    <2>2. CASE interest'[e] # {} \/ told'[e] # {} \/ Public(status'[e])
      BY <2>2, PublicSteps DEF IInv, PublicOnlyApproved, Grows, Public
    <2>. QED
      BY <1>2, <2>1, <2>2
  <1>. QED
    BY <1>1, <1>2, Zenon DEF NothingBefore, PublicOnlyApproved, Public

-----------------------------------------------------------------------------
(* Reminders and the summary of a day                                       *)

LEMMA MarksStay ==
    ASSUME IInv, Grows, [Next]_vars
    PROVE  MarkedIsReminded'
  <1>. TypeOK /\ RequestsSound /\ PassSound /\ sch \in Pass
    BY DEF IInv, TypeOK
  <1>0. ASSUME NEW e \in Events, Heard(e, "soon")
        PROVE  Heard(e, "soon")'
    BY <1>0 DEF Heard, Grows
  <1>1. ASSUME NEW e \in Events, "reminded" \in meta[e]
        PROVE  Heard(e, "soon")'
    BY <1>0, <1>1 DEF IInv, MarkedIsReminded, Heard
  <1>2. SUFFICES ASSUME NEW e \in Events, "reminded" \in meta'[e], meta' # meta
                 PROVE  Heard(e, "soon")'
    BY <1>1 DEF MarkedIsReminded, Heard
  <1>3. ASSUME NEW h \in Handlers, SaveRef(h)
        PROVE  Heard(e, "soon")'
    <2>1. /\ req[h].do = "save ref" /\ req[h].ev \in Events
          /\ "reminded" \in req[h].seen => Heard(req[h].ev, "soon")
      BY <1>3, RequestLocals DEF SaveRef, TypeOK, RequestsSound, Sound, AboutEvent
    <2>2. CASE e = req[h].ev
      <3>1. meta'[e] = req[h].seen \cup {"admin"}
        BY <1>3, <2>1, <2>2 DEF SaveRef, TypeOK
      <3>. QED
        BY <1>0, <1>2, <2>1, <2>2, <3>1
    <2>3. CASE e # req[h].ev
      <3>1. meta'[e] = meta[e]
        BY <1>3, <2>1, <2>3 DEF SaveRef, TypeOK
      <3>. QED
        BY <1>1, <1>2, <3>1
    <2>. QED
      BY <2>2, <2>3
  <1>4. CASE StoreMarks
    <2>1. meta'[e] = IF e \in sch.ref THEN {"admin", "reminded"}
                     ELSE IF e \in sch.bare THEN {"reminded"} ELSE meta[e]
      BY <1>4 DEF StoreMarks
    <2>2. e \in sch.ref \cup sch.bare => Heard(e, "soon")
      BY <1>4 DEF StoreMarks, PassSound
    <2>. QED
      BY <1>0, <1>1, <1>2, <2>1, <2>2
  <1>5. ASSUME Quiet \/ (LoudPass /\ ~StoreMarks) \/ \E h \in Handlers : Loud(h) /\ ~SaveRef(h)
        PROVE  UNCHANGED meta
    BY <1>5, Zenon
       DEF Quiet, LoudPass, Loud, StoreTimeout, StoreCompleted, PostMorning, TellOverdue,
           TellSoon, PassFails, SchedulerRestart, InsertEvent, AskAdmins, WriteApproval,
           WriteRejection, WriteCancellation, WriteUpdate, AddInterest, Announce,
           AnnounceUpdate, TellWhen, TellRejection, TellCancellation, TellEnd, HandlerGone,
           rowVars
  <1>. QED
    BY <1>2, <1>3, <1>4, <1>5, StepCases

LEMMA MorningsStay ==
    ASSUME IInv, Grows, [Next]_vars
    PROVE  MorningsKept' /\ MorningOnce'
  <1>. /\ MorningsKept /\ MorningOnce /\ sch \in Pass /\ lost \subseteq lost'
       /\ lastMorning \in Nat \cup {-1} /\ mornings \subseteq Nat
    BY DEF IInv, TypeOK, Grows
  <1>0. Day(now) \in Nat /\ Day(now') \in Nat /\ Day(now) <= Day(now')
    <2>1. now \in Nat
      BY EventsAssumption DEF IInv, TypeOK, Moments
    <2>2. now' = now \/ now' = now + 1
      <3>1. ASSUME (\E e \in Events : BecomeOverdue(e)) \/ UNCHANGED vars
            PROVE  UNCHANGED now
        BY <3>1 DEF BecomeOverdue, vars
      <3>. QED
        BY <3>1, RequestLeaves, PassLeaves DEF Next, TimePasses, IInv
    <2>. QED
      BY <2>1, <2>2, DayOrder
  <1>1. sch.do \in {"morning", "flag"} => sch.day \in Nat
    BY PassLocals
  <1> DEFINE Kept == MorningsKept' /\ MorningOnce'
  <1>. SUFFICES Kept
    OBVIOUS
  <1>2. ASSUME UNCHANGED <<sch, lastMorning, mornings>>
        PROVE  Kept
    BY <1>0, <1>1, <1>2 DEF MorningsKept, MorningOnce
  <1>3. ASSUME UNCHANGED <<lastMorning, mornings>>, sch'.do \notin {"morning", "flag"},
               sch.do = "flag" => sch.day \in lost'
        PROVE  Kept
    BY <1>0, <1>1, <1>3 DEF MorningsKept, MorningOnce
  <1>4. CASE ReadToday
    <2>1. UNCHANGED <<mornings, now, lost>> /\ sch.do = "morning?"
      BY <1>4 DEF ReadToday, slackVars
    <2>2. CASE UNCHANGED lastMorning /\ sch' = [do |-> "soon?"]
      BY <1>3, <2>1, <2>2
    <2>3. CASE sch' = [do |-> "morning", day |-> Day(now)] /\ lastMorning # Day(now)
               /\ UNCHANGED lastMorning
      BY <1>0, <2>1, <2>3 DEF MorningsKept, MorningOnce
    <2>4. CASE lastMorning' = Day(now) /\ sch' = [do |-> "soon?"]
      BY <1>0, <2>1, <2>4 DEF MorningsKept, MorningOnce
    <2>. QED
      BY <1>4, <2>2, <2>3, <2>4 DEF ReadToday, Then
  <1>5. CASE PostMorning
    <2>1. /\ sch.do = "morning" /\ sch' = [do |-> "flag", day |-> sch.day]
          /\ mornings' = mornings \cup {sch.day} /\ UNCHANGED <<lastMorning, now, lost>>
      BY <1>5 DEF PostMorning, Then
    <2>. QED
      BY <1>0, <1>1, <2>1 DEF MorningsKept, MorningOnce
  <1>6. CASE FlagMorning
    <2>1. /\ sch.do = "flag" /\ sch' = [do |-> "soon?"] /\ lastMorning' = sch.day
          /\ UNCHANGED <<mornings, now, lost>>
      BY <1>6 DEF FlagMorning, Then, slackVars
    <2>. QED
      BY <1>0, <1>1, <2>1 DEF MorningsKept, MorningOnce
  <1>7. CASE SchedulerRestart
    <2>1. /\ sch' = [do |-> "start"] /\ lastMorning' = -1 /\ UNCHANGED <<mornings, now>>
          /\ lost' = lost \cup mornings
      BY <1>7 DEF SchedulerRestart, Then, Started, slackVars
    <2>. QED
      BY <1>0, <2>1 DEF MorningsKept, MorningOnce
  <1>8. CASE PassFails
    <2>1. /\ UNCHANGED <<lastMorning, mornings>> /\ sch' = Asleep
          /\ sch.do = "flag" => sch.day \in lost'
      BY <1>8 DEF PassFails, Then, slackVars
    <2>. QED
      BY <1>3, <2>1 DEF Asleep
  <1>9. CASE ReadOverdue \/ StoreTimeout \/ ReadPast \/ StoreCompleted \/ ReadSoon
             \/ StartMarking \/ StoreMarks
    <2>1. UNCHANGED <<lastMorning, mornings>> /\ sch.do # "flag"
      BY <1>9 DEF ReadOverdue, StoreTimeout, ReadPast, StoreCompleted, ReadSoon,
                  StartMarking, StoreMarks, Asleep, Started, slackVars
    <2>2. sch'.do \notin {"morning", "flag"}
      BY <1>9 DEF ReadOverdue, StoreTimeout, ReadPast, StoreCompleted, ReadSoon,
                  StartMarking, StoreMarks, Asleep, Then
    <2>. QED
      BY <1>3, <2>1, <2>2
  <1>10. ASSUME NEW e \in Events, TellOverdue(e) \/ TellSoon(e)
         PROVE  Kept
    <2>1. UNCHANGED <<lastMorning, mornings>> /\ sch.do \in {"timeout", "soon"}
      BY <1>10 DEF TellOverdue, TellSoon
    <2>2. sch' = [sch EXCEPT !.todo = @ \ {e}, !.done = @ \cup {e}]
      BY <1>10 DEF TellOverdue, TellSoon, Then
    <2>3. sch'.do \notin {"morning", "flag"}
      BY <2>1, <2>2, PassMoves
    <2>. QED
      BY <1>3, <2>1, <2>3
  <1>11. ASSUME NEW e \in Events, ReadMark(e)
         PROVE  Kept
    <2>1. UNCHANGED <<lastMorning, mornings>> /\ sch.do = "mark"
      BY <1>11 DEF ReadMark, slackVars
    <2>2. CASE sch' = [sch EXCEPT !.todo = @ \ {e}, !.ref = @ \cup {e}]
      BY <1>3, <2>1, <2>2, PassMoves
    <2>3. CASE sch' = [sch EXCEPT !.todo = @ \ {e}, !.bare = @ \cup {e}]
      BY <1>3, <2>1, <2>3, PassMoves
    <2>. QED
      BY <1>11, <2>2, <2>3 DEF ReadMark, Then
  <1>12. ASSUME (\E e \in Events : BecomeOverdue(e)) \/ TimePasses \/ UNCHANGED vars
         PROVE  UNCHANGED <<sch, lastMorning, mornings>>
    BY <1>12 DEF BecomeOverdue, TimePasses, vars, memVars, slackVars
  <1>. QED
    <2>. HIDE DEF Kept
    <2>. QED
      BY <1>2, <1>4, <1>5, <1>6, <1>7, <1>8, <1>9, <1>10, <1>11, <1>12,
         RequestLeaves
         DEF Next, Scheduling, IInv

-----------------------------------------------------------------------------
(* The quota                                                                *)

Inserting(u) == {h \in Handlers : req[h] = [do |-> "insert", who |-> u]}

LEMMA QuotaSizes ==
    ASSUME NEW u \in Users
    PROVE  /\ IsFiniteSet(Pending(u)) /\ Cardinality(Pending(u)) \in Nat
           /\ IsFiniteSet(Inserting(u)) /\ Cardinality(Inserting(u)) \in Nat
           /\ Cardinality(Inserting(u)) <= Cardinality(Handlers)
           /\ Cardinality(Handlers) \in Nat
  <1>1. Pending(u) \subseteq Events /\ Inserting(u) \subseteq Handlers
    BY DEF Pending, Inserting
  <1>. QED
    BY <1>1, EventsAssumption, FS_Subset, FS_CardinalityType

LEMMA QuotaStays ==
    ASSUME IInv, [Next]_vars
    PROVE  QuotaOvershoot'
  <1>. TypeOK
    BY DEF IInv
  <1>1. SUFFICES ASSUME Limit > 0, NEW u \in Users
                 PROVE  Cardinality(Pending(u)') + Cardinality(Inserting(u)')
                            < Limit + Cardinality(Handlers)
    BY DEF QuotaOvershoot, Inserting, Pending
  <1>2. /\ Cardinality(Pending(u)) + Cardinality(Inserting(u)) < Limit + Cardinality(Handlers)
        /\ Limit \in Nat
    BY <1>1, EventsAssumption DEF IInv, QuotaOvershoot, Inserting
  <1> DEFINE Holds == Cardinality(Pending(u)') + Cardinality(Inserting(u)')
                          < Limit + Cardinality(Handlers)
             Fewer == Pending(u)' \subseteq Pending(u)
             Slower == Inserting(u)' \subseteq Inserting(u)
  <1>. SUFFICES Holds
    OBVIOUS
  <1>3. ASSUME Fewer, Slower
        PROVE  Holds
    <2>1. /\ Cardinality(Pending(u)') <= Cardinality(Pending(u))
          /\ Cardinality(Inserting(u)') <= Cardinality(Inserting(u))
          /\ Cardinality(Pending(u)') \in Nat /\ Cardinality(Inserting(u)') \in Nat
      BY <1>3, QuotaSizes, FS_Subset, FS_CardinalityType
    <2>. QED
      BY <1>2, <2>1, QuotaSizes
  <1>4. ASSUME UNCHANGED <<status, creator>>
        PROVE  Fewer
    BY <1>4 DEF Pending
  <1>5. ASSUME UNCHANGED req
        PROVE  Slower
    BY <1>5 DEF Inserting
  <1>6. ASSUME NEW h \in Handlers, NEW r, Goto(h, r), r.do # "insert"
        PROVE  Slower /\ h \notin Inserting(u)'
    BY <1>6 DEF Goto, TypeOK, Inserting
  <1>7. ASSUME NEW h \in Handlers, ReadOnly(h)
        PROVE  Holds
    <2>1. PICK r \in Request : Reads(h, r) /\ (r.do = "insert" => ~Full(r.who))
      BY <1>7, ReadingStep DEF IInv
    <2>2. Fewer /\ Goto(h, r) /\ Pending(u)' = Pending(u)
      BY <2>1 DEF Reads, rowVars, Pending
    <2>3. CASE r = [do |-> "insert", who |-> u]
      <3>1. Cardinality(Pending(u)) < Limit
        BY <1>1, <1>2, <2>1, <2>3, QuotaSizes DEF Full
      <3>2. Inserting(u)' \subseteq Handlers
        BY DEF Inserting
      <3>3. /\ Cardinality(Inserting(u)') <= Cardinality(Handlers)
            /\ Cardinality(Inserting(u)') \in Nat
        BY <3>2, EventsAssumption, FS_Subset, FS_CardinalityType
      <3>. QED
        BY <1>2, <2>2, <3>1, <3>3, QuotaSizes
    <2>4. CASE r # [do |-> "insert", who |-> u]
      <3>1. Slower
        BY <2>2, <2>4 DEF Goto, TypeOK, Inserting
      <3>. QED
        BY <1>3, <2>2, <3>1
    <2>. QED
      BY <2>3, <2>4
  <1>8. ASSUME NEW h \in Handlers, NEW e \in Events, NEW s \in Slots, InsertEvent(h, e, s)
        PROVE  Holds
    <2>1. /\ Goto(h, [do |-> "ask", ev |-> e])
          /\ req[h] = [do |-> "insert", who |-> req[h].who]
          /\ status' = [status EXCEPT ![e] = "PENDING"]
          /\ creator' = [creator EXCEPT ![e] = req[h].who]
      BY <1>8, InsertRecord DEF InsertEvent, TypeOK
    <2>2. Slower /\ h \notin Inserting(u)'
      BY <1>6, <2>1
    <2>3. CASE req[h].who = u
      <3>1. h \in Inserting(u)
        BY <2>1, <2>3 DEF Inserting
      <3>2. Inserting(u)' \subseteq Inserting(u) \ {h}
        BY <2>2
      <3>3. /\ Cardinality(Inserting(u)') <= Cardinality(Inserting(u)) - 1
            /\ Cardinality(Inserting(u)') \in Nat
        BY <3>1, <3>2, QuotaSizes, FS_Subset, FS_RemoveElement, FS_CardinalityType
      <3>4. Pending(u)' \subseteq Pending(u) \cup {e}
        BY <2>1 DEF Pending, TypeOK
      <3>5. /\ Cardinality(Pending(u)') <= Cardinality(Pending(u)) + 1
            /\ Cardinality(Pending(u)') \in Nat
        <4>1. /\ IsFiniteSet(Pending(u) \cup {e})
              /\ Cardinality(Pending(u) \cup {e}) <= Cardinality(Pending(u)) + 1
          <5>1. IsFiniteSet(Pending(u)) /\ Cardinality(Pending(u)) \in Nat
            BY QuotaSizes
          <5>2. \/ Cardinality(Pending(u) \cup {e}) = Cardinality(Pending(u))
                \/ Cardinality(Pending(u) \cup {e}) = Cardinality(Pending(u)) + 1
            BY <5>1, FS_AddElement, Zenon
          <5>. QED
            BY <5>1, <5>2, FS_AddElement
        <4>2. IsFiniteSet(Pending(u)') /\ Cardinality(Pending(u)') <= Cardinality(Pending(u) \cup {e})
          BY <3>4, <4>1, FS_Subset
        <4>. QED
          BY <4>1, <4>2, QuotaSizes, FS_CardinalityType
      <3>. QED
        BY <1>2, <3>3, <3>5, QuotaSizes
    <2>4. CASE req[h].who # u
      <3>1. Fewer
        BY <2>1, <2>4 DEF Pending, TypeOK
      <3>. QED
        BY <1>3, <2>2, <3>1
    <2>. QED
      BY <2>3, <2>4
  <1>9. ASSUME NEW h \in Handlers,
               \/ AskAdmins(h) \/ SaveRef(h) \/ WriteUpdate(h) \/ AddInterest(h) \/ Announce(h)
               \/ AnnounceUpdate(h) \/ TellRejection(h) \/ TellCancellation(h) \/ HandlerGone(h)
        PROVE  Holds
    <2>1. UNCHANGED <<status, creator>>
      BY <1>9 DEF AskAdmins, SaveRef, WriteUpdate, AddInterest, Announce, AnnounceUpdate,
                  TellWhen, TellRejection, TellCancellation, TellEnd, HandlerGone, rowVars
    <2>2. \/ Goto(h, Idle)
          \/ Goto(h, [do |-> "ref", ev |-> req[h].ev])
          \/ Goto(h, [do |-> "announce update", ev |-> req[h].ev, new |-> req[h].new])
      BY <1>9 DEF AskAdmins, SaveRef, WriteUpdate, AddInterest, Announce, AnnounceUpdate,
                  TellWhen, TellRejection, TellCancellation, TellEnd, HandlerGone
    <2>3. Slower
      BY <1>6, <2>2 DEF Idle
    <2>. QED
      BY <1>3, <1>4, <2>1, <2>3
  <1>10. ASSUME NEW h \in Handlers, WriteApproval(h) \/ WriteRejection(h) \/ WriteCancellation(h)
         PROVE  Holds
    <2>1. req[h].ev \in Events
      BY <1>10, RequestLocals
         DEF WriteApproval, WriteRejection, WriteCancellation, TypeOK, AboutEvent
    <2>2. /\ UNCHANGED creator
          /\ \E x \in {"APPROVED", "REJECTED", "CANCELLED"} :
                status' = [status EXCEPT ![req[h].ev] = x]
      BY <1>10 DEF WriteApproval, WriteRejection, WriteCancellation
    <2>3. Fewer
      BY <2>1, <2>2 DEF Pending, TypeOK
    <2>4. \/ Goto(h, [do |-> "announce", ev |-> req[h].ev, new |-> at[req[h].ev]])
          \/ Goto(h, [do |-> "tell reject", ev |-> req[h].ev])
          \/ Goto(h, [do |-> "tell cancel", ev |-> req[h].ev])
      BY <1>10 DEF WriteApproval, WriteRejection, WriteCancellation
    <2>5. Slower
      BY <1>6, <2>4
    <2>. QED
      BY <1>3, <2>3, <2>5
  <1>11. ASSUME Scheduling \/ PassFails \/ SchedulerRestart
         PROVE  Holds
    <2>1. UNCHANGED <<req, creator>>
      BY <1>11, PassLeaves
    <2>2. \A e \in Events : status'[e] = "PENDING" => status[e] = "PENDING"
      <3>1. CASE StoreTimeout \/ StoreCompleted
        BY <3>1 DEF StoreTimeout, StoreCompleted
      <3>2. CASE ~(StoreTimeout \/ StoreCompleted)
        <4>1. UNCHANGED status
          BY <1>11, <3>2, Zenon
             DEF Scheduling, ReadOverdue, ReadPast, ReadToday, PostMorning, FlagMorning,
                 ReadSoon, StartMarking, StoreMarks, TellOverdue, TellSoon, ReadMark, PassFails,
                 SchedulerRestart, rowVars
        <4>. QED
          BY <4>1
      <3>. QED
        BY <3>1, <3>2
    <2>3. Fewer
      BY <2>1, <2>2 DEF Pending
    <2>. QED
      BY <1>3, <1>5, <2>1, <2>3
  <1>12. ASSUME (\E e \in Events : BecomeOverdue(e)) \/ TimePasses \/ UNCHANGED vars
         PROVE  Holds
    <2>1. UNCHANGED <<status, creator, req>>
      BY <1>12 DEF BecomeOverdue, TimePasses, vars, rowVars, memVars
    <2>. QED
      BY <1>3, <1>4, <1>5, <2>1
  <1>. HIDE DEF Holds
  <1>13. ASSUME NEW h \in Handlers, Requesting(h) \/ HandlerGone(h)
         PROVE  Holds
    BY <1>7, <1>8, <1>9, <1>10, <1>13, Zenon DEF Requesting, ReadOnly
  <1>. QED
    BY <1>11, <1>12, <1>13 DEF Next

-----------------------------------------------------------------------------
(* What the row says is told                                                *)

\* Some request is about to announce that e takes place at s.
Announcing(e, s) ==
    \E h \in Handlers, what \in {"announce", "announce update"} :
        req[h] = [do |-> what, ev |-> e, new |-> s]

Told(e) ==
    /\ status[e] = "PENDING" => "asked" \in said[e] \/ Telling("ask", e)
    /\ status[e] = "REJECTED" => "rejected" \in said[e] \/ Telling("tell reject", e)
    /\ status[e] = "CANCELLED" => "cancelled" \in said[e] \/ Telling("tell cancel", e)
    /\ e \in approved => at[e] \in told[e] \/ Announcing(e, at[e])

\* A request gives up what it was about to tell only by its own step.
LEMMA PromiseKept ==
    ASSUME TypeOK, NEW e \in Events, NEW h \in Handlers, NEW r, Goto(h, r)
    PROVE  /\ \A w : Telling(w, e) => Telling(w, e)' \/ (req[h].do = w /\ req[h].ev = e)
           /\ \A s : Announcing(e, s) =>
                \/ Announcing(e, s)'
                \/ /\ req[h].do \in {"announce", "announce update"}
                   /\ req[h].ev = e /\ req[h].new = s
           /\ \A w : r = [do |-> w, ev |-> e] => Telling(w, e)'
           /\ \A s, w \in {"announce", "announce update"} :
                r = [do |-> w, ev |-> e, new |-> s] => Announcing(e, s)'
  <1>1. \A g \in Handlers : g # h => req'[g] = req[g]
    BY DEF Goto, TypeOK
  <1>2. req'[h] = r
    BY DEF Goto, TypeOK
  <1>3. ASSUME NEW w, Telling(w, e), ~(req[h].do = w /\ req[h].ev = e)
        PROVE  Telling(w, e)'
    BY <1>1, <1>3 DEF Telling
  <1>4. ASSUME NEW s, Announcing(e, s),
               ~(/\ req[h].do \in {"announce", "announce update"}
                 /\ req[h].ev = e /\ req[h].new = s)
        PROVE  Announcing(e, s)'
    <2>1. PICK g \in Handlers, what \in {"announce", "announce update"} :
             req[g] = [do |-> what, ev |-> e, new |-> s]
      BY <1>4 DEF Announcing
    <2>2. /\ [do |-> what, ev |-> e, new |-> s].do = what
          /\ [do |-> what, ev |-> e, new |-> s].ev = e
          /\ [do |-> what, ev |-> e, new |-> s].new = s
      OBVIOUS
    <2>3. g # h
      BY <1>4, <2>1, <2>2, Zenon
    <2>. QED
      BY <1>1, <2>1, <2>3 DEF Announcing
  <1>5. ASSUME NEW w, r = [do |-> w, ev |-> e]
        PROVE  Telling(w, e)'
    BY <1>2, <1>5 DEF Telling
  <1>6. ASSUME NEW s, NEW w \in {"announce", "announce update"},
               r = [do |-> w, ev |-> e, new |-> s]
        PROVE  Announcing(e, s)'
    BY <1>2, <1>6, Zenon DEF Announcing
  <1>. QED
    BY <1>3, <1>4, <1>5, <1>6

LEMMA RowStaysTold ==
    ASSUME IInv, Grows, [Next]_vars
    PROVE  RowIsTold'
  <1>. TypeOK /\ RequestsSound /\ PassSound
    BY DEF IInv
  <1>1. SUFFICES ASSUME NEW e \in Events, e \notin lost'
                 PROVE  Told(e)'
    BY DEF RowIsTold, Told, Announcing
  <1>2. Told(e) /\ e \notin lost
    BY <1>1 DEF IInv, RowIsTold, Told, Announcing, Grows
  <1>3. said[e] \subseteq said'[e] /\ told[e] \subseteq told'[e]
    BY DEF Grows
  <1>4. ASSUME NEW h \in Handlers, NEW r, Goto(h, r), req[h].do \notin Tells
        PROVE  /\ \A w \in Tells : Telling(w, e) => Telling(w, e)'
               /\ \A s : Announcing(e, s) => Announcing(e, s)'
    BY <1>4, PromiseKept DEF Tells
  <1>5. ASSUME UNCHANGED <<status, at, approved>>,
               \A w \in Tells : Telling(w, e) => Telling(w, e)',
               \A s : Announcing(e, s) => Announcing(e, s)'
        PROVE  Told(e)'
    BY <1>2, <1>3, <1>5 DEF Told, Tells
  <1>6. ASSUME UNCHANGED <<status, at, approved, req>>
        PROVE  Told(e)'
    BY <1>5, <1>6 DEF Telling, Announcing
  <1>7. ASSUME NEW h \in Handlers, ReadOnly(h)
        PROVE  Told(e)'
    <2>1. PICK r \in Request : Reads(h, r) /\ req[h].do \notin Tells
      BY <1>7, ReadingStep DEF IInv
    <2>. QED
      BY <1>4, <1>5, <2>1 DEF Reads, rowVars
  <1>8. ASSUME NEW h \in Handlers, SaveRef(h) \/ AddInterest(h)
        PROVE  Told(e)'
    <2>1. Goto(h, Idle) /\ req[h].do \notin Tells /\ UNCHANGED <<status, at, approved>>
      BY <1>8 DEF SaveRef, AddInterest, Tells
    <2>. QED
      BY <1>4, <1>5, <2>1
  <1>9. ASSUME NEW h \in Handlers, NEW d \in Events, NEW s \in Slots, InsertEvent(h, d, s)
        PROVE  Told(e)'
    <2>1. /\ Goto(h, [do |-> "ask", ev |-> d]) /\ req[h].do = "insert" /\ status[d] = "NONE"
          /\ status' = [status EXCEPT ![d] = "PENDING"] /\ at' = [at EXCEPT ![d] = s]
          /\ UNCHANGED approved
      BY <1>9 DEF InsertEvent
    <2>2. CASE d = e
      <3>1. Telling("ask", e)'
        BY <2>1, <2>2, PromiseKept
      <3>2. e \notin approved' /\ status'[e] = "PENDING"
        BY <2>1, <2>2 DEF IInv, NothingBefore, Known, TypeOK
      <3>. QED
        BY <3>1, <3>2 DEF Told
    <2>3. CASE d # e
      <3>1. status'[e] = status[e] /\ at'[e] = at[e]
        BY <2>1, <2>3 DEF TypeOK
      <3>2. req[h].do \notin Tells
        BY <2>1 DEF Tells
      <3>. QED
        BY <1>2, <1>3, <1>4, <2>1, <3>1, <3>2 DEF Told, Tells
    <2>. QED
      BY <2>2, <2>3
  <1>10. ASSUME NEW h \in Handlers, AskAdmins(h)
         PROVE  Told(e)'
    <2>1. /\ req[h].do = "ask" /\ UNCHANGED <<status, at, approved>>
          /\ \E r : Goto(h, r)
      BY <1>10, Zenon DEF AskAdmins, rowVars
    <2>2. req[h].ev = e => "asked" \in said'[e]
      BY <1>1, <1>10 DEF AskAdmins, Say, TypeOK
    <2>3. /\ \A w : w # "ask" /\ Telling(w, e) => Telling(w, e)'
          /\ \A s : Announcing(e, s) => Announcing(e, s)'
          /\ Telling("ask", e) => Telling("ask", e)' \/ req[h].ev = e
      BY <2>1, PromiseKept
    <2>. QED
      BY <1>2, <1>3, <2>1, <2>2, <2>3 DEF Told
  <1>11. ASSUME NEW h \in Handlers, NEW w \in {"announce", "announce update"}, TellWhen(h, w)
         PROVE  Told(e)'
    <2>1. /\ req[h].do = w /\ UNCHANGED <<status, at, approved>> /\ Goto(h, Idle)
      BY <1>11 DEF TellWhen, rowVars
    <2>2. req[h].ev = e => req[h].new \in told'[e]
      BY <1>1, <1>11 DEF TellWhen, TypeOK
    <2>3. /\ \A v : v # w /\ Telling(v, e) => Telling(v, e)'
          /\ \A s : Announcing(e, s) =>
                Announcing(e, s)' \/ (req[h].ev = e /\ req[h].new = s)
      BY <2>1, PromiseKept
    <2>. QED
      BY <1>2, <1>3, <2>1, <2>2, <2>3 DEF Told
  <1>12. ASSUME NEW h \in Handlers, NEW w, NEW message, TellEnd(h, w, message),
                <<w, message>> \in {<<"tell reject", "rejected">>, <<"tell cancel", "cancelled">>}
         PROVE  Told(e)'
    <2>1. /\ req[h].do = w /\ UNCHANGED <<status, at, approved>> /\ Goto(h, Idle)
          /\ w \notin {"ask", "announce", "announce update"}
      BY <1>12 DEF TellEnd, rowVars
    <2>2. req[h].ev = e => message \in said'[e]
      BY <1>1, <1>12 DEF TellEnd, Say, TypeOK
    <2>3. /\ \A v : v # w /\ Telling(v, e) => Telling(v, e)'
          /\ \A s : Announcing(e, s) => Announcing(e, s)'
          /\ Telling(w, e) => Telling(w, e)' \/ req[h].ev = e
      BY <2>1, PromiseKept
    <2>. QED
      BY <1>2, <1>3, <1>12, <2>1, <2>2, <2>3 DEF Told
  <1>13. ASSUME NEW h \in Handlers, HandlerGone(h)
         PROVE  Told(e)'
    <2>1. /\ UNCHANGED <<status, at, approved>> /\ Goto(h, Idle)
          /\ req[h].do \in Tells => req[h].ev \in lost'
      BY <1>13 DEF HandlerGone, rowVars, Tells
    <2>2. req[h].do \in Tells => req[h].ev # e
      BY <1>1, <2>1
    <2>3. /\ \A w \in Tells : Telling(w, e) => Telling(w, e)'
          /\ \A s : Announcing(e, s) => Announcing(e, s)'
      BY <2>1, <2>2, PromiseKept DEF Tells
    <2>. QED
      BY <1>5, <2>1, <2>3
  <1>14. ASSUME NEW h \in Handlers, WriteApproval(h)
         PROVE  Told(e)'
    <2>1. /\ req[h].do = "approve" /\ req[h].ev \in Events /\ UNCHANGED at
          /\ Goto(h, [do |-> "announce", ev |-> req[h].ev, new |-> at[req[h].ev]])
          /\ status' = [status EXCEPT ![req[h].ev] = "APPROVED"]
          /\ approved' = approved \cup {req[h].ev}
      BY <1>14, HeldEvent DEF WriteApproval, AboutEvent
    <2>2. CASE req[h].ev = e
      <3>1. req'[h] = [do |-> "announce", ev |-> e, new |-> at'[e]]
        BY <2>1, <2>2 DEF Goto, TypeOK
      <3>2. Announcing(e, at[e])'
        BY <3>1, Zenon DEF Announcing
      <3>. QED
        BY <2>1, <2>2, <3>2 DEF Told, TypeOK
    <2>3. CASE req[h].ev # e
      <3>1. status'[e] = status[e] /\ (e \in approved' => e \in approved)
        BY <2>1, <2>3 DEF TypeOK
      <3>2. req[h].do \notin Tells
        BY <2>1 DEF Tells
      <3>. QED
        BY <1>2, <1>3, <1>4, <2>1, <3>1, <3>2 DEF Told, Tells
    <2>. QED
      BY <2>2, <2>3
  <1>15. ASSUME NEW h \in Handlers, WriteRejection(h) \/ WriteCancellation(h)
         PROVE  Told(e)'
    <2> DEFINE x == IF req[h].do = "reject" THEN "REJECTED" ELSE "CANCELLED"
               w == IF req[h].do = "reject" THEN "tell reject" ELSE "tell cancel"
    <2>0. /\ req[h].do \in {"reject", "cancel"} /\ status' = [status EXCEPT ![req[h].ev] = x]
          /\ Goto(h, [do |-> w, ev |-> req[h].ev]) /\ UNCHANGED <<at, approved>>
      BY <1>15 DEF WriteRejection, WriteCancellation
    <2>1. req[h].do \notin Tells
      BY <2>0 DEF Tells
    <2>2. CASE req[h].ev = e
      <3>1. status'[e] = x
        BY <2>0, <2>2 DEF TypeOK
      <3>2. req'[h].do = w /\ req'[h].ev = e
        BY <2>0, <2>2 DEF Goto, TypeOK
      <3>3. \/ status'[e] = "REJECTED" /\ Telling("tell reject", e)'
            \/ status'[e] = "CANCELLED" /\ Telling("tell cancel", e)'
        BY <2>0, <3>1, <3>2 DEF Telling
      <3>4. e \in approved' => at'[e] \in told'[e] \/ Announcing(e, at[e])'
        BY <1>2, <1>3, <1>4, <2>0, <2>1 DEF Told
      <3>. QED
        BY <3>3, <3>4 DEF Told
    <2>3. CASE req[h].ev # e
      <3>1. status'[e] = status[e]
        BY <2>0, <2>3 DEF TypeOK
      <3>. QED
        BY <1>2, <1>3, <1>4, <2>0, <2>1, <3>1 DEF Told, Tells
    <2>. QED
      BY <2>2, <2>3
  <1>16. ASSUME NEW h \in Handlers, WriteUpdate(h)
         PROVE  Told(e)'
    <2>1. req[h].do = "update" /\ req[h].do \notin Tells /\ UNCHANGED <<status, approved>>
      BY <1>16 DEF WriteUpdate, Tells
    <2>2. CASE Goto(h, Idle) /\ UNCHANGED at
      BY <1>4, <1>5, <2>1, <2>2
    <2>3. CASE /\ at' = [at EXCEPT ![req[h].ev] = req[h].new]
               /\ Goto(h, [do |-> "announce update", ev |-> req[h].ev, new |-> req[h].new])
      <3>1. CASE req[h].ev = e
        <4>1. req'[h] = [do |-> "announce update", ev |-> e, new |-> at'[e]]
          BY <2>3, <3>1 DEF Goto, TypeOK
        <4>2. Announcing(e, at[e])'
          BY <4>1, Zenon DEF Announcing
        <4>. QED
          BY <1>2, <1>3, <1>4, <2>1, <2>3, <4>2 DEF Told, Tells
      <3>2. CASE req[h].ev # e
        <4>1. at'[e] = at[e]
          BY <2>3, <3>2 DEF TypeOK
        <4>. QED
          BY <1>2, <1>3, <1>4, <2>1, <2>3, <4>1 DEF Told, Tells
      <3>. QED
        BY <3>1, <3>2
    <2>. QED
      BY <1>16, <2>2, <2>3 DEF WriteUpdate
  <1>17. CASE StoreTimeout \/ StoreCompleted
    <2>1. /\ UNCHANGED <<req, at, approved>>
          /\ status'[e] \in {"REJECTED", "COMPLETED"} \/ status'[e] = status[e]
      BY <1>17, PassLeaves DEF Scheduling, StoreTimeout, StoreCompleted
    <2>2. /\ \A w : Telling(w, e) => Telling(w, e)'
          /\ \A s : Announcing(e, s) => Announcing(e, s)'
      BY <2>1 DEF Telling, Announcing
    <2>3. status'[e] = "REJECTED" => status[e] = "REJECTED" \/ "rejected" \in said[e]
      BY <1>2, <1>17 DEF StoreTimeout, StoreCompleted, PassSound, Heard
    <2>. QED
      BY <1>2, <1>3, <2>1, <2>2, <2>3 DEF Told
  <1>18. ASSUME Scheduling \/ PassFails \/ SchedulerRestart, ~(StoreTimeout \/ StoreCompleted)
         PROVE  Told(e)'
    <2>1. UNCHANGED status
      BY <1>18, Zenon
         DEF Scheduling, ReadOverdue, ReadPast, ReadToday, PostMorning, FlagMorning, ReadSoon,
             StartMarking, StoreMarks, TellOverdue, TellSoon, ReadMark, PassFails,
             SchedulerRestart, rowVars
    <2>. QED
      BY <1>6, <1>18, <2>1, PassLeaves
  <1>19. ASSUME (\E d \in Events : BecomeOverdue(d)) \/ TimePasses \/ UNCHANGED vars
         PROVE  Told(e)'
    BY <1>6, <1>19 DEF BecomeOverdue, TimePasses, vars, rowVars, memVars
  <1>20. ASSUME NEW h \in Handlers, Requesting(h) \/ HandlerGone(h)
         PROVE  Told(e)'
    <2>1. ASSUME Announce(h) \/ AnnounceUpdate(h)
          PROVE  Told(e)'
      BY <1>11, <2>1 DEF Announce, AnnounceUpdate
    <2>2. ASSUME TellRejection(h) \/ TellCancellation(h)
          PROVE  Told(e)'
      BY <1>12, <2>2 DEF TellRejection, TellCancellation
    <2>. QED
      BY <1>7, <1>8, <1>9, <1>10, <1>13, <1>14, <1>15, <1>16, <1>20, <2>1, <2>2, Zenon
         DEF Requesting, ReadOnly
  <1>. QED
    BY <1>17, <1>18, <1>19, <1>20 DEF Next

-----------------------------------------------------------------------------
(* Theorems                                                                 *)

LEMMA InitIInv == Init => IInv
  <1> SUFFICES ASSUME Init PROVE IInv
    OBVIOUS
  <1>1. TypeOK
    BY InitTyped
  <1>2. RequestsSound /\ PassSound
    BY DEF Init, RequestsSound, Sound, PassSound, Idle, Started, AboutEvent, AboutPublic
  <1>3. NothingBefore /\ PublicOnlyApproved /\ RowIsTold /\ MarkedIsReminded
    BY DEF Init, NothingBefore, PublicOnlyApproved, RowIsTold, MarkedIsReminded
  <1>4. MorningsKept /\ MorningOnce
    BY DEF Init, MorningsKept, MorningOnce, Started, Day
  <1>5. QuotaOvershoot
    <2> SUFFICES ASSUME Limit > 0, NEW u \in Users
                 PROVE  Cardinality(Pending(u)) + Cardinality(Inserting(u))
                            < Limit + Cardinality(Handlers)
      BY DEF QuotaOvershoot, Inserting
    <2>1. Pending(u) = {} /\ Inserting(u) = {}
      BY DEF Init, Pending, Inserting, Idle
    <2>. QED
      BY <2>1, QuotaSizes, FS_EmptySet, EventsAssumption
  <1>. QED
    BY <1>1, <1>2, <1>3, <1>4, <1>5 DEF IInv

LEMMA NextIInv == IInv /\ [Next]_vars => IInv'
  <1> SUFFICES ASSUME IInv, [Next]_vars PROVE IInv'
    OBVIOUS
  <1>1. Grows
    BY StepGrows
  <1>2. TypeOK'
    BY StepTyped DEF IInv
  <1>. QED
    BY <1>1, <1>2, RequestsStaySound, PassStaysSound, PublicStays, MarksStay, MorningsStay,
       QuotaStays, RowStaysTold, Zenon DEF IInv

\* The inductive invariant holds throughout.
THEOREM Invariant == Spec => []IInv
  BY InitIInv, NextIInv, PTL DEF Spec

\* Every variable of Events keeps its type: rows, messages and whatever the
\* threads and the scheduler hold over their awaits.
THEOREM TypeCorrect == Spec => []TypeOK
  <1>1. IInv => TypeOK
    BY DEF IInv
  <1>. QED
    BY <1>1, Invariant, PTL

\* However many requests and passes cross, nothing is made public of an event
\* that no admin has approved: not by a stale form, not by an old button, not by
\* a reminder read before a decision.
THEOREM OnlyApprovedIsPublic == Spec => []PublicOnlyApproved
  <1>1. IInv => PublicOnlyApproved
    BY DEF IInv
  <1>. QED
    BY <1>1, Invariant, PTL

\* Although rows are stored without a lock and the last store wins, those whom
\* a row concerns have been told what it says in the end, or are about to be,
\* unless a fault took the message.
THEOREM RowsAreTold == Spec => []RowIsTold
  <1>1. IInv => RowIsTold
    BY DEF IInv
  <1>. QED
    BY <1>1, Invariant, PTL

\* No failure of a pass, restart of the scheduler or store of an old meta marks
\* an event as reminded that has had no reminder.
THEOREM MarkAfterReminder == Spec => []MarkedIsReminded
  <1>1. IInv => MarkedIsReminded
    BY DEF IInv
  <1>. QED
    BY <1>1, Invariant, PTL

\* The summary of a day is posted once, as long as the scheduler remembers it.
THEOREM OneMorning == Spec => []MorningOnce
  <1>1. IInv => MorningOnce
    BY DEF IInv
  <1>. QED
    BY <1>1, Invariant, PTL

\* The quota is overrun by less than the number of requests under way at once,
\* whatever the limit and however many members ask.
THEOREM QuotaBounded == Spec => []QuotaOvershoot
  <1>1. IInv => QuotaOvershoot
    BY DEF IInv
  <1>. QED
    BY <1>1, Invariant, PTL

\* No store of an old row brings a decided request back, and no row disappears.
THEOREM DecidedForGood == Spec => NeverPendingAgain
  <1>1. ASSUME IInv, [Next]_vars
        PROVE  [\A e \in Events : status[e] # "NONE" => status'[e] # "NONE"
                      /\ (status'[e] = "PENDING" => status[e] = "PENDING")]_vars
    BY <1>1, StepGrows DEF Grows, Known
  <1>. QED
    BY <1>1, Invariant, PTL DEF Spec, NeverPendingAgain
=============================================================================
