---------------------------- MODULE Features_proofs ----------------------------
(***************************************************************************)
(* Theorems about Features, for any number of requests, members, edits and *)
(* concurrent threads, any limits and any set of faults.                   *)
(*                                                                         *)
(* The weekly job carries copies of texts over two awaits of a language    *)
(* model while members edit the rows.  The invariant relates the copies it *)
(* holds, the texts that reports have counted and the texts of the rows:   *)
(* a held copy is newer than all that was counted of its row, and never    *)
(* newer than the row itself.                                              *)
(***************************************************************************)
EXTENDS Features, FiniteSetTheorems, TLAPS

-----------------------------------------------------------------------------
(* The invariant                                                            *)

\* An edit is under way at most once per row, and below the bound of edits.
EditsApart ==
    \A h \in Handlers : req[h].do = "edit" =>
        /\ text[req[h].row] < MaxEdits
        /\ \A g \in Handlers : req[g].do = "edit" /\ req[g].row = req[h].row => g = h

SavedExist == \A r \in saved : status[r] \notin {"none", "pending_bypass"}

\* An edit that the weekly job runs into is an excuse, and so is one of a row
\* that was reported since the edit has read it.
EditsExcused ==
    /\ week # Idle => Edited \subseteq excused
    /\ \A h \in Handlers :
          req[h].do = "edit" /\ status[req[h].row] = "reported"
          => req[h].seen = "reported" \/ req[h].row \in excused

\* All the copies the job holds, and those among them it has marked.
Held ==
    IF week.do \in {"cluster", "send"} THEN week.copies
    ELSE IF week.do \in {"read", "describe"} THEN week.copies \cup week.unmatched ELSE {}

HeldMarked ==
    IF week.do = "send" THEN week.copies
    ELSE IF week.do \in {"read", "describe"} THEN week.unmatched ELSE {}

\* What is held of a row is newer than all that was counted of it.
HeldIsNew ==
    \A c \in Held :
        /\ c[2] <= text[c[1]]
        /\ \A d \in sent : d[1] = c[1] => d[2] < c[2]

HeldIsCurrent ==
    week.do \in {"cluster", "describe"} =>
        \A c \in week.copies : c[2] = text[c[1]] \/ c[1] \in excused

\* A copy that no later week can read again.
Spent(c) ==
    \/ c[2] < text[c[1]]
    \/ c[2] = text[c[1]] /\ status[c[1]] \in {"reported", "deleted"}

SpentForGood == \A c \in sent \cup HeldMarked : Spent(c)

\* What is marked as reported was counted, is about to be, or is excused.
ReportedIsCounted ==
    \A r \in Rows : status[r] = "reported" =>
        r \in excused \/ <<r, text[r]>> \in sent \cup HeldMarked

IInv ==
    /\ TypeOK
    /\ EditsApart /\ SavedExist /\ EditsExcused
    /\ HeldIsNew /\ HeldIsCurrent /\ SpentForGood /\ ReportedIsCounted

-----------------------------------------------------------------------------
(* What a thread and the job hold                                           *)

LEMMA EditLocals ==
    ASSUME NEW q \in Edit, q.do = "edit"
    PROVE  q.row \in Rows /\ q.seen \in Statuses
  BY DEF Edit, Idle

LEMMA JobLocals ==
    ASSUME NEW w \in Job
    PROVE  /\ w.do \in {"cluster", "send"} => w.copies \in SUBSET Copies /\ w # Idle
           /\ w.do \in {"read", "describe"} =>
                 w.copies \in SUBSET Copies /\ w.unmatched \in SUBSET Copies /\ w # Idle
           /\ w.do = "clean" => w # Idle
  <1> USE DEF Idle
  <1>1. CASE w \in {Idle} \cup [do : {"clean"}]
    BY <1>1
  <1>2. CASE w \in [do : {"cluster", "send"}, copies : SUBSET Copies]
    BY <1>2
  <1>3. CASE w \in [do : {"read", "describe"}, copies : SUBSET Copies, unmatched : SUBSET Copies]
    BY <1>3
  <1>. QED
    BY <1>1, <1>2, <1>3, Zenon DEF Job

LEMMA JobRecords ==
    /\ Idle \in Job /\ [do |-> "clean"] \in Job
    /\ \A S \in SUBSET Copies, d \in {"cluster", "send"} : [do |-> d, copies |-> S] \in Job
    /\ \A S, T \in SUBSET Copies, d \in {"read", "describe"} :
          [do |-> d, copies |-> S, unmatched |-> T] \in Job
  BY DEF Job

\* The report is described with the copies of all that is clustered.
LEMMA JobDescribes ==
    ASSUME NEW w \in Job, w.do = "read", NEW S \in SUBSET Copies
    PROVE  LET q == [w EXCEPT !.do = "describe", !.copies = S]
           IN  q \in Job /\ q.do = "describe" /\ q.copies = S /\ q.unmatched = w.unmatched
  <1>1. w \in [do : {"read", "describe"}, copies : SUBSET Copies, unmatched : SUBSET Copies]
    BY DEF Job, Idle
  <1> DEFINE q == [w EXCEPT !.do = "describe", !.copies = S]
  <1>2. q \in [do : {"read", "describe"}, copies : SUBSET Copies, unmatched : SUBSET Copies]
    BY <1>1
  <1>3. q.do = "describe" /\ q.copies = S /\ q.unmatched = w.unmatched
    BY <1>1
  <1>. QED
    BY <1>2, <1>3, Zenon DEF Job

LEMMA HeldCopies ==
    ASSUME TypeOK
    PROVE  /\ HeldMarked \subseteq Held /\ Held \subseteq Copies
           /\ week = Idle \/ week.do = "clean" => Held = {}
  <1>1. week \in Job
    BY DEF TypeOK
  <1>2. CASE week.do \in {"cluster", "send"}
    BY <1>1, <1>2, JobLocals DEF Held, HeldMarked
  <1>3. CASE week.do \in {"read", "describe"}
    BY <1>1, <1>3, JobLocals DEF Held, HeldMarked
  <1>4. CASE week.do \notin {"cluster", "send", "read", "describe"}
    BY <1>4 DEF Held, HeldMarked
  <1>. QED
    BY <1>1, <1>2, <1>3, <1>4 DEF Idle

\* A copy is of a row and of a text it may have.
LEMMA CopyParts ==
    /\ \A c \in Copies : c[1] \in Rows /\ c[2] \in Nat /\ c = <<c[1], c[2]>>
    /\ TypeOK => \A S \in SUBSET Rows : Copy(S) \in SUBSET Copies
    /\ \A S, c : c \in Copy(S) => c[1] \in S /\ c[2] = text[c[1]]
  BY FeaturesAssumption DEF Copies, Texts, TypeOK, Copy

\* The rows and texts that a state has.
LEMMA RowParts ==
    ASSUME TypeOK, NEW r \in Rows
    PROVE  text[r] \in Nat /\ <<r, text[r]>> \in Copies
  BY FeaturesAssumption DEF TypeOK, Texts, Copies

LEMMA InitIInv == Init => IInv
  <1> SUFFICES ASSUME Init PROVE IInv
    OBVIOUS
  <1>1. TypeOK
    <2>1. (CHOOSE u \in Users : TRUE) \in Users
      BY FeaturesAssumption
    <2>. QED
      BY <2>1, FeaturesAssumption, JobRecords DEF Init, TypeOK, Statuses, Texts, Edit
  <1>2. Held = {} /\ HeldMarked = {}
    BY <1>1, HeldCopies DEF Init
  <1>3. EditsApart /\ SavedExist /\ EditsExcused
    BY DEF Init, EditsApart, SavedExist, EditsExcused, Idle
  <1>4. HeldIsNew /\ HeldIsCurrent /\ SpentForGood /\ ReportedIsCounted
    BY <1>2 DEF Init, HeldIsNew, HeldIsCurrent, SpentForGood, ReportedIsCounted, Idle
  <1>. QED
    BY <1>1, <1>3, <1>4 DEF IInv

-----------------------------------------------------------------------------
(* Members and the daily jobs                                               *)

\* A step that changes neither a text nor what the job holds may move rows that
\* are neither reported nor deleted.
LEMMA RowStep ==
    ASSUME IInv, TypeOK', SavedExist',
           UNCHANGED <<week, sent, text, req, excused>>,
           \A r \in Rows : \/ status'[r] = status[r]
                           \/ status[r] \notin {"reported", "deleted"} /\ status'[r] # "reported"
    PROVE  IInv'
  <1>. TypeOK
    BY DEF IInv
  <1>1. Held' = Held /\ HeldMarked' = HeldMarked /\ Held \subseteq Copies /\ HeldMarked \subseteq Held
    BY HeldCopies DEF Held, HeldMarked
  <1>2. EditsApart' /\ HeldIsNew' /\ HeldIsCurrent'
    BY <1>1 DEF IInv, EditsApart, HeldIsNew, HeldIsCurrent
  <1>3. EditsExcused'
    <2>1. \A h \in Handlers : req[h].do = "edit" => req[h].row \in Rows
      BY EditLocals DEF TypeOK
    <2>. QED
      BY <2>1 DEF IInv, EditsExcused, Edited
  <1>4. SpentForGood'
    <2>1. \A c \in sent \cup HeldMarked : c[1] \in Rows
      BY <1>1, CopyParts DEF TypeOK
    <2>. QED
      BY <1>1, <2>1 DEF IInv, SpentForGood, Spent
  <1>5. ReportedIsCounted'
    BY <1>1 DEF IInv, ReportedIsCounted
  <1>. QED
    BY <1>2, <1>3, <1>4, <1>5 DEF IInv

LEMMA SubmitStep ==
    ASSUME IInv, NEW r \in Rows, NEW u \in Users,
           SubmitNew(r, u) \/ SubmitUnembedded(r, u) \/ SubmitSimilar(r, u)
    PROVE  IInv'
  <1>. TypeOK /\ SavedExist
    BY DEF IInv
  <1>1. /\ UNCHANGED <<week, sent, text, req, excused, retries>> /\ status[r] = "none"
        /\ owner' = [owner EXCEPT ![r] = u]
    BY DEF SubmitNew, SubmitUnembedded, SubmitSimilar, Insert
  <1>2. CASE SubmitNew(r, u) \/ SubmitUnembedded(r, u)
    <2>1. /\ saved' = saved \cup {r}
          /\ status' \in {[status EXCEPT ![r] = "embedded"], [status EXCEPT ![r] = "embedding_failed"]}
      BY <1>2 DEF SubmitNew, SubmitUnembedded
    <2>2. TypeOK' /\ SavedExist'
      BY <1>1, <2>1 DEF TypeOK, Statuses, SavedExist
    <2>. QED
      BY <1>1, <2>1, <2>2, RowStep DEF TypeOK
  <1>3. CASE SubmitSimilar(r, u)
    <2> DEFINE drafts == {q \in With("pending_bypass") : owner[q] = u}
    <2>1. /\ UNCHANGED saved
          /\ status' = [Become(drafts, "deleted") EXCEPT ![r] = "pending_bypass"]
      BY <1>3 DEF SubmitSimilar
    <2>2. \A q \in Rows : status'[q] = IF q = r THEN "pending_bypass"
                                       ELSE IF q \in drafts THEN "deleted" ELSE status[q]
      BY <2>1 DEF Become
    <2>3. \A q \in drafts : status[q] = "pending_bypass"
      BY DEF With
    <2>4. status' \in [Rows -> Statuses]
      BY <2>1 DEF Become, TypeOK, Statuses
    <2>. HIDE DEF drafts
    <2>5. TypeOK' /\ SavedExist'
      BY <1>1, <2>1, <2>2, <2>3, <2>4 DEF TypeOK, SavedExist
    <2>. QED
      BY <1>1, <2>2, <2>3, <2>5, RowStep
  <1>. QED
    BY <1>2, <1>3

LEMMA DailyStep ==
    ASSUME IInv,
           \/ \E r \in Rows : ApprovePending(r) \/ CleanupStale(r)
           \/ \E S \in SUBSET Rows : RetryFailedEmbeddings(S)
           \/ RetryClusteringFailed
    PROVE  IInv'
  <1>. TypeOK /\ SavedExist
    BY DEF IInv
  <1>1. ASSUME NEW r \in Rows, ApprovePending(r) \/ CleanupStale(r)
        PROVE  IInv'
    <2>1. /\ UNCHANGED <<week, sent, text, req, excused, retries, owner>>
          /\ status[r] = "pending_bypass"
          /\ \/ status' = [status EXCEPT ![r] = "embedded"] /\ saved' = saved \cup {r}
             \/ status' = [status EXCEPT ![r] = "deleted"] /\ UNCHANGED saved
      BY <1>1 DEF ApprovePending, CleanupStale
    <2>2. TypeOK' /\ SavedExist'
      BY <2>1 DEF TypeOK, Statuses, SavedExist
    <2>. QED
      BY <2>1, <2>2, RowStep DEF TypeOK
  <1>2. ASSUME NEW S \in SUBSET Rows,
               S \subseteq With("embedding_failed") \/ S \subseteq With("clustering_failed"),
               status' = Become(S, "embedded"), retries' \in [Rows -> 0 .. NoiseLimit],
               UNCHANGED <<week, sent, text, req, excused, owner, saved>>
        PROVE  IInv'
    <2>1. \A r \in Rows : \/ status'[r] = status[r]
                          \/ /\ status[r] \in {"embedding_failed", "clustering_failed"}
                             /\ status'[r] = "embedded"
      BY <1>2 DEF Become, With
    <2>2. TypeOK' /\ SavedExist'
      BY <1>2, <2>1 DEF TypeOK, Statuses, SavedExist, Become
    <2>. QED
      BY <1>2, <2>1, <2>2, RowStep
  <1>3. ASSUME NEW S \in SUBSET Rows, RetryFailedEmbeddings(S)
        PROVE  IInv'
    BY <1>2, <1>3 DEF RetryFailedEmbeddings, TypeOK
  <1>4. CASE RetryClusteringFailed
    <2>1. retries' \in [Rows -> 0 .. NoiseLimit]
      BY <1>4, FeaturesAssumption DEF RetryClusteringFailed, Again, TypeOK
    <2>2. With("clustering_failed") \in SUBSET Rows
      BY DEF With
    <2>. QED
      BY <1>2, <1>4, <2>1, <2>2 DEF RetryClusteringFailed
  <1>. QED
    BY <1>1, <1>3, <1>4

-----------------------------------------------------------------------------
(* Edits                                                                    *)

LEMMA ReadEditStep ==
    ASSUME IInv, NEW h \in Handlers, NEW r \in Rows, ReadEdit(h, r)
    PROVE  IInv'
  <1>. TypeOK
    BY DEF IInv
  <1>1. /\ UNCHANGED <<status, owner, text, retries, saved, week, sent>>
        /\ req' = [req EXCEPT ![h] = [do |-> "edit", row |-> r, seen |-> status[r]]]
        /\ excused \subseteq excused' /\ excused' \subseteq Rows
        /\ week # Idle => r \in excused'
        /\ r \notin Edited /\ text[r] < MaxEdits
    BY DEF ReadEdit, rowVars, TypeOK
  <1>2. [do |-> "edit", row |-> r, seen |-> status[r]] \in Edit
    BY DEF Edit, TypeOK
  <1>3. TypeOK'
    BY <1>1, <1>2 DEF TypeOK
  <1>4. /\ req'[h].do = "edit" /\ req'[h].row = r /\ req'[h].seen = status[r]
        /\ \A g \in Handlers : g # h => req'[g] = req[g]
    BY <1>1 DEF TypeOK
  <1>5. EditsApart'
    BY <1>1, <1>4 DEF IInv, EditsApart, Edited
  <1>6. EditsExcused'
    BY <1>1, <1>4 DEF IInv, EditsExcused, Edited
  <1>7. Held' = Held /\ HeldMarked' = HeldMarked
    BY <1>1 DEF Held, HeldMarked
  <1>8. SavedExist' /\ HeldIsNew' /\ HeldIsCurrent' /\ SpentForGood' /\ ReportedIsCounted'
    BY <1>1, <1>7
       DEF IInv, SavedExist, HeldIsNew, HeldIsCurrent, SpentForGood, Spent, ReportedIsCounted
  <1>. QED
    BY <1>3, <1>5, <1>6, <1>8 DEF IInv

\* A text that is stored is newer than every copy of it that is held or counted.
LEMMA WriteEditStep ==
    ASSUME IInv, NEW h \in Handlers, WriteEdit(h)
    PROVE  IInv'
  <1>. TypeOK
    BY DEF IInv
  <1> DEFINE r == req[h].row
  <1>0. req[h].do = "edit" /\ r \in Rows /\ text[r] < MaxEdits
    BY EditLocals DEF WriteEdit, Store, TypeOK, IInv, EditsApart
  <1>1. PICK s \in {"embedded", "embedding_failed"} : Store(h, s)
    BY DEF WriteEdit
  <1>2. /\ UNCHANGED <<owner, retries, saved, week, sent>>
        /\ req' = [req EXCEPT ![h] = Idle]
        /\ excused \subseteq excused' /\ excused' \subseteq Rows
        /\ week # Idle => r \in excused'
        /\ \/ status[r] = "deleted" /\ UNCHANGED <<status, text>>
           \/ /\ status[r] # "deleted" /\ text' = [text EXCEPT ![r] = @ + 1]
              /\ status' = IF s = req[h].seen THEN status ELSE [status EXCEPT ![r] = s]
    BY <1>0, <1>1 DEF Store, TypeOK
  <1>3. /\ \A q \in Rows : q # r => text'[q] = text[q] /\ status'[q] = status[q]
        /\ \/ text'[r] = text[r] /\ status'[r] = status[r] /\ status[r] = "deleted"
           \/ /\ text'[r] = text[r] + 1
              /\ \/ status'[r] = s
                 \/ status'[r] = status[r] /\ s = req[h].seen
    BY <1>0, <1>2 DEF TypeOK
  <1>4. \A q \in Rows : text[q] \in Nat /\ text'[q] \in Nat /\ text[q] <= text'[q]
    <2>1. \A q \in Rows : text[q] \in Nat
      BY RowParts
    <2>. QED
      BY <1>0, <1>3, <2>1
  <1>5. TypeOK'
    <2>1. text' \in [Rows -> Texts] /\ status' \in [Rows -> Statuses]
      BY <1>0, <1>2, FeaturesAssumption DEF TypeOK, Texts, Statuses
    <2>2. req' \in [Handlers -> Edit]
      BY <1>2 DEF TypeOK, Edit
    <2>. QED
      BY <1>2, <2>1, <2>2 DEF TypeOK
  <1>6. /\ req'[h] = Idle /\ Idle.do # "edit"
        /\ \A g \in Handlers : g # h => req'[g] = req[g] /\ (req[g].do = "edit" => req[g].row # r)
    BY <1>0, <1>2 DEF TypeOK, IInv, EditsApart, Idle
  <1>7. EditsApart' /\ EditsExcused' /\ SavedExist'
    <2>1. \A g \in Handlers : req[g].do = "edit" => req[g].row \in Rows
      BY EditLocals DEF TypeOK
    <2>2. \A g \in Handlers : req'[g].do = "edit" =>
             /\ g # h /\ req'[g] = req[g] /\ req[g].row \in Rows /\ req[g].row # r
             /\ text'[req[g].row] = text[req[g].row] /\ status'[req[g].row] = status[req[g].row]
      BY <1>3, <1>6, <2>1
    <2>3. EditsApart'
      BY <2>2 DEF IInv, EditsApart
    <2>4. EditsExcused'
      BY <1>2, <2>2 DEF IInv, EditsExcused, Edited
    <2>5. SavedExist'
      BY <1>1, <1>2, <1>3 DEF IInv, SavedExist, TypeOK
    <2>. QED
      BY <2>3, <2>4, <2>5
  <1>8. /\ Held' = Held /\ HeldMarked' = HeldMarked
        /\ \A c \in Held \cup HeldMarked \cup sent : c[1] \in Rows /\ c[2] \in Nat
        /\ week.do \in {"cluster", "describe"} => week.copies \subseteq Held
    BY <1>2, HeldCopies, CopyParts DEF Held, HeldMarked, TypeOK
  <1>9. HeldIsNew'
    BY <1>2, <1>4, <1>8 DEF IInv, HeldIsNew
  <1>10. HeldIsCurrent'
    <2>1. week.do \in {"cluster", "describe"} => week # Idle
      BY DEF Idle
    <2>. QED
      BY <1>2, <1>3, <1>8, <2>1 DEF IInv, HeldIsCurrent
  <1>11. SpentForGood'
    <2>1. ASSUME NEW c \in sent \cup HeldMarked
          PROVE  Spent(c)'
      <3>1. Spent(c) /\ c[1] \in Rows /\ c[2] \in Nat
        BY <1>8 DEF IInv, SpentForGood
      <3>. QED
        BY <1>3, <1>4, <3>1 DEF Spent
    <2>. QED
      BY <1>2, <1>8, <2>1 DEF SpentForGood
  <1>12. ReportedIsCounted'
    <2>1. ASSUME NEW q \in Rows, status'[q] = "reported"
          PROVE  q \in excused' \/ <<q, text'[q]>> \in sent \cup HeldMarked
      <3>1. CASE q # r
        BY <1>2, <1>3, <2>1, <3>1 DEF IInv, ReportedIsCounted
      <3>2. CASE q = r
        <4>1. status[r] = "reported" /\ s = req[h].seen
          BY <1>1, <1>3, <2>1, <3>2
        <4>2. r \in excused
          BY <1>0, <1>1, <4>1 DEF IInv, EditsExcused
        <4>. QED
          BY <1>2, <3>2, <4>2
      <3>. QED
        BY <3>1, <3>2
    <2>. QED
      BY <1>2, <1>8, <2>1 DEF ReportedIsCounted
  <1>. QED
    BY <1>5, <1>7, <1>9, <1>10, <1>11, <1>12 DEF IInv

-----------------------------------------------------------------------------
(* The weekly job                                                           *)

\* A step of the job leaves the edits alone, which are excused from then on.
LEMMA JobAndEdits ==
    ASSUME IInv, UNCHANGED <<req, text, saved>>, week' # Idle, Edited \subseteq excused',
           \A r \in Rows : status'[r] \in {"none", "pending_bypass"} => status'[r] = status[r]
    PROVE  EditsApart' /\ SavedExist' /\ EditsExcused'
  <1>. TypeOK
    BY DEF IInv
  <1>1. EditsApart' /\ SavedExist'
    BY DEF IInv, EditsApart, SavedExist, TypeOK
  <1>2. \A h \in Handlers : req[h].do = "edit" => req[h].row \in Edited
    BY EditLocals DEF Edited, TypeOK
  <1>. QED
    BY <1>1, <1>2 DEF EditsExcused, Edited

\* What a report has counted of a row that waits is older than the row.
LEMMA Uncounted ==
    ASSUME IInv, NEW d \in sent, status[d[1]] \notin {"reported", "deleted"}
    PROVE  d[2] < text[d[1]]
  BY DEF IInv, SpentForGood, Spent

\* The job begins with copies of rows that wait, and marks all of them or none.
LEMMA BeginStep ==
    ASSUME IInv, TypeOK', week = Idle, week' # Idle, NEW S \in SUBSET With("embedded"),
           UNCHANGED <<req, text, saved, sent>>, excused' = excused \cup Edited,
           Held' = Copy(S), week'.do \in {"cluster", "describe"} => week'.copies = Copy(S),
           \/ UNCHANGED status /\ HeldMarked' = {}
           \/ status' = Become(S, "reported") /\ HeldMarked' = Copy(S)
    PROVE  IInv'
  <1>. TypeOK
    BY DEF IInv
  <1>0. /\ HeldMarked = {}
        /\ \A c \in Copy(S) : /\ c[1] \in S /\ c[1] \in Rows /\ c[2] = text[c[1]]
                              /\ c[2] \in Nat /\ status[c[1]] = "embedded"
    BY HeldCopies, CopyParts, RowParts DEF With
  <1>1. \A r \in Rows : \/ status'[r] = status[r] /\ (r \in S => HeldMarked' = {})
                        \/ r \in S /\ status'[r] = "reported" /\ HeldMarked' = Copy(S)
    BY DEF Become
  <1>2. EditsApart' /\ SavedExist' /\ EditsExcused'
    BY <1>1, JobAndEdits
  <1>3. HeldIsNew' /\ HeldIsCurrent'
    BY <1>0, Uncounted DEF HeldIsNew, HeldIsCurrent
  <1>4. SpentForGood'
    <2>1. ASSUME NEW c \in sent
          PROVE  Spent(c)'
      BY <1>1, CopyParts DEF IInv, SpentForGood, Spent, TypeOK
    <2>2. ASSUME NEW c \in Copy(S), HeldMarked' = Copy(S)
          PROVE  Spent(c)'
      BY <1>0, <2>2 DEF Spent, Become
    <2>. QED
      BY <2>1, <2>2 DEF SpentForGood
  <1>5. ReportedIsCounted'
    <2>1. ASSUME NEW r \in Rows, status'[r] = "reported"
          PROVE  r \in excused' \/ <<r, text[r]>> \in sent \cup HeldMarked'
      <3>1. CASE status[r] = "reported"
        BY <1>0, <3>1 DEF IInv, ReportedIsCounted
      <3>2. CASE status[r] # "reported"
        BY <1>1, <2>1, <3>2 DEF Copy
      <3>. QED
        BY <3>1, <3>2
    <2>. QED
      BY <2>1 DEF ReportedIsCounted
  <1>. QED
    BY <1>2, <1>3, <1>4, <1>5 DEF IInv

LEMMA StartStep ==
    ASSUME IInv, StartEmpty \/ StartDirect \/ StartPreview \/ StartClustering
    PROVE  IInv'
  <1>. TypeOK
    BY DEF IInv
  <1>0. /\ Edited \subseteq Rows /\ With("embedded") \in SUBSET Rows
        /\ Copy({}) = {} /\ Copy(With("embedded")) \in SUBSET Copies
    BY CopyParts DEF Edited, With, Copy
  <1>1. /\ week = Idle /\ UNCHANGED <<req, text, saved, sent, owner, retries>>
        /\ excused' = excused \cup Edited
    BY DEF StartEmpty, StartDirect, StartPreview, StartClustering, Begin
  <1>2. ASSUME week' \in Job, status' \in [Rows -> Statuses]
        PROVE  TypeOK'
    BY <1>0, <1>1, <1>2 DEF TypeOK
  <1>3. CASE StartEmpty
    <2>1. week' = [do |-> "read", copies |-> {}, unmatched |-> {}] /\ UNCHANGED status
      BY <1>3 DEF StartEmpty, Begin
    <2>2. Held' = Copy({}) /\ HeldMarked' = {}
      BY <1>0, <2>1 DEF Held, HeldMarked
    <2>. QED
      BY <1>1, <1>2, <2>1, <2>2, BeginStep, JobRecords DEF Idle, TypeOK
  <1>4. CASE StartPreview
    <2>1. week' = [do |-> "send", copies |-> {}] /\ UNCHANGED status
      BY <1>4 DEF StartPreview, Begin
    <2>2. Held' = Copy({}) /\ HeldMarked' = {}
      BY <1>0, <2>1 DEF Held, HeldMarked
    <2>. QED
      BY <1>1, <1>2, <2>1, <2>2, BeginStep, JobRecords DEF Idle, TypeOK
  <1>5. CASE StartClustering
    <2>1. week' = [do |-> "cluster", copies |-> Copy(With("embedded"))] /\ UNCHANGED status
      BY <1>5 DEF StartClustering, Begin
    <2>2. Held' = Copy(With("embedded")) /\ HeldMarked' = {}
      BY <2>1 DEF Held, HeldMarked
    <2>. QED
      BY <1>0, <1>1, <1>2, <2>1, <2>2, BeginStep, JobRecords DEF Idle, TypeOK
  <1>6. CASE StartDirect
    <2>1. /\ week' = [do |-> "send", copies |-> Copy(With("embedded"))]
          /\ status' = Become(With("embedded"), "reported")
      BY <1>6 DEF StartDirect, Begin
    <2>2. Held' = Copy(With("embedded")) /\ HeldMarked' = Copy(With("embedded"))
      BY <2>1 DEF Held, HeldMarked
    <2>3. status' \in [Rows -> Statuses]
      BY <2>1 DEF Become, TypeOK, Statuses
    <2>. QED
      BY <1>0, <1>1, <1>2, <2>1, <2>2, <2>3, BeginStep, JobRecords DEF Idle
  <1>. QED
    BY <1>3, <1>4, <1>5, <1>6

\* After an await the job writes for the rows of its copies, whatever they have
\* become: what it marks it holds for the report.
LEMMA StoreStep ==
    ASSUME IInv, TypeOK', week.do \in {"cluster", "describe"}, week'.do \in {"read", "send"},
           UNCHANGED <<req, text, saved, sent, excused>>,
           Held' \subseteq Held, HeldMarked \subseteq HeldMarked',
           \A r \in Rows :
              \/ status'[r] = status[r]
              \/ /\ r \in Kept(week.copies) /\ status'[r] \notin {"none", "pending_bypass"}
                 /\ week.do = "describe" => status'[r] = "reported"
                 /\ status'[r] = "reported" =>
                       \A c \in week.copies : c[1] = r => c \in HeldMarked',
           \A c \in HeldMarked' :
              c \in HeldMarked \/ (c \in week.copies /\ status'[c[1]] \in {"reported", "deleted"})
    PROVE  IInv'
  <1>. TypeOK
    BY DEF IInv
  <1>0. /\ week # Idle /\ week' # Idle /\ week.copies \subseteq Held
        /\ week.do = "cluster" => HeldMarked = {}
    BY DEF Held, HeldMarked, Idle
  <1>1. EditsApart' /\ SavedExist' /\ EditsExcused'
    BY <1>0, JobAndEdits DEF IInv, EditsExcused
  <1>2. /\ \A c \in Held : c \in Copies /\ c[1] \in Rows /\ c[2] \in Nat /\ c = <<c[1], c[2]>>
        /\ \A c \in sent : c[1] \in Rows /\ c[2] \in Nat
        /\ \A r \in Rows : text[r] \in Nat
    BY HeldCopies, CopyParts, RowParts DEF TypeOK
  <1>3. HeldIsNew' /\ HeldIsCurrent'
    BY DEF IInv, HeldIsNew, HeldIsCurrent
  <1>4. \A r \in Kept(week.copies) : \E c \in week.copies : c[1] = r
    BY DEF Kept, RowsOf
  <1>5. SpentForGood'
    <2>1. ASSUME NEW d \in sent
          PROVE  Spent(d)'
      <3>1. CASE status'[d[1]] = status[d[1]]
        BY <3>1 DEF IInv, SpentForGood, Spent
      <3>2. CASE status'[d[1]] # status[d[1]]
        <4>1. PICK c \in week.copies : c[1] = d[1]
          BY <1>2, <1>4, <3>2
        <4>2. d[2] < c[2] /\ c[2] <= text[d[1]]
          BY <1>0, <4>1 DEF IInv, HeldIsNew
        <4>3. d[2] \in Nat /\ c[2] \in Nat /\ text[d[1]] \in Nat
          BY <1>0, <1>2
        <4>. QED
          BY <4>2, <4>3 DEF Spent
      <3>. QED
        BY <3>1, <3>2
    <2>2. ASSUME NEW c \in HeldMarked'
          PROVE  Spent(c)'
      <3>1. CASE c \in week.copies /\ status'[c[1]] \in {"reported", "deleted"}
        BY <1>0, <1>2, <3>1 DEF IInv, HeldIsNew, Spent
      <3>2. CASE c \in HeldMarked
        <4>1. Spent(c) /\ week.do = "describe" /\ c[1] \in Rows
          BY <1>0, <1>2, <3>2, HeldCopies DEF IInv, SpentForGood
        <4>. QED
          BY <4>1 DEF Spent
      <3>. QED
        BY <3>1, <3>2
    <2>. QED
      BY <2>1, <2>2 DEF SpentForGood
  <1>6. ReportedIsCounted'
    <2>1. ASSUME NEW r \in Rows, status'[r] = "reported"
          PROVE  r \in excused \/ <<r, text[r]>> \in sent \cup HeldMarked'
      <3>1. CASE status[r] = "reported"
        BY <3>1 DEF IInv, ReportedIsCounted
      <3>2. CASE status[r] # "reported"
        <4>1. PICK c \in week.copies : c[1] = r
          BY <1>4, <2>1, <3>2
        <4>2. c \in HeldMarked' /\ c = <<r, c[2]>>
          BY <1>0, <1>2, <2>1, <3>2, <4>1
        <4>3. c[2] = text[r] \/ r \in excused
          BY <4>1 DEF IInv, HeldIsCurrent
        <4>. QED
          BY <4>2, <4>3
      <3>. QED
        BY <3>1, <3>2
    <2>. QED
      BY <2>1 DEF ReportedIsCounted
  <1>. QED
    BY <1>1, <1>3, <1>5, <1>6 DEF IInv

LEMMA StoreClustersStep ==
    ASSUME IInv, NEW noise \in SUBSET Rows, StoreClusters(noise)
    PROVE  IInv'
  <1>. TypeOK
    BY DEF IInv
  <1> DEFINE kept == Kept(week.copies)
             given == {r \in kept \cap noise : Again(r) = NoiseLimit}
             left == {c \in week.copies : c[1] \in given}
  <1>1. /\ week.do = "cluster" /\ UNCHANGED <<owner, text, saved, req, sent, excused>>
        /\ status' = [r \in Rows |-> IF r \in given THEN "reported"
                                     ELSE IF r \in kept \ noise THEN "clustered" ELSE status[r]]
        /\ retries' = [r \in Rows |-> IF r \in kept \cap noise THEN Again(r)
                                      ELSE IF r \in kept THEN 0 ELSE retries[r]]
        /\ week' = [do |-> "read", copies |-> {}, unmatched |-> left]
    BY DEF StoreClusters
  <1>2. week.copies \in SUBSET Copies /\ left \in SUBSET Copies
    BY <1>1, JobLocals DEF TypeOK
  <1>3. TypeOK'
    <2>1. status' \in [Rows -> Statuses]
      BY <1>1 DEF TypeOK, Statuses
    <2>2. retries' \in [Rows -> 0 .. NoiseLimit]
      BY <1>1, FeaturesAssumption DEF TypeOK, Again
    <2>3. week' \in Job
      BY <1>1, <1>2, JobRecords
    <2>. QED
      BY <1>1, <2>1, <2>2, <2>3 DEF TypeOK
  <1>4. given \subseteq kept
    OBVIOUS
  <1>5. Held = week.copies /\ HeldMarked = {} /\ Held' = left /\ HeldMarked' = left
    BY <1>1 DEF Held, HeldMarked
  <1>6. /\ \A r \in Rows : \/ status'[r] = status[r]
                           \/ r \in kept /\ status'[r] = "clustered"
                           \/ r \in given /\ status'[r] = "reported"
        /\ \A c \in left : c \in week.copies /\ c[1] \in given /\ status'[c[1]] = "reported"
    BY <1>1, <1>2, CopyParts
  <1>7. \A c \in week.copies : c[1] \in given => c \in left
    OBVIOUS
  <1>. HIDE DEF given, left
  <1>. QED
    BY <1>1, <1>3, <1>4, <1>5, <1>6, <1>7, StoreStep

LEMMA StoreFailureStep ==
    ASSUME IInv, StoreFailure
    PROVE  IInv'
  <1>. TypeOK
    BY DEF IInv
  <1>1. /\ week.do = "cluster" /\ UNCHANGED <<owner, text, retries, saved, req, sent, excused>>
        /\ status' = Become(Kept(week.copies), "clustering_failed")
        /\ week' = [do |-> "read", copies |-> {}, unmatched |-> {}]
    BY DEF StoreFailure
  <1>2. TypeOK'
    BY <1>1, JobRecords DEF TypeOK, Become, Statuses
  <1>3. HeldMarked = {} /\ Held' = {} /\ HeldMarked' = {}
    BY <1>1 DEF Held, HeldMarked
  <1>4. \A r \in Rows : \/ status'[r] = status[r]
                        \/ r \in Kept(week.copies) /\ status'[r] = "clustering_failed"
    BY <1>1 DEF Become
  <1>. QED
    BY <1>1, <1>2, <1>3, <1>4, StoreStep

LEMMA MarkReportedStep ==
    ASSUME IInv, MarkReported
    PROVE  IInv'
  <1>. TypeOK
    BY DEF IInv
  <1>1. /\ week.do = "describe" /\ UNCHANGED <<owner, text, retries, saved, req, sent, excused>>
        /\ status' = Become(Kept(week.copies), "reported")
        /\ week' = [do |-> "send", copies |-> week.copies \cup week.unmatched]
    BY DEF MarkReported
  <1>2. week.copies \in SUBSET Copies /\ week.unmatched \in SUBSET Copies
    BY <1>1, JobLocals DEF TypeOK
  <1>3. TypeOK'
    <2>1. week' \in Job
      BY <1>1, <1>2, JobRecords
    <2>2. status' \in [Rows -> Statuses]
      BY <1>1 DEF TypeOK, Become, Statuses
    <2>. QED
      BY <1>1, <2>1, <2>2 DEF TypeOK
  <1>4. /\ Held = week.copies \cup week.unmatched /\ HeldMarked = week.unmatched
        /\ Held' = week.copies \cup week.unmatched /\ HeldMarked' = week.copies \cup week.unmatched
    BY <1>1 DEF Held, HeldMarked
  <1>5. \A r \in Rows : \/ status'[r] = status[r] /\ r \notin Kept(week.copies)
                        \/ r \in Kept(week.copies) /\ status'[r] = "reported"
    BY <1>1 DEF Become
  <1>6. \A c \in week.copies : status'[c[1]] \in {"reported", "deleted"}
    <2>1. \A c \in week.copies : c[1] \in Rows /\ (c[1] \in Kept(week.copies) \/ status[c[1]] = "deleted")
      BY <1>2, CopyParts DEF Kept, RowsOf
    <2>. QED
      BY <1>5, <2>1
  <1>. QED
    BY <1>1, <1>3, <1>4, <1>5, <1>6, StoreStep

LEMMA ReadClusteredStep ==
    ASSUME IInv, ReadClustered
    PROVE  IInv'
  <1>. TypeOK
    BY DEF IInv
  <1> DEFINE found == With("clustered")
  <1>1. /\ week.do = "read" /\ UNCHANGED <<status, owner, text, retries, saved, req, sent>>
        /\ \/ /\ week' = [do |-> "send", copies |-> {}]
              /\ excused' = excused \cup RowsOf(week.unmatched)
           \/ /\ week' = [week EXCEPT !.do = "describe", !.copies = Copy(found)]
              /\ UNCHANGED excused
    BY DEF ReadClustered, rowVars
  <1>2. /\ week \in Job /\ week # Idle /\ week.unmatched \in SUBSET Copies
        /\ found \in SUBSET Rows /\ Copy(found) \in SUBSET Copies
        /\ Held = week.copies \cup week.unmatched /\ HeldMarked = week.unmatched
    BY <1>1, JobLocals, CopyParts DEF TypeOK, Held, HeldMarked, With
  <1>. HIDE DEF found
  <1>3. CASE /\ week' = [do |-> "send", copies |-> {}]
             /\ excused' = excused \cup RowsOf(week.unmatched)
    <2>1. RowsOf(week.unmatched) \subseteq Rows /\ \A c \in week.unmatched : c[1] \in RowsOf(week.unmatched)
      BY <1>2, CopyParts DEF RowsOf
    <2>2. Held' = {} /\ HeldMarked' = {} /\ week' # Idle
      BY <1>3 DEF Held, HeldMarked, Idle
    <2>3. TypeOK'
      BY <1>1, <1>3, <2>1, JobRecords DEF TypeOK
    <2>4. EditsApart' /\ SavedExist' /\ EditsExcused'
      BY <1>1, <1>2, <1>3, <2>2, JobAndEdits DEF IInv, EditsExcused
    <2>5. HeldIsNew' /\ HeldIsCurrent' /\ SpentForGood'
      BY <1>1, <1>3, <2>2 DEF IInv, HeldIsNew, HeldIsCurrent, SpentForGood, Spent
    <2>6. ReportedIsCounted'
      <3>1. ASSUME NEW r \in Rows, <<r, text[r]>> \in week.unmatched
            PROVE  r \in excused'
        BY <1>3, <2>1, <3>1
      <3>. QED
        BY <1>1, <1>2, <1>3, <2>2, <3>1 DEF IInv, ReportedIsCounted
    <2>. QED
      BY <2>3, <2>4, <2>5, <2>6 DEF IInv
  <1>4. CASE /\ week' = [week EXCEPT !.do = "describe", !.copies = Copy(found)]
             /\ UNCHANGED excused
    <2>1. /\ week' \in Job /\ week'.do = "describe" /\ week'.copies = Copy(found)
          /\ week'.unmatched = week.unmatched
      BY <1>1, <1>2, <1>4, JobDescribes
    <2>2. Held' = Copy(found) \cup week.unmatched /\ HeldMarked' = week.unmatched /\ week' # Idle
      BY <2>1 DEF Held, HeldMarked, Idle
    <2>3. TypeOK'
      BY <1>1, <1>4, <2>1 DEF TypeOK
    <2>4. EditsApart' /\ SavedExist' /\ EditsExcused'
      BY <1>1, <1>2, <1>4, <2>2, JobAndEdits DEF IInv, EditsExcused
    <2>5. \A c \in Copy(found) : /\ c[1] \in Rows /\ status[c[1]] = "clustered"
                                 /\ c[2] = text[c[1]] /\ c[2] \in Nat
      BY <1>2, CopyParts, RowParts DEF found, With
    <2>6. HeldIsNew' /\ HeldIsCurrent'
      BY <1>1, <1>2, <2>1, <2>2, <2>5, Uncounted DEF IInv, HeldIsNew, HeldIsCurrent
    <2>7. SpentForGood' /\ ReportedIsCounted'
      BY <1>1, <1>2, <1>4, <2>2 DEF IInv, SpentForGood, Spent, ReportedIsCounted
    <2>. QED
      BY <2>3, <2>4, <2>6, <2>7 DEF IInv
  <1>. QED
    BY <1>1, <1>3, <1>4

LEMMA SendReportStep ==
    ASSUME IInv, SendReport
    PROVE  IInv'
  <1>. TypeOK
    BY DEF IInv
  <1>1. /\ week.do = "send" /\ week' = [do |-> "clean"]
        /\ UNCHANGED <<status, owner, text, retries, saved, req>>
        /\ \/ sent' = sent \cup week.copies /\ UNCHANGED excused
           \/ excused' = excused \cup RowsOf(week.copies) /\ UNCHANGED sent
    BY DEF SendReport, rowVars
  <1>2. /\ week # Idle /\ week' # Idle /\ week.copies \in SUBSET Copies
        /\ HeldMarked = week.copies /\ Held' = {} /\ HeldMarked' = {}
    BY <1>1, JobLocals DEF TypeOK, Held, HeldMarked, Idle
  <1>3. RowsOf(week.copies) \subseteq Rows /\ \A c \in week.copies : c[1] \in RowsOf(week.copies)
    BY <1>2, CopyParts DEF RowsOf
  <1>4. TypeOK'
    BY <1>1, <1>2, <1>3, JobRecords DEF TypeOK
  <1>5. EditsApart' /\ SavedExist' /\ EditsExcused'
    BY <1>1, <1>2, JobAndEdits DEF IInv, EditsExcused
  <1>6. HeldIsNew' /\ HeldIsCurrent' /\ SpentForGood'
    BY <1>1, <1>2 DEF IInv, HeldIsNew, HeldIsCurrent, SpentForGood, Spent
  <1>7. ReportedIsCounted'
    <2>1. ASSUME NEW r \in Rows, <<r, text[r]>> \in week.copies
          PROVE  r \in excused' \/ <<r, text[r]>> \in sent'
      BY <1>1, <1>3, <2>1
    <2>. QED
      BY <1>1, <1>2, <2>1 DEF IInv, ReportedIsCounted
  <1>. QED
    BY <1>4, <1>5, <1>6, <1>7 DEF IInv

LEMMA DeleteReportedStep ==
    ASSUME IInv, DeleteReported
    PROVE  IInv'
  <1>. TypeOK
    BY DEF IInv
  <1> DEFINE gone == With("reported")
  <1>1. /\ status' = Become(gone, "deleted") /\ week' = Idle /\ UNCHANGED <<owner, req>>
        /\ text' = [r \in Rows |-> IF r \in gone THEN 0 ELSE text[r]]
        /\ retries' = [r \in Rows |-> IF r \in gone THEN 0 ELSE retries[r]]
        /\ saved' = saved \ gone /\ excused' = excused \ gone
        /\ sent' = {c \in sent : c[1] \notin gone}
    BY DEF DeleteReported
  <1>2. TypeOK'
    <2>1. text' \in [Rows -> Texts] /\ retries' \in [Rows -> 0 .. NoiseLimit]
      BY <1>1, FeaturesAssumption DEF TypeOK, Texts
    <2>2. status' \in [Rows -> Statuses]
      BY <1>1 DEF Become, TypeOK, Statuses
    <2>. QED
      BY <1>1, <2>1, <2>2, JobRecords DEF TypeOK
  <1>3. Held' = {} /\ HeldMarked' = {}
    BY <1>1, <1>2, HeldCopies DEF Held, HeldMarked, Idle
  <1>4. \A r \in Rows :
           \/ r \in gone /\ status[r] = "reported" /\ status'[r] = "deleted"
           \/ /\ r \notin gone /\ status'[r] = status[r] /\ status[r] # "reported"
              /\ text'[r] = text[r]
    BY <1>1 DEF Become, With
  <1>. HIDE DEF gone
  <1>5. \A r \in Rows : text'[r] <= text[r] /\ text[r] \in Nat /\ text'[r] \in Nat
    <2>1. \A r \in Rows : text[r] \in Nat
      BY RowParts
    <2>. QED
      BY <1>1, <2>1
  <1>6. \A h \in Handlers : req[h].do = "edit" => req[h].row \in Rows
    BY EditLocals DEF TypeOK
  <1>7. EditsApart'
    BY <1>1, <1>5, <1>6, FeaturesAssumption DEF IInv, EditsApart
  <1>8. SavedExist' /\ EditsExcused'
    BY <1>1, <1>4, <1>6 DEF IInv, SavedExist, EditsExcused, TypeOK
  <1>9. \A c \in sent : c[1] \in Rows
    BY CopyParts DEF TypeOK
  <1>10. HeldIsNew' /\ HeldIsCurrent' /\ SpentForGood' /\ ReportedIsCounted'
    BY <1>1, <1>3, <1>4, <1>9
       DEF IInv, HeldIsNew, HeldIsCurrent, SpentForGood, Spent, ReportedIsCounted, Idle
  <1>. QED
    BY <1>2, <1>7, <1>8, <1>10 DEF IInv

LEMMA WeekFailsStep ==
    ASSUME IInv, WeekFails
    PROVE  IInv'
  <1>. TypeOK
    BY DEF IInv
  <1>1. /\ week' = Idle /\ UNCHANGED <<status, owner, text, retries, saved, req, sent>>
        /\ excused' = excused \cup {r \in With("reported") : <<r, text[r]>> \notin sent}
    BY DEF WeekFails, rowVars
  <1>2. TypeOK'
    BY <1>1, JobRecords DEF TypeOK, With
  <1>3. Held' = {} /\ HeldMarked' = {}
    BY <1>1, <1>2, HeldCopies DEF Held, HeldMarked, Idle
  <1>4. EditsApart' /\ SavedExist' /\ EditsExcused'
    BY <1>1 DEF IInv, EditsApart, SavedExist, EditsExcused
  <1>5. HeldIsNew' /\ HeldIsCurrent' /\ SpentForGood' /\ ReportedIsCounted'
    BY <1>1, <1>3
       DEF IInv, HeldIsNew, HeldIsCurrent, SpentForGood, Spent, ReportedIsCounted, Idle, With
  <1>. QED
    BY <1>2, <1>4, <1>5 DEF IInv

-----------------------------------------------------------------------------
(* Theorems                                                                 *)

LEMMA NextIInv == IInv /\ [Next]_vars => IInv'
  <1> SUFFICES ASSUME IInv, [Next]_vars PROVE IInv'
    OBVIOUS
  <1>1. CASE Member
    BY <1>1, SubmitStep, DailyStep, ReadEditStep DEF Member
  <1>2. CASE Storing
    BY <1>2, WriteEditStep DEF Storing
  <1>3. CASE Retrying \/ \E r \in Rows : CleanupStale(r)
    BY <1>3, DailyStep DEF Retrying
  <1>4. CASE Reporting
    BY <1>4, StartStep, StoreClustersStep, ReadClusteredStep, MarkReportedStep, SendReportStep,
       DeleteReportedStep DEF Reporting
  <1>5. CASE UNCHANGED vars
    BY <1>5 DEF vars, rowVars, IInv, TypeOK, EditsApart, SavedExist, EditsExcused, Edited, HeldIsNew,
                HeldIsCurrent, SpentForGood, Spent, ReportedIsCounted, Held, HeldMarked
  <1>. QED
    BY <1>1, <1>2, <1>3, <1>4, <1>5, StoreFailureStep, WeekFailsStep DEF Next

\* The inductive invariant holds throughout.
THEOREM Invariant == Spec => []IInv
  BY InitIInv, NextIInv, PTL DEF Spec

\* Every variable of Features keeps its type; in particular no text is edited
\* beyond the bound, although a row is edited after it was read.
THEOREM TypeCorrect == Spec => []TypeOK
  <1>1. IInv => TypeOK
    BY DEF IInv
  <1>. QED
    BY <1>1, Invariant, PTL

\* No text is counted in two reports, whichever edits, failures and retries come
\* between the weeks.
THEOREM CountedOnce == Spec => []ReportedOnce
  <1>1. IInv => ReportedOnce
    <2> SUFFICES ASSUME IInv, week.do = "send", NEW c \in week.copies, c \in sent PROVE FALSE
      BY DEF ReportedOnce
    <2>1. c \in Held /\ c[2] \in Nat
      BY HeldCopies, CopyParts DEF Held, IInv
    <2>2. c[2] < c[2]
      BY <2>1 DEF IInv, HeldIsNew
    <2>. QED
      BY <2>1, <2>2
  <1>. QED
    BY <1>1, Invariant, PTL

\* What a member was told is saved is deleted only after a report that reached
\* the admins has counted the text it holds, or with one of the excuses.
THEOREM SavedUntilCounted == Spec => NothingLost
  <1>1. ASSUME IInv, [Next]_vars
        PROVE  [\A r \in saved : status[r] # "deleted" /\ status'[r] = "deleted"
                                 => <<r, text[r]>> \in sent \/ r \in excused]_vars
    <2> SUFFICES ASSUME Next, NEW r \in saved, status[r] # "deleted", status'[r] = "deleted"
                 PROVE  <<r, text[r]>> \in sent \/ r \in excused
      BY <1>1
    <2>1. TypeOK /\ r \in Rows /\ r \notin With("pending_bypass")
      BY <1>1 DEF IInv, TypeOK, SavedExist, With
    <2>2. ASSUME NEW q \in Rows, NEW u \in Users,
                 SubmitNew(q, u) \/ SubmitUnembedded(q, u) \/ SubmitSimilar(q, u)
          PROVE  FALSE
      BY <2>1, <2>2 DEF SubmitNew, SubmitUnembedded, SubmitSimilar, Become, TypeOK
    <2>3. ASSUME NEW q \in Rows, ApprovePending(q) \/ CleanupStale(q)
          PROVE  FALSE
      BY <2>1, <2>3 DEF ApprovePending, CleanupStale, With, TypeOK
    <2>4. ASSUME NEW h \in Handlers, WriteEdit(h) \/ \E q \in Rows : ReadEdit(h, q)
          PROVE  FALSE
      <3>1. CASE \E q \in Rows : ReadEdit(h, q)
        BY <3>1 DEF ReadEdit, rowVars
      <3>2. CASE WriteEdit(h)
        BY <2>1, <3>2 DEF WriteEdit, Store, TypeOK
      <3>. QED
        BY <2>4, <3>1, <3>2
    <2>5. ASSUME Retrying \/ StoreFailure
          PROVE  FALSE
      BY <2>1, <2>5 DEF Retrying, RetryFailedEmbeddings, RetryClusteringFailed, StoreFailure, Become
    <2>6. ASSUME Reporting, ~DeleteReported
          PROVE  FALSE
      <3>1. ASSUME NEW noise \in SUBSET Rows, StoreClusters(noise)
            PROVE  FALSE
        BY <2>1, <3>1 DEF StoreClusters
      <3>2. CASE StartDirect \/ MarkReported
        BY <2>1, <3>2 DEF StartDirect, MarkReported, Become
      <3>3. CASE StartEmpty \/ StartPreview \/ StartClustering \/ ReadClustered \/ SendReport
        BY <3>3 DEF StartEmpty, StartPreview, StartClustering, ReadClustered, SendReport, rowVars
      <3>. QED
        BY <2>6, <3>1, <3>2, <3>3 DEF Reporting
    <2>7. CASE WeekFails
      BY <2>7 DEF WeekFails, rowVars
    <2>8. CASE DeleteReported
      <3>1. status[r] = "reported" /\ week.do = "clean"
        BY <2>1, <2>8 DEF DeleteReported, Become, With
      <3>2. HeldMarked = {}
        BY <3>1 DEF HeldMarked
      <3>. QED
        BY <1>1, <2>1, <3>1, <3>2 DEF IInv, ReportedIsCounted
    <2>. QED
      BY <2>2, <2>3, <2>4, <2>5, <2>6, <2>7, <2>8 DEF Next, Member, Storing
  <1>. QED
    BY <1>1, Invariant, PTL DEF Spec, NothingLost
=============================================================================
