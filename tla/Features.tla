-------------------------------- MODULE Features --------------------------------
(***************************************************************************)
(* Feature requests: members send and edit them, and once a week a job     *)
(* groups what has come in, reports it to the admins and deletes what was  *)
(* reported.  The requests run in the process of the Slack socket, the     *)
(* jobs as tasks of another one, and the weekly job awaits a language      *)
(* model twice between what it reads and what it writes.                   *)
(*                                                                         *)
(* The weekly quota, similarity and fraud scores only decide whether a     *)
(* request is refused, kept as a draft or taken: each is possible.  Which  *)
(* cluster a request falls into, and its label, are left out.              *)
(***************************************************************************)
EXTENDS Integers, FiniteSets

CONSTANTS
    Users,
    MaxRows,     \* how many requests are sent: a bound
    MaxFailing,  \* how many requests are without a vector at once: a bound
    MaxEdits,    \* how often a request is edited: a bound
    DirectMax,   \* DIRECT_DUMP_MAX_RECORDS
    HdbscanMin,  \* HDBSCAN_MIN_RECORDS
    NoiseLimit,  \* the weeks without a cluster after which a request is listed, 3
    Handlers,    \* the edits under way at once
    Faults       \* what may go wrong: "embed", "compute", "week", "slack"

ASSUME FeaturesAssumption ==
    /\ MaxRows \in Nat /\ MaxFailing \in Nat /\ Users # {}
    /\ MaxEdits \in Nat /\ DirectMax \in Nat /\ HdbscanMin \in Nat
    /\ NoiseLimit \in Nat \ {0}
    /\ DirectMax < HdbscanMin
    /\ Faults \subseteq {"embed", "compute", "week", "slack"}

VARIABLES
    status, owner,  \* columns of the rows
    text,           \* request_raw: how often it has been edited
    retries,        \* retry_count
    saved,          \* the requests in the table whose members were told they are saved
    req,            \* what the thread of an edit is about to do
    week,           \* what the weekly job is about to do
    sent,           \* what of the table the reports that reached the admins have counted
    excused         \* rows a fault or an edit in the middle of the job has hit

rowVars == <<status, owner, text, retries>>
vars == <<rowVars, saved, req, week, sent, excused>>

-----------------------------------------------------------------------------
(* State                                                                    *)

Statuses == {"none", "pending_bypass", "embedded", "embedding_failed",
             "clustered", "clustering_failed", "reported", "deleted"}

\* Rows of feature_requests, numbered as they are inserted.
Rows == 1 .. MaxRows

Texts == 0 .. MaxEdits

\* A request with the text a job has read.
Copies == Rows \X Texts

Idle == [do |-> "idle"]

Edit == {Idle} \cup [do : {"edit"}, row : Rows, seen : Statuses]

\* What the job holds: the copies to cluster, to describe or to send, and those
\* without a cluster.
Job ==
    {Idle}
    \cup [do : {"cluster", "send"}, copies : SUBSET Copies]
    \cup [do : {"read", "describe"}, copies : SUBSET Copies, unmatched : SUBSET Copies]
    \cup [do : {"clean"}]

TypeOK ==
    /\ status \in [Rows -> Statuses]
    /\ owner \in [Rows -> Users]
    /\ text \in [Rows -> Texts]
    /\ retries \in [Rows -> 0 .. NoiseLimit]
    /\ saved \subseteq Rows /\ excused \subseteq Rows
    /\ req \in [Handlers -> Edit]
    /\ week \in Job
    /\ sent \subseteq Copies

Init ==
    /\ status = [r \in Rows |-> "none"]
    /\ owner = [r \in Rows |-> CHOOSE u \in Users : TRUE]
    /\ text = [r \in Rows |-> 0]
    /\ retries = [r \in Rows |-> 0]
    /\ saved = {} /\ sent = {} /\ excused = {}
    /\ req = [h \in Handlers |-> Idle]
    /\ week = Idle

With(s) == {r \in Rows : status[r] = s}

Become(S, s) == [r \in Rows |-> IF r \in S THEN s ELSE status[r]]

Copy(S) == {<<r, text[r]>> : r \in S}

RowsOf(copies) == {c[1] : c \in copies}

\* The rows of copies that still exist: get and UPDATE skip the others.
Kept(copies) == {r \in RowsOf(copies) : status[r] # "deleted"}

\* retry_count after one more failure; above the limit it does not matter.
Again(r) == IF retries[r] < NoiseLimit THEN retries[r] + 1 ELSE retries[r]

\* The rows a thread has read and is about to store.
Edited == {r \in Rows : \E h \in Handlers : req[h].do = "edit" /\ req[h].row = r}

-----------------------------------------------------------------------------
(* Members                                                                  *)

Insert(r, u, s) ==
    /\ status[r] = "none" /\ \A q \in 1 .. r - 1 : status[q] # "none"
    /\ owner' = [owner EXCEPT ![r] = u]
    /\ UNCHANGED <<text, retries, req, week, sent, excused>>

\* The vector client may fail.
EmbedFails == "embed" \in Faults /\ Cardinality(With("embedding_failed")) < MaxFailing

\* The text is new enough, and is taken.
SubmitNew(r, u) ==
    /\ Insert(r, u, "embedded")
    /\ status' = [status EXCEPT ![r] = "embedded"]
    /\ saved' = saved \cup {r}

\* The vector could not be computed; the member is told the same.
SubmitUnembedded(r, u) ==
    /\ EmbedFails
    /\ Insert(r, u, "embedding_failed")
    /\ status' = [status EXCEPT ![r] = "embedding_failed"]
    /\ saved' = saved \cup {r}

\* The text is like one the member has sent: the earlier draft goes and this one
\* waits for an answer.
SubmitSimilar(r, u) ==
    /\ \E q \in Rows : owner[q] = u /\ status[q] \in {"embedded", "clustered", "reported"}
    /\ Insert(r, u, "pending_bypass")
    /\ LET drafts == {q \in With("pending_bypass") : owner[q] = u}
       IN  status' = [Become(drafts, "deleted") EXCEPT ![r] = "pending_bypass"]
    /\ UNCHANGED saved

\* "No, it is different."
ApprovePending(r) ==
    /\ status[r] = "pending_bypass"
    /\ status' = [status EXCEPT ![r] = "embedded"]
    /\ saved' = saved \cup {r}
    /\ UNCHANGED <<owner, text, retries, req, week, sent, excused>>

\* "Yes, edit it": the row is fetched, whatever its status.
ReadEdit(h, r) ==
    /\ req[h] = Idle
    /\ status[r] \notin {"none", "deleted", "pending_bypass"} /\ text[r] < MaxEdits
    /\ r \notin Edited
    /\ req' = [req EXCEPT ![h] = [do |-> "edit", row |-> r, seen |-> status[r]]]
    /\ excused' = IF week # Idle THEN excused \cup {r} ELSE excused
    /\ UNCHANGED <<rowVars, saved, week, sent>>

\* Only the columns that differ from what was fetched are stored, and a row that
\* is gone is an error.
Store(h, s) ==
    LET r == req[h].row IN
    /\ req[h].do = "edit"
    /\ req' = [req EXCEPT ![h] = Idle]
    /\ \/ /\ status[r] = "deleted"
          /\ UNCHANGED <<status, text>>
       \/ /\ status[r] # "deleted"
          /\ text' = [text EXCEPT ![r] = @ + 1]
          /\ status' = IF s = req[h].seen THEN status ELSE [status EXCEPT ![r] = s]
    /\ excused' = IF week # Idle THEN excused \cup {r} ELSE excused
    /\ UNCHANGED <<owner, retries, saved, week, sent>>

\* The new text is embedded and waits for the next week.
WriteEdit(h) ==
    \/ Store(h, "embedded")
    \/ EmbedFails /\ Store(h, "embedding_failed")

-----------------------------------------------------------------------------
(* The daily jobs                                                           *)

\* Drafts that nobody answered for a day.
CleanupStale(r) ==
    /\ status[r] = "pending_bypass"
    /\ status' = [status EXCEPT ![r] = "deleted"]
    /\ UNCHANGED <<owner, text, retries, saved, req, week, sent, excused>>

\* Each record that can be embedded now is recovered.
RetryFailedEmbeddings(S) ==
    /\ S # {} /\ S \subseteq With("embedding_failed")
    /\ "embed" \in Faults \/ S = With("embedding_failed")
    /\ status' = Become(S, "embedded")
    /\ UNCHANGED <<owner, text, retries, saved, req, week, sent, excused>>

RetryClusteringFailed ==
    LET failed == With("clustering_failed") IN
    /\ failed # {}
    /\ status' = Become(failed, "embedded")
    /\ retries' = [r \in Rows |-> IF r \in failed THEN Again(r) ELSE retries[r]]
    /\ UNCHANGED <<owner, text, saved, req, week, sent, excused>>

-----------------------------------------------------------------------------
(* The weekly job                                                           *)

\* A row that is being edited when the job begins may be hit by both.
Begin(next) ==
    /\ week = Idle
    /\ week' = next
    /\ excused' = excused \cup Edited
    /\ UNCHANGED <<owner, text, retries, saved, req, sent>>

\* Nothing has come in: the report is of what an earlier week has clustered.
StartEmpty ==
    /\ With("embedded") = {}
    /\ Begin([do |-> "read", copies |-> {}, unmatched |-> {}])
    /\ UNCHANGED status

\* Mutant: the few are listed and not marked.
StartUnmarked ==
    LET batch == With("embedded") IN
    /\ Cardinality(batch) \in 1 .. DirectMax
    /\ Begin([do |-> "send", copies |-> Copy(batch)])
    /\ UNCHANGED status

\* A few are listed as they are, and reported at once.
StartDirect ==
    LET batch == With("embedded") IN
    /\ Cardinality(batch) \in 1 .. DirectMax
    /\ Begin([do |-> "send", copies |-> Copy(batch)])
    /\ status' = Become(batch, "reported")

\* Some more are only previewed, and wait for the next week.
StartPreview ==
    /\ Cardinality(With("embedded")) \in DirectMax + 1 .. HdbscanMin - 1
    /\ Begin([do |-> "send", copies |-> {}])
    /\ UNCHANGED status

\* Many are clustered: the first session ends with the copies of their texts.
StartClustering ==
    /\ Cardinality(With("embedded")) >= HdbscanMin
    /\ Begin([do |-> "cluster", copies |-> Copy(With("embedded"))])
    /\ UNCHANGED status

\* Mutant: noise is never given up.
StoreClustersPatient(noise) ==
    LET kept == Kept(week.copies) IN
    /\ week.do = "cluster"
    /\ noise \subseteq RowsOf(week.copies)
    /\ status' = Become(kept \ noise, "clustered")
    /\ retries' = [r \in Rows |-> IF r \in kept \cap noise THEN Again(r) ELSE retries[r]]
    /\ week' = [do |-> "read", copies |-> {}, unmatched |-> {}]
    /\ UNCHANGED <<owner, text, saved, req, sent, excused>>

\* The second session writes for the rows that are still there.  What is noise
\* stays embedded, until it has been noise too often.
StoreClusters(noise) ==
    LET kept == Kept(week.copies)
        given == {r \in kept \cap noise : Again(r) = NoiseLimit}
    IN
    /\ week.do = "cluster"
    /\ noise \subseteq RowsOf(week.copies)
    /\ status' = [r \in Rows |-> IF r \in given THEN "reported"
                                 ELSE IF r \in kept \ noise THEN "clustered" ELSE status[r]]
    /\ retries' = [r \in Rows |-> IF r \in kept \cap noise THEN Again(r)
                                  ELSE IF r \in kept THEN 0 ELSE retries[r]]
    /\ week' = [do |-> "read", copies |-> {},
                unmatched |-> {c \in week.copies : c[1] \in given}]
    /\ UNCHANGED <<owner, text, saved, req, sent, excused>>

\* An error of the computation marks all of them.
StoreFailure ==
    /\ "compute" \in Faults
    /\ week.do = "cluster"
    /\ status' = Become(Kept(week.copies), "clustering_failed")
    /\ week' = [do |-> "read", copies |-> {}, unmatched |-> {}]
    /\ UNCHANGED <<owner, text, retries, saved, req, sent, excused>>

\* The report is about all that is clustered.  Without any it says so, and leaves
\* out what has no cluster.
ReadClustered ==
    /\ week.do = "read"
    /\ IF With("clustered") = {}
       THEN /\ week' = [do |-> "send", copies |-> {}]
            /\ excused' = excused \cup RowsOf(week.unmatched)
       ELSE /\ week' = [week EXCEPT !.do = "describe", !.copies = Copy(With("clustered"))]
            /\ UNCHANGED excused
    /\ UNCHANGED <<rowVars, saved, req, sent>>

\* Mutant: all that is there by now is marked.
MarkAll ==
    /\ week.do = "describe"
    /\ status' = Become(With("embedded") \cup With("clustered"), "reported")
    /\ week' = [do |-> "send", copies |-> week.copies \cup week.unmatched]
    /\ UNCHANGED <<owner, text, retries, saved, req, sent, excused>>

\* After the descriptions those that were read are marked.
MarkReported ==
    /\ week.do = "describe"
    /\ status' = Become(Kept(week.copies), "reported")
    /\ week' = [do |-> "send", copies |-> week.copies \cup week.unmatched]
    /\ UNCHANGED <<owner, text, retries, saved, req, sent, excused>>

\* A message that is refused is logged, and the job does not hear of it.
SendReport ==
    /\ week.do = "send"
    /\ \/ /\ sent' = sent \cup week.copies
          /\ UNCHANGED excused
       \/ /\ "slack" \in Faults
          /\ excused' = excused \cup RowsOf(week.copies)
          /\ UNCHANGED sent
    /\ week' = [do |-> "clean"]
    /\ UNCHANGED <<rowVars, saved, req>>

\* Everything that is reported by now is deleted, and the labels with it.
DeleteReported ==
    LET gone == With("reported") IN
    /\ week.do = "clean"
    /\ status' = Become(gone, "deleted")
    /\ text' = [r \in Rows |-> IF r \in gone THEN 0 ELSE text[r]]
    /\ retries' = [r \in Rows |-> IF r \in gone THEN 0 ELSE retries[r]]
    /\ saved' = saved \ gone /\ excused' = excused \ gone
    /\ sent' = {c \in sent : c[1] \notin gone}
    /\ week' = Idle
    /\ UNCHANGED <<owner, req>>

\* An error or a restart ends the job before it is done; what it has marked stays
\* marked.
WeekFails ==
    /\ "week" \in Faults
    /\ week # Idle /\ (week.do = "clean" => With("reported") # {})
    /\ week' = Idle
    /\ excused' = excused \cup {r \in With("reported") : <<r, text[r]>> \notin sent}
    /\ UNCHANGED <<rowVars, saved, req, sent>>

-----------------------------------------------------------------------------

Member ==
    \/ \E r \in Rows, u \in Users :
          SubmitNew(r, u) \/ SubmitUnembedded(r, u) \/ SubmitSimilar(r, u)
    \/ \E r \in Rows : ApprovePending(r)
    \/ \E h \in Handlers, r \in Rows : ReadEdit(h, r)

Storing == \E h \in Handlers : WriteEdit(h)

Retrying ==
    \/ \E S \in SUBSET Rows : RetryFailedEmbeddings(S)
    \/ RetryClusteringFailed

Reporting ==
    \/ StartEmpty \/ StartDirect \/ StartPreview \/ StartClustering
    \/ \E noise \in SUBSET Rows : StoreClusters(noise)
    \/ ReadClustered \/ MarkReported \/ SendReport \/ DeleteReported

Next ==
    \/ Member \/ Storing
    \/ \E r \in Rows : CleanupStale(r)
    \/ Retrying \/ Reporting \/ StoreFailure \/ WeekFails

Spec == Init /\ [][Next]_vars

\* The jobs run again and again, and their faults come to an end.
FairSpec ==
    /\ Spec
    /\ WF_vars(Storing) /\ WF_vars(Retrying) /\ WF_vars(Reporting)
    /\ <>[][~(StoreFailure \/ WeekFails)]_vars

-----------------------------------------------------------------------------
(* Properties                                                               *)

\* A request that its member was told is saved is in the table until a report
\* that reached the admins has counted the text it holds.  Only a failed week or
\* message, an edit in the middle of the job, and the report of a week without
\* any cluster are an excuse.
NothingLost ==
    [][\A r \in saved : status[r] # "deleted" /\ status'[r] = "deleted"
                        => <<r, text[r]>> \in sent \/ r \in excused]_vars

\* No text is counted in two reports.
ReportedOnce ==
    week.do = "send" => week.copies \cap sent = {}

\* Every request is reported and deleted in the end, unless as many are waiting
\* as are only previewed.
Waiting == Cardinality(With("embedded")) \in DirectMax + 1 .. HdbscanMin - 1

EveryRequestEnds ==
    \A r \in Rows :
        status[r] \notin {"none", "pending_bypass", "deleted"}
            ~> status[r] = "deleted" \/ Waiting
=============================================================================
