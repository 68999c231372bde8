-------------------------------- MODULE Summary --------------------------------
(***************************************************************************)
(* /channel-summary: one request of one user from the buttons to the       *)
(* answer.  The thread that handles a press lists the channels, reads      *)
(* their history page by page, adds the replies of threads, cuts the lines *)
(* into chunks the model takes, has each summarised and the summaries      *)
(* joined, and answers once.  Requests share nothing but a cache of names. *)
(*                                                                         *)
(* A message is a member of Items, and a line of text is its length.       *)
(***************************************************************************)
EXTENDS Integers, FiniteSets, SequencesExt

CONSTANTS
    Channels,      \* the channels the user is a member of
    Home,          \* the channel the command is given in
    Items,         \* messages
    Histories,     \* what a channel may hold, newest first
    Age,           \* Age[i]: the hours since message i
    Size,          \* Size[i]: the characters of its line
    Noise,         \* messages of a skipped type, without author or text, or too short
    Replies,       \* Replies[i]: the replies in the thread of i, oldest first
    Mine, Asks,    \* messages by the user, messages that mention the user
    Asked,         \* the numbers given to the command
    MaxHours, DefaultHours,
    PageSize,      \* _MAX_PER_PAGE
    MaxMessages,   \* max_messages, by scope
    MaxThreads,    \* summary_max_threads_per_channel and _all
    MaxReplies,    \* summary_max_replies_per_thread and _all
    MaxTokens, Reserved, CharsPerToken,
    MayFail        \* the calls that may fail

ASSUME SummaryAssumption ==
    /\ Home \in Channels /\ IsFiniteSet(Channels)
    /\ Histories \subseteq Seq(Items)
    /\ Age \in [Items -> Nat] /\ Size \in [Items -> Nat \ {0}]
    /\ Replies \in [Items -> Seq(Items)]
    /\ Noise \subseteq Items /\ Mine \subseteq Items /\ Asks \subseteq Items
    /\ Asked \subseteq Int
    /\ MaxHours \in Nat /\ DefaultHours \in 1..MaxHours
    /\ PageSize \in Nat \ {0}
    /\ CharsPerToken \in Nat /\ CharsPerToken >= 3
    /\ MaxTokens \in Nat /\ MaxTokens >= 2 /\ Reserved \in Nat
    /\ {MaxReplies["single"], MaxReplies["all"]} \subseteq Nat
    /\ {MaxMessages["single"], MaxMessages["all"]} \subseteq Nat \ {0}
    /\ MayFail \subseteq {"history", "replies", "list", "model", "answer"}

VARIABLES
    history,   \* what the channels hold
    buttons,   \* the choices that were offered, by scope and hours
    at,        \* where the thread is
    scope, hours,
    listed,    \* the channels it knows of
    left,      \* those it has not come to, the present one first
    read,      \* how much of the present history is read
    got,       \* the messages kept from it, newest first
    lines,     \* the lines to be summarised, oldest first
    chunks,    \* and the chunks they are cut into
    calls,     \* how many of them the model has summarised
    done,      \* the channels with a summary
    skipped,   \* the channels left out, by the reason that is counted
    personal,  \* the lines that concern the user
    verdict,   \* how the request ends
    reported,  \* what the administrators were told of its end
    unsent     \* history: the answer could not be posted

work == <<listed, left, read, got, lines, chunks, calls, done, skipped, personal>>
summaryVars == <<history, buttons, at, scope, hours, work, verdict, reported, unsent>>

Scopes == {"single", "all"}
Reasons == {"slack_rate_limited", "skipped_access", "skipped_other", "groq_overload"}
Stages == {"idle", "listing", "fetching", "expanding", "mapping", "reducing",
           "closing", "personal", "answering"}

SummaryTypeOK ==
    /\ history \in [Channels -> Histories]
    /\ buttons \subseteq Scopes \X (1..MaxHours)
    /\ at \in Stages /\ scope \in Scopes /\ hours \in 1..MaxHours
    /\ listed \in Seq(Channels) /\ left \in Seq(Channels)
    /\ read \in Nat /\ got \in Seq(Items) /\ Len(got) <= MaxMessages[scope]
    /\ lines \in Seq(Items) /\ personal \in Seq(Items)
    /\ chunks \in Seq(Seq(Items \X Nat)) /\ calls \in 0..Len(chunks)
    /\ done \subseteq Channels /\ skipped \in [Reasons -> SUBSET Channels]
    /\ {verdict, reported} \subseteq {"none", "ok", "empty", "fail"}
    /\ unsent \in BOOLEAN

-----------------------------------------------------------------------------
(* What is computed from the messages                                       *)

Smaller(a, b) == IF a <= b THEN a ELSE b

\* What of s is in S, in its order.
Only(s, S) == FoldLeft(LAMBDA kept, i : IF i \in S THEN Append(kept, i) ELSE kept, <<>>, s)

\* _parse_slack_channel_message keeps what is not noise.
Kept(s) == Only(s, Items \ Noise)

\* conversations_history since `oldest`.
Recent == {i \in Items : Age[i] <= hours}
Window(c) == Only(history[c], Recent)

IsReply(i) == \E r \in Items : i \in ToSet(Replies[r])

\* What conversations_replies gives within its limit, which the root is part of,
\* and what is left of it.
Below(i) ==
    LET recent == Only(Replies[i], Recent)
    IN  Kept(SubSeq(recent, 1, Smaller(MaxReplies[scope], Len(recent))))

\* One turn of _expand_roots_with_thread_replies; `failing` are the roots whose
\* replies cannot be read: they do not count as a thread.
NextRoot(acc, i, failing) ==
    IF IsReply(i) \/ Replies[i] = <<>> \/ i \in failing \/ acc.used >= MaxThreads[scope]
    THEN [acc EXCEPT !.lines = Append(@, i)]
    ELSE [lines |-> acc.lines \o <<i>> \o Below(i), used |-> acc.used + 1]

Expanded(roots, failing) ==
    FoldLeft(LAMBDA acc, i : NextRoot(acc, i, failing), [lines |-> <<>>, used |-> 0], roots).lines

\* filter_personal_messages: mentions, and replies in threads of the user.
Personal(s) ==
    Only(s, (Asks \cup UNION {ToSet(Replies[r]) : r \in ToSet(s) \cap Mine}) \ Mine)

Budget == IF MaxTokens > Reserved THEN MaxTokens - Reserved ELSE MaxTokens \div 2

Tokens(size) == IF size < CharsPerToken THEN 1 ELSE size \div CharsPerToken

\* Mutant: a line that is too long is not cut.
FittedWhole(i) == <<i, Size[i]>>

\* A line over the budget is cut to it, and "..." is added.
Fitted(i) ==
    IF Tokens(Size[i]) > Budget THEN <<i, Budget * CharsPerToken + 3>> ELSE <<i, Size[i]>>

\* Mutant: the line that does not fit is left out.
NextChunkDropping(acc, i) ==
    LET tokens == Smaller(Tokens(Size[i]), Budget) IN
    IF acc.tokens + tokens > Budget /\ acc.chunk # <<>>
    THEN [chunks |-> Append(acc.chunks, acc.chunk), chunk |-> <<>>, tokens |-> 0]
    ELSE [acc EXCEPT !.chunk = Append(@, Fitted(i)), !.tokens = @ + tokens]

\* One turn of the loop of chunk_messages.
NextChunk(acc, i) ==
    LET tokens == Smaller(Tokens(Size[i]), Budget) IN
    IF acc.tokens + tokens > Budget /\ acc.chunk # <<>>
    THEN [chunks |-> Append(acc.chunks, acc.chunk), chunk |-> <<Fitted(i)>>, tokens |-> tokens]
    ELSE [acc EXCEPT !.chunk = Append(@, Fitted(i)), !.tokens = @ + tokens]

AllChunks(s) == FoldLeft(NextChunk, [chunks |-> <<>>, chunk |-> <<>>, tokens |-> 0], s)

Chunks(s) ==
    LET acc == AllChunks(s)
    IN  IF acc.chunk = <<>> THEN acc.chunks ELSE Append(acc.chunks, acc.chunk)

-----------------------------------------------------------------------------
(* From the command to the channels                                         *)

\* A number is brought into the range; `all` always means the default.
Hours(n) == IF n < 1 THEN 1 ELSE Smaller(n, MaxHours)

Command(s, n) ==
    /\ buttons' = buttons \cup {<<s, IF s = "all" THEN DefaultHours ELSE Hours(n)>>}
    /\ UNCHANGED <<history, at, scope, hours, work, verdict, reported, unsent>>

\* One press at a time; the buttons stay.  Without a key of the model the
\* press is answered at once and nothing else happens.
Press(s, n) ==
    /\ at = "idle" /\ <<s, n>> \in buttons
    /\ scope' = s /\ hours' = n
    /\ at' = IF s = "all" THEN "listing" ELSE "fetching"
    /\ listed' = IF s = "all" THEN <<>> ELSE <<Home>>
    /\ left' = IF s = "all" THEN <<>> ELSE <<Home>>
    /\ read' = 0 /\ got' = <<>> /\ lines' = <<>> /\ chunks' = <<>> /\ calls' = 0
    /\ done' = {} /\ personal' = <<>>
    /\ skipped' = [r \in Reasons |-> {}]
    /\ verdict' = "none" /\ reported' = "none" /\ unsent' = FALSE
    /\ UNCHANGED <<history, buttons>>

\* The request is over but for its answer.
Conclude(status) == at' = "answering" /\ verdict' = status

\* get_user_channels: a page of the list ...
ListPage ==
    /\ at = "listing"
    /\ \E c \in Channels \ ToSet(listed) : listed' = Append(listed, c)
    /\ UNCHANGED <<history, buttons, at, scope, hours, left, read, got, lines, chunks, calls,
                   done, skipped, personal, verdict, reported, unsent>>

\* ... until the last one; an error ends the list as if it were complete.
ListDone ==
    /\ at = "listing"
    /\ ToSet(listed) = Channels \/ "list" \in MayFail
    /\ left' = listed
    /\ IF listed = <<>> THEN Conclude("empty") ELSE at' = "fetching" /\ UNCHANGED verdict
    /\ UNCHANGED <<history, buttons, scope, hours, listed, read, got, lines, chunks, calls,
                   done, skipped, personal, reported, unsent>>

\* Mutant: the channel is left out without being counted.
LeaveOutUncounted(reason) ==
    /\ UNCHANGED skipped
    /\ IF scope = "all" THEN at' = "closing" /\ UNCHANGED verdict ELSE Conclude("fail")

\* A channel that fails is counted and left out; a single one ends the request.
LeaveOut(reason) ==
    /\ skipped' = [skipped EXCEPT ![reason] = @ \cup {Head(left)}]
    /\ IF scope = "all" THEN at' = "closing" /\ UNCHANGED verdict ELSE Conclude("fail")

-----------------------------------------------------------------------------
(* One channel                                                              *)

\* How many messages are asked for: no more than would fill up what may be kept.
Page == Smaller(PageSize, MaxMessages[scope] - Len(got))

FetchPage ==
    /\ at = "fetching"
    /\ LET w    == Window(Head(left))
           next == Smaller(read + Page, Len(w))
       IN  /\ read' = next
           /\ got' = got \o Kept(SubSeq(w, read + 1, next))
           /\ at' = IF Len(got') < MaxMessages[scope] /\ next < Len(w)
                    THEN "fetching" ELSE "expanding"
    /\ UNCHANGED <<history, buttons, scope, hours, listed, left, lines, chunks, calls, done,
                   skipped, personal, verdict, reported, unsent>>

FetchFails(reason) ==
    /\ "history" \in MayFail
    /\ at = "fetching"
    /\ reason \in Reasons \ {"groq_overload"}
    /\ LeaveOut(reason)
    /\ UNCHANGED <<history, buttons, scope, hours, listed, left, read, got, lines, chunks,
                   calls, done, personal, reported, unsent>>

\* The replies are put below their roots; no line at all ends the channel.
Expand ==
    /\ at = "expanding"
    /\ \E failing \in IF "replies" \in MayFail THEN SUBSET ToSet(got) ELSE {{}} :
         lines' = Expanded(Reverse(got), failing)
    /\ personal' = personal \o Personal(lines')
    /\ chunks' = Chunks(lines') /\ calls' = 0
    /\ IF lines' # <<>> THEN at' = "mapping" /\ UNCHANGED verdict
       ELSE IF scope = "all" THEN at' = "closing" /\ UNCHANGED verdict
       ELSE Conclude("empty")
    /\ UNCHANGED <<history, buttons, scope, hours, listed, left, read, got, done, skipped,
                   reported, unsent>>

Summarised ==
    /\ done' = done \cup {Head(left)}
    /\ at' = IF scope = "all" THEN "closing" ELSE "personal"

SummarizeChunk ==
    /\ at = "mapping" /\ calls < Len(chunks)
    /\ calls' = calls + 1
    /\ IF calls' < Len(chunks) THEN UNCHANGED <<at, done>>
       ELSE IF Len(chunks) > 1 THEN at' = "reducing" /\ UNCHANGED done
       ELSE Summarised
    /\ UNCHANGED <<history, buttons, scope, hours, listed, left, read, got, lines, chunks,
                   skipped, personal, verdict, reported, unsent>>

Reduce ==
    /\ at = "reducing"
    /\ Summarised
    /\ UNCHANGED <<history, buttons, scope, hours, listed, left, read, got, lines, chunks,
                   calls, skipped, personal, verdict, reported, unsent>>

\* One call that fails fails the channel.
ModelFails(reason) ==
    /\ "model" \in MayFail
    /\ at \in {"mapping", "reducing"}
    /\ reason \in {"groq_overload", "skipped_other"}
    /\ LeaveOut(reason)
    /\ UNCHANGED <<history, buttons, scope, hours, listed, left, read, got, lines, chunks,
                   calls, done, personal, reported, unsent>>

-----------------------------------------------------------------------------
(* The end                                                                  *)

\* The next channel, or the sum of them.
NextChannel ==
    /\ at = "closing"
    /\ left' = Tail(left)
    /\ read' = 0 /\ got' = <<>> /\ lines' = <<>> /\ chunks' = <<>> /\ calls' = 0
    /\ IF left' # <<>> THEN at' = "fetching" /\ UNCHANGED verdict
       ELSE IF done # {} THEN at' = "personal" /\ UNCHANGED verdict
       ELSE IF skipped["slack_rate_limited"] \cup skipped["groq_overload"] # {}
       THEN Conclude("fail")
       ELSE Conclude("empty")
    /\ UNCHANGED <<history, buttons, scope, hours, listed, done, skipped, personal, reported,
                   unsent>>

\* The personal part is added when its calls succeed; an error leaves it out.
SummarizePersonal ==
    /\ at = "personal"
    /\ Conclude("ok")
    /\ UNCHANGED <<history, buttons, scope, hours, work, reported, unsent>>

\* The answer first, the administrators after it.
Answer ==
    /\ at = "answering"
    /\ at' = "idle" /\ reported' = verdict
    /\ UNCHANGED <<history, buttons, scope, hours, work, verdict, unsent>>

\* The post of the answer is not guarded: the thread ends there.
AnswerFails ==
    /\ "answer" \in MayFail
    /\ at = "answering"
    /\ at' = "idle" /\ unsent' = TRUE
    /\ UNCHANGED <<history, buttons, scope, hours, work, verdict, reported>>

SummaryInit ==
    /\ history \in [Channels -> Histories]
    /\ buttons = {} /\ at = "idle" /\ scope = "single" /\ hours = DefaultHours
    /\ listed = <<>> /\ left = <<>> /\ read = 0 /\ got = <<>> /\ lines = <<>>
    /\ chunks = <<>> /\ calls = 0 /\ done = {} /\ personal = <<>>
    /\ skipped = [r \in Reasons |-> {}]
    /\ verdict = "none" /\ reported = "none" /\ unsent = FALSE

Working ==
    \/ ListPage \/ ListDone \/ FetchPage \/ Expand \/ SummarizeChunk \/ Reduce
    \/ NextChannel \/ SummarizePersonal \/ Answer \/ AnswerFails
    \/ \E r \in Reasons : FetchFails(r) \/ ModelFails(r)

SummaryNext ==
    \/ Working
    \/ \E s \in Scopes, n \in Asked : Command(s, n)
    \/ \E b \in buttons : Press(b[1], b[2])

SummarySpec == SummaryInit /\ [][SummaryNext]_summaryVars

-----------------------------------------------------------------------------
(* Properties                                                               *)

Letters(chunk) == FoldLeft(LAMBDA n, line : n + line[2], 0, chunk)

\* With the line breaks between its lines.
Chars(chunk) == Letters(chunk) + Len(chunk) - 1

\* A chunk stays within the tokens the model takes, up to what the estimate
\* hides: the rest of each division, the line breaks and the three dots come to
\* CharsPerToken characters for each of its lines, not more.
ChunksFit ==
    \A k \in 1..Len(chunks) :
       /\ chunks[k] # <<>>
       /\ Chars(chunks[k]) <= (Budget + Len(chunks[k])) * CharsPerToken

Roots == {i \in Items : ~ IsReply(i)}

\* The messages whose lines are in the chunks.
Flat(cut) == FoldLeft(LAMBDA s, chunk : s \o [j \in DOMAIN chunk |-> chunk[j][1]], <<>>, cut)

\* Nothing is lost or changes places between the channel and the model: the
\* messages kept are the newest ones that are no noise, however the pages fell,
\* each of them has a line, and the chunks hold the lines in their order.
NothingLeftOut ==
    at \in {"mapping", "reducing"} =>
       LET newest == Kept(Window(Head(left))) IN
       /\ got = SubSeq(newest, 1, Smaller(MaxMessages[scope], Len(newest)))
       /\ Only(lines, Roots) = Reverse(Only(got, Roots))
       /\ Flat(chunks) = lines

\* Every channel that was listed is accounted for in the answer: it has its
\* summary, is counted under one reason, or had nothing to say; and the request
\* is called empty only when there was nothing, and no overload.
Accounted ==
    (at = "answering" /\ scope = "all") =>
       /\ \A c \in ToSet(listed) :
             \/ Cardinality({r \in Reasons : c \in skipped[r]}) = IF c \in done THEN 0 ELSE 1
             \/ c \notin done /\ Kept(Window(c)) = <<>>
       /\ verdict = "ok" <=> done # {}
       /\ verdict = "empty" => skipped["slack_rate_limited"] \cup skipped["groq_overload"] = {}

=============================================================================
