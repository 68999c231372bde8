------------------------------ MODULE MCSummary ------------------------------
(* An instance of Summary for TLC.                                           *)
EXTENDS Summary, TLC

\* A long message that mentions the user, a short one, an old one, a thread of
\* the user with two replies, the first of which also went to the channel.
TheItems == {"long", "short", "old", "noise", "root", "r1", "r2"}
TheHistories ==
    {<<>>, <<"noise">>, <<"old">>, <<"short", "noise", "long">>,
     <<"r1", "root">>, <<"noise", "noise", "short", "root">>,
     <<"root", "long", "short", "old">>}
TheAge == [i \in TheItems |-> IF i = "old" THEN 2 ELSE 1]
TheSize == [i \in TheItems |-> CASE i = "long" -> 14 [] i = "root" -> 5
                                 [] i = "short" -> 1 [] OTHER -> 4]
TheReplies == [i \in TheItems |-> IF i = "root" THEN <<"r1", "r2">> ELSE <<>>]
Limits == [s \in {"single", "all"} |-> IF s = "all" THEN 2 ELSE 3]
ThreadLimits == [s \in {"single", "all"} |-> 1]
ReplyLimits == [s \in {"single", "all"} |-> IF s = "all" THEN 1 ELSE 2]
=============================================================================
