---------------------------- MODULE MCMonthClose ----------------------------
(* Instances of MonthClose for TLC: two sessions, and the pairs of requests   *)
(* that share rows, or of which one decides by what the other changes.        *)
EXTENDS MonthClose

MCSoldIn == [x \in Sales |-> 1]

MCEarning == Entries

Pairs ==
    \* one sale: its posters, the retry and the scan
    {<<"sale", "sale">>, <<"sale", "retry">>, <<"sale", "scan">>, <<"retry", "scan">>}
    \* two writers: the sequence of numbers, one journal
    \cup {<<"sale", "draft">>, <<"reverse", "reverse">>, <<"redate", "post">>}
    \* a writer and those who move the month under it
    \cup {"sale", "retry", "draft", "redate", "post", "reverse"} \X {"close"}
    \cup {<<"sale", "reopen">>, <<"draft", "year">>, <<"sale", "year">>, <<"reverse", "year">>}
    \* two closers
    \cup {<<"close", "reopen">>, <<"lock", "reopen">>, <<"reopen", "year">>}

MCMeets == {[s \in Sessions |-> IF s = CHOOSE t \in Sessions : TRUE THEN p[1] ELSE p[2]] :
                p \in Pairs}
=============================================================================
