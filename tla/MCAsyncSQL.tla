----------------------------- MODULE MCAsyncSQL -----------------------------
(* AsyncSQL for TLC, with a claim of its log texts that does not hold.       *)
EXTENDS AsyncSQL

\* "AsyncSQL: retrying" (AsyncSQL.cpp:409): while the owner runs, a statement
\* whose attempt failed with one of the errors of the switch is sent again.
RetriedIsFinished ==
    \A i \in 1 .. MaxMsg :
        (i <= m_iMsgCount) ~>
            \/ owner # "run"
            \/ \E k \in DOMAIN finished : finished[k].iID = i
=============================================================================
