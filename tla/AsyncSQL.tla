------------------------------ MODULE AsyncSQL ------------------------------
(***************************************************************************)
(* libsql/AsyncSQL.{h,cpp}, libsql/Semaphore.cpp: one CAsyncSQL object with *)
(* its worker thread.                                                      *)
(*                                                                         *)
(* The owner (the main thread of the db or game process) pushes statements *)
(* on m_queue_query, takes answers from m_queue_result and finally calls   *)
(* Quit, which joins the worker.  The worker waits on the semaphore, moves *)
(* m_queue_query to its private m_queue_query_copy and executes the copy   *)
(* one statement at a time.  A statement that fails with one of the errors *)
(* in the switch of ChildLoop (connection refused, server gone, crashed    *)
(* table ...) stays at the head of its queue; every other failure consumes *)
(* it.                                                                     *)
(*                                                                         *)
(* A step under m_mtxQuery or m_mtxResult is one action.  The MySQL server *)
(* is not modelled: each attempt succeeds, fails for good or fails with a  *)
(* retryable error, at most MaxRetry of the last kind, and may leave the   *)
(* handle reconnected (MYSQL_OPT_RECONNECT).  The statistics counters      *)
(* m_iQueryFinished and m_iCopiedQuery are left out.                       *)
(***************************************************************************)
EXTENDS Naturals, Sequences

CONSTANTS
    MaxMsg,         \* bound: statements the owner submits
    MaxRetry,       \* bound: attempts that fail with a retryable error
    SemMax,         \* the largest semaphore count (32 in the Windows build)
    ConnectFails,   \* BOOLEAN: the worker's Connect may fail
    Stops           \* how an owner stops: "drain" is the db process, whose
                    \* main() waits for CountQuery() = 0 before Quit, "quit"
                    \* a destructor, which does not wait

ASSUME ConstantsAssumption ==
    /\ MaxMsg \in Nat
    /\ MaxRetry \in Nat
    /\ SemMax \in Nat \ {0}
    /\ ConnectFails \in BOOLEAN
    /\ Stops \subseteq {"drain", "quit"}

VARIABLES
    m_iMsgCount,            \* statements submitted so far: the last iID
    m_queue_query,          \* pushed by the owner, guarded by m_mtxQuery
    m_queue_query_copy,     \* private to the worker
    m_queue_result,         \* answers, guarded by m_mtxResult
    m_sem,                  \* the semaphore's count
    m_bEnd,
    owner,                  \* control of the owner
    worker,                 \* control of the worker
    count,                  \* ChildLoop's local: attempts left in this batch
    p,                      \* ChildLoop's local: <<>> or <<the statement sent>>
    ok,                     \* the last mysql_real_query returned 0
    reconnected,            \* m_ulThreadID # mysql_thread_id(&m_hDB)
    errno,                  \* iIDs of the statements whose uiSQLErrno # 0
    executed,               \* history: statements the database executed
    finished,               \* history: statements the worker consumed, in order
    delivered,              \* history: answers the owner took, in order
    retries                 \* history: attempts that failed with a retryable error

ownerVars  == <<m_iMsgCount, owner, delivered>>
queueVars  == <<m_queue_query, m_sem, m_bEnd>>
batchVars  == <<m_queue_query_copy, count>>
handleVars == <<p, ok, reconnected, errno, executed, retries>>
vars == <<ownerVars, queueVars, batchVars, handleVars, worker,
          m_queue_result, finished>>

Msg    == [iID : 1 .. MaxMsg, bReturn : BOOLEAN]
Answer == [iID : 1 .. MaxMsg, rows : BOOLEAN, errno : BOOLEAN]

OwnerPC  == {"run", "drain", "quit", "release", "join", "gone"}
WorkerPC == {"connect", "test", "wait", "copy", "batch", "pop",
             "flush", "popflush", "end", "dead"}

-----------------------------------------------------------------------------
(***************************************************************************)
(* Faulty variants: what a slip in Semaphore.cpp or AsyncSQL.cpp would make *)
(* of the operator named in each comment.  No specification uses them; the *)
(* properties below are tested by putting one in its operator's place.     *)
(***************************************************************************)

\* Release without a maximum.
ReleaseUnbounded == m_sem' = m_sem + 1

\* PushQuery forgets m_sem.Release().
ReleaseNothing == UNCHANGED m_sem

\* Drained: main() also waits for the answers, which nobody takes any more.
DrainedOfAnswers ==
    /\ owner = "drain"
    /\ m_queue_query = <<>> /\ m_queue_result = <<>>
    /\ owner' = "quit"
    /\ UNCHANGED <<m_iMsgCount, delivered, queueVars, batchVars, handleVars,
                   worker, m_queue_result, finished>>

\* QuitRelease: Quit sets m_bEnd and joins without waking the worker.
QuitSilently ==
    /\ owner = "release"
    /\ owner' = "join"
    /\ UNCHANGED <<m_iMsgCount, delivered, queueVars, batchVars, handleVars,
                   worker, m_queue_result, finished>>

\* CopyQuery assigns the queue to the copy instead of appending it.
CopyOverwrites ==
    /\ worker = "copy"
    /\ worker' = IF m_queue_query = <<>> THEN "test" ELSE "batch"
    /\ IF m_queue_query = <<>>
         THEN UNCHANGED batchVars
         ELSE m_queue_query_copy' = m_queue_query /\ count' = Len(m_queue_query)
    /\ m_queue_query' = <<>>
    /\ UNCHANGED <<ownerVars, m_sem, m_bEnd, handleVars, m_queue_result,
                   finished>>

\* CopyQuery puts the new statements in front of those left in the copy.
CopyPrepends ==
    /\ worker = "copy"
    /\ worker' = IF m_queue_query = <<>> THEN "test" ELSE "batch"
    /\ IF m_queue_query = <<>>
         THEN UNCHANGED batchVars
         ELSE /\ m_queue_query_copy' = m_queue_query \o m_queue_query_copy
              /\ count' = Len(m_queue_query_copy) + Len(m_queue_query)
    /\ m_queue_query' = <<>>
    /\ UNCHANGED <<ownerVars, m_sem, m_bEnd, handleVars, m_queue_result,
                   finished>>

\* BatchDone: the batch is left as soon as m_bEnd is set.
BatchCutShort ==
    /\ worker = "batch"
    /\ count = 0 \/ m_bEnd
    /\ worker' = "test"
    /\ UNCHANGED <<ownerVars, queueVars, batchVars, handleVars,
                   m_queue_result, finished>>

\* BatchDone: the batch's last attempt is skipped (--count for count--).
BatchOneShort ==
    /\ worker = "batch"
    /\ count <= 1
    /\ worker' = "test"
    /\ UNCHANGED <<ownerVars, queueVars, batchVars, handleVars,
                   m_queue_result, finished>>

\* FailsRetryably: CR_SERVER_LOST among the errors of the switch, so that a
\* statement is sent again that the server may have executed.
RetriesExecuted(m) ==
    /\ retries < MaxRetry
    /\ retries' = retries + 1
    /\ ok' = FALSE
    /\ errno' = errno \cup {m.iID}
    /\ executed' \in {executed, Append(executed, m)}

\* Complete: Store and PushResult for every statement.
CompleteWithAnswer(m) ==
    /\ finished' = Append(finished, m)
    /\ m_queue_result' = Append(m_queue_result,
          [iID |-> m.iID, rows |-> ok, errno |-> m.iID \in errno])
    /\ p' = <<>>

-----------------------------------------------------------------------------
(* CSemaphore                                                              *)

\* At its maximum the count stays (ReleaseSemaphore and sem_post then fail,
\* and Release ignores it).
Release == m_sem' = IF m_sem < SemMax THEN m_sem + 1 ELSE m_sem

-----------------------------------------------------------------------------
(* The owner                                                               *)

\* AsyncQuery (r = FALSE) and ReturnQuery (r = TRUE), through PushQuery.
Query(r) ==
    /\ owner = "run"
    /\ m_iMsgCount < MaxMsg
    /\ m_iMsgCount' = m_iMsgCount + 1
    /\ m_queue_query' = Append(m_queue_query,
                               [iID |-> m_iMsgCount + 1, bReturn |-> r])
    /\ Release
    /\ UNCHANGED <<m_bEnd, owner, delivered, batchVars, handleVars, worker,
                   m_queue_result, finished>>

PopResult ==
    /\ owner = "run"
    /\ m_queue_result # <<>>
    /\ delivered' = Append(delivered, Head(m_queue_result))
    /\ m_queue_result' = Tail(m_queue_result)
    /\ UNCHANGED <<m_iMsgCount, owner, queueVars, batchVars, handleVars,
                   worker, finished>>

\* The process leaves its main loop.
Stop ==
    /\ owner = "run"
    /\ owner' \in Stops
    /\ UNCHANGED <<m_iMsgCount, delivered, queueVars, batchVars, handleVars,
                   worker, m_queue_result, finished>>

\* main()'s loop over CountQuery().  The size is read without m_mtxQuery: a
\* read that races with CopyQuery may already see an empty queue.
Drained ==
    /\ owner = "drain"
    /\ m_queue_query = <<>> \/ worker = "copy"
    /\ owner' = "quit"
    /\ UNCHANGED <<m_iMsgCount, delivered, queueVars, batchVars, handleVars,
                   worker, m_queue_result, finished>>

\* main() sleeps and counts again.
DrainWait ==
    /\ owner = "drain"
    /\ m_queue_query # <<>>
    /\ UNCHANGED vars

QuitSetEnd ==
    /\ owner = "quit"
    /\ m_bEnd' = TRUE
    /\ owner' = "release"
    /\ UNCHANGED <<m_iMsgCount, delivered, m_queue_query, m_sem, batchVars,
                   handleVars, worker, m_queue_result, finished>>

QuitRelease ==
    /\ owner = "release"
    /\ Release
    /\ owner' = "join"
    /\ UNCHANGED <<m_iMsgCount, delivered, m_queue_query, m_bEnd, batchVars,
                   handleVars, worker, m_queue_result, finished>>

QuitJoin ==
    /\ owner = "join"
    /\ worker \in {"end", "dead"}
    /\ owner' = "gone"
    /\ UNCHANGED <<m_iMsgCount, delivered, queueVars, batchVars, handleVars,
                   worker, m_queue_result, finished>>

-----------------------------------------------------------------------------
(* The worker: AsyncSQLThread and ChildLoop                                *)

Goto(pc) == worker' = pc

Connect ==
    /\ worker = "connect"
    /\ \/ Goto("test")
       \/ ConnectFails /\ Goto("dead")
    /\ UNCHANGED <<ownerVars, queueVars, batchVars, handleVars,
                   m_queue_result, finished>>

TestEnd ==
    /\ worker = "test"
    /\ Goto(IF m_bEnd THEN "flush" ELSE "wait")
    /\ UNCHANGED <<ownerVars, queueVars, batchVars, handleVars,
                   m_queue_result, finished>>

Wait ==
    /\ worker = "wait"
    /\ m_sem > 0
    /\ m_sem' = m_sem - 1
    /\ Goto("copy")
    /\ UNCHANGED <<ownerVars, m_queue_query, m_bEnd, batchVars, handleVars,
                   m_queue_result, finished>>

\* An empty m_queue_query returns -1, whatever the copy still holds.
CopyQuery ==
    /\ worker = "copy"
    /\ IF m_queue_query = <<>>
         THEN /\ Goto("test")
              /\ UNCHANGED <<m_queue_query, batchVars>>
         ELSE /\ Goto("batch")
              /\ m_queue_query_copy' = m_queue_query_copy \o m_queue_query
              /\ m_queue_query' = <<>>
              /\ count' = Len(m_queue_query_copy) + Len(m_queue_query)
    /\ UNCHANGED <<ownerVars, m_sem, m_bEnd, handleVars, m_queue_result,
                   finished>>

BatchDone ==
    /\ worker = "batch"
    /\ count = 0
    /\ Goto("test")
    /\ UNCHANGED <<ownerVars, queueVars, batchVars, handleVars,
                   m_queue_result, finished>>

\* The handle was reconnected: the worker repeats QueryLocaleSet until it
\* succeeds before it sends the next statement.
SetLocale ==
    /\ reconnected
    /\ \/ worker = "batch" /\ count > 0
       \/ worker = "flush" /\ m_queue_query # <<>>
    /\ reconnected' = FALSE
    /\ UNCHANGED <<ownerVars, queueVars, batchVars, p, ok, errno, executed,
                   retries, worker, m_queue_result, finished>>

\* mysql_real_query(m) returns 0.
Succeeds(m) ==
    /\ ok' = TRUE
    /\ executed' = Append(executed, m)
    /\ UNCHANGED errno

\* It fails with an errno outside the switch: a refused statement, or a
\* connection lost before or after the server executed it.
FailsForGood(m) ==
    /\ ok' = FALSE
    /\ executed' \in {executed, Append(executed, m)}
    /\ errno' = errno \cup {m.iID}

\* It fails with an errno of the switch; the statement was not executed.
FailsRetryably(m) ==
    /\ retries < MaxRetry
    /\ retries' = retries + 1
    /\ ok' = FALSE
    /\ errno' = errno \cup {m.iID}
    /\ UNCHANGED executed

\* The head of the copy is sent: the copy outlasts the batch's attempts (BatchInv
\* of AsyncSQL_proofs), so there is one.  A retryable failure uses up one of
\* them, releases the semaphore and leaves the statement there.
Send ==
    /\ worker = "batch"
    /\ count > 0
    /\ ~reconnected
    /\ count' = count - 1
    /\ reconnected' \in BOOLEAN
    /\ LET m == Head(m_queue_query_copy) IN
         \/ /\ Succeeds(m) \/ FailsForGood(m)
            /\ p' = <<m>>
            /\ Goto("pop")
            /\ UNCHANGED <<retries, m_sem>>
         \/ /\ FailsRetryably(m)
            /\ Release
            /\ UNCHANGED <<p, worker>>
    /\ UNCHANGED <<ownerVars, m_queue_query, m_bEnd, m_queue_query_copy,
                   m_queue_result, finished>>

\* Store and PushResult for a ReturnQuery; an AsyncQuery is deleted.
Complete(m) ==
    /\ finished' = Append(finished, m)
    /\ m_queue_result' =
         IF m.bReturn
           THEN Append(m_queue_result,
                       [iID |-> m.iID, rows |-> ok, errno |-> m.iID \in errno])
           ELSE m_queue_result
    /\ p' = <<>>

PopQueryFromCopyQueue ==
    /\ worker = "pop"
    /\ m_queue_query_copy' = Tail(m_queue_query_copy)
    /\ Complete(Head(p))
    /\ Goto("batch")
    /\ UNCHANGED <<ownerVars, queueVars, count, ok, reconnected, errno,
                   executed, retries>>

\* After the loop: what is left on m_queue_query is sent, without the copy
\* and without an end to the retries.
FlushSend ==
    /\ worker = "flush"
    /\ m_queue_query # <<>>
    /\ ~reconnected
    /\ reconnected' \in BOOLEAN
    /\ LET m == Head(m_queue_query) IN
         \/ /\ Succeeds(m) \/ FailsForGood(m)
            /\ p' = <<m>>
            /\ Goto("popflush")
            /\ UNCHANGED retries
         \/ /\ FailsRetryably(m)
            /\ UNCHANGED <<p, worker>>
    /\ UNCHANGED <<ownerVars, queueVars, batchVars, m_queue_result, finished>>

PopQuery ==
    /\ worker = "popflush"
    /\ m_queue_query' = Tail(m_queue_query)
    /\ Complete(Head(p))
    /\ Goto("flush")
    /\ UNCHANGED <<ownerVars, m_sem, m_bEnd, batchVars, ok, reconnected,
                   errno, executed, retries>>

FlushDone ==
    /\ worker = "flush"
    /\ m_queue_query = <<>>
    /\ Goto("end")
    /\ UNCHANGED <<ownerVars, queueVars, batchVars, handleVars,
                   m_queue_result, finished>>

-----------------------------------------------------------------------------

Init ==
    /\ m_iMsgCount = 0
    /\ m_queue_query = <<>>
    /\ m_queue_query_copy = <<>>
    /\ m_queue_result = <<>>
    /\ m_sem = 0
    /\ m_bEnd = FALSE
    /\ owner = "run"
    /\ worker = "connect"
    /\ count = 0
    /\ p = <<>>
    /\ ok = FALSE
    /\ reconnected = FALSE
    /\ errno = {}
    /\ executed = <<>>
    /\ finished = <<>>
    /\ delivered = <<>>
    /\ retries = 0

Quit == QuitSetEnd \/ QuitRelease \/ QuitJoin

OwnerStep ==
    \/ \E r \in BOOLEAN : Query(r)
    \/ PopResult
    \/ Stop
    \/ Drained
    \/ DrainWait
    \/ Quit

WorkerStep ==
    \/ Connect
    \/ TestEnd
    \/ Wait
    \/ CopyQuery
    \/ BatchDone
    \/ SetLocale
    \/ Send
    \/ PopQueryFromCopyQueue
    \/ FlushSend
    \/ PopQuery
    \/ FlushDone

\* The process has left Quit.
Gone == owner = "gone" /\ UNCHANGED vars

Next == OwnerStep \/ WorkerStep \/ Gone

Spec == Init /\ [][Next]_vars

\* The operating system runs both threads; a stopping owner goes on; nobody
\* promises that the owner submits, takes an answer or stops.
FairSpec ==
    /\ Spec
    /\ WF_vars(WorkerStep)
    /\ WF_vars(Drained \/ Quit)

-----------------------------------------------------------------------------
(* What must hold                                                          *)

IDs(s) == [i \in DOMAIN s |-> s[i].iID]

Increasing(s) == \A i, j \in DOMAIN s : i < j => s[i].iID < s[j].iID

TypeOK ==
    /\ m_iMsgCount \in 0 .. MaxMsg
    /\ m_queue_query \in Seq(Msg)
    /\ m_queue_query_copy \in Seq(Msg)
    /\ m_queue_result \in Seq(Answer)
    /\ m_sem \in 0 .. SemMax
    /\ m_bEnd \in BOOLEAN
    /\ owner \in OwnerPC
    /\ worker \in WorkerPC
    /\ count \in Nat
    /\ p = <<>> \/ \E m \in Msg : p = <<m>>
    /\ ok \in BOOLEAN
    /\ reconnected \in BOOLEAN
    /\ errno \subseteq 1 .. MaxMsg
    /\ executed \in Seq(Msg)
    /\ finished \in Seq(Msg)
    /\ delivered \in Seq(Answer)
    /\ retries \in 0 .. MaxRetry

\* The database executes the statements of one connection in the order they
\* were submitted and none of them twice, whatever fails, is retried, is moved
\* between the two queues or is flushed at the end.
InOrderOnce == Increasing(executed)

\* Every ReturnQuery the worker consumed has exactly one answer, delivered or
\* waiting, in the order of submission; an AsyncQuery has none.
OneAnswerEach ==
    LET answers == delivered \o m_queue_result
        asked == {i \in DOMAIN finished : finished[i].bReturn}
    IN  /\ Increasing(answers)
        /\ {answers[i].iID : i \in DOMAIN answers} = {finished[i].iID : i \in asked}

\* Until the worker leaves its loop no statement is lost: those consumed, those
\* in the copy and those queued are all the statements ever submitted, and the
\* concatenation is their order.
NothingLostWhileRunning ==
    worker \notin {"flush", "popflush", "end"} =>
        IDs(finished \o m_queue_query_copy \o m_queue_query)
            = [i \in 1 .. m_iMsgCount |-> i]

\* PushQuery and Quit release the semaphore after they change what the worker
\* looks at, so the worker is never asleep while there is something to do.
NoLostWakeup ==
    worker = "wait" /\ (m_queue_query # <<>> \/ owner \in {"join", "gone"})
        => m_sem > 0

\* The statements that Quit leaves unexecuted are at most as many as the
\* attempts that failed with a retryable error; with none, Quit loses nothing.
LossBoundedByRetries ==
    owner = "gone" /\ worker = "end"
        => m_iMsgCount - Len(finished) <= retries

\* Quit returns: the worker sees m_bEnd and leaves, and the flush ends once the
\* attempts stop failing.
QuitReturns == owner = "quit" ~> owner = "gone"

\* main() stops waiting for the queries, unless a worker never connected.
DrainEnds == owner = "drain" ~> owner = "quit" \/ worker = "dead"

\* Every statement leaves m_queue_query, and is consumed unless an attempt
\* failed retryably or the worker never connected.
QueryIsTaken ==
    \A i \in 1 .. MaxMsg :
        (i <= m_iMsgCount) ~>
            \/ worker = "dead"
            \/ \A k \in DOMAIN m_queue_query : m_queue_query[k].iID # i
QueryIsFinished ==
    \A i \in 1 .. MaxMsg :
        (i <= m_iMsgCount) ~>
            \/ worker = "dead"
            \/ retries > 0
            \/ \E k \in DOMAIN finished : finished[k].iID = i

-----------------------------------------------------------------------------
(* AsyncSQL implements SqlChannel.  The copy is waiting in front of the    *)
(* queue until the worker leaves its loop with m_bEnd set, and is abandoned *)
(* there.                                                                  *)

Waiting ==
    CASE worker = "pop"             -> Tail(m_queue_query_copy) \o m_queue_query
      [] worker = "popflush"        -> Tail(m_queue_query)
      [] worker \in {"flush", "end"} -> m_queue_query
      [] OTHER                      -> m_queue_query_copy \o m_queue_query

Channel == INSTANCE SqlChannel WITH
    Statement <- Msg,
    pending   <- Waiting,
    running   <- p,
    applied   <- executed,
    answers   <- [i \in DOMAIN m_queue_result |->
                    [iID |-> m_queue_result[i].iID, bReturn |-> TRUE]],
    closed    <- m_bEnd

\* The two-thread object behaves as the sequential channel of its interface.
ImplementsChannel == Channel!Spec
=============================================================================
