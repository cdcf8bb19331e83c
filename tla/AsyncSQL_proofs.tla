--------------------------- MODULE AsyncSQL_proofs ---------------------------
(***************************************************************************)
(* Theorems about AsyncSQL, for every number of statements and of failed   *)
(* attempts.  IInv is the inductive invariant; its conjuncts say which     *)
(* iIDs each queue holds, how long the copy may be at each point of the    *)
(* worker, and who holds the semaphore's token.                            *)
(***************************************************************************)
EXTENDS AsyncSQL, Integers, SequenceTheorems, TLAPS

Flushing == worker \in {"flush", "popflush", "end"}

\* m_bEnd is set by Quit only, and only then the worker leaves its loop.
EndInv ==
    /\ m_bEnd <=> owner \in {"release", "join", "gone"}
    /\ Flushing => m_bEnd
    /\ worker = "end" => m_queue_query = <<>>

\* p is the head of the queue the worker is sending from.
SendingInv ==
    /\ worker = "pop" => m_queue_query_copy # <<>> /\ p = <<Head(m_queue_query_copy)>>
    /\ worker = "popflush" => m_queue_query # <<>> /\ p = <<Head(m_queue_query)>>
    /\ worker \notin {"pop", "popflush"} => p = <<>>

\* The copy outlasts the batch's attempts, and by no more than the retries.
BatchInv ==
    LET left == CASE worker = "batch" -> count
                  [] worker = "pop"   -> count + 1
                  [] OTHER            -> 0
    IN  /\ left <= Len(m_queue_query_copy)
        /\ Len(m_queue_query_copy) - left <= retries

\* Nobody but the worker removes the token that announces a statement or Quit.
WakeInv ==
    /\ worker # "copy" /\ m_queue_query # <<>> => m_sem > 0
    /\ worker = "wait" /\ owner \in {"join", "gone"} => m_sem > 0

CountInv ==
    m_iMsgCount = Len(finished) + Len(m_queue_query_copy) + Len(m_queue_query)

\* The queues hold consecutive iIDs that end at the newest statement.
OrderInv ==
    /\ \A i \in 1 .. Len(m_queue_query) :
          m_queue_query[i].iID = m_iMsgCount - Len(m_queue_query) + i
    /\ ~Flushing =>
          \A i \in 1 .. Len(m_queue_query_copy) :
              m_queue_query_copy[i].iID = m_iMsgCount - Len(m_queue_query)
                                            - Len(m_queue_query_copy) + i

\* The newest iID that may have been executed.
Sent == m_iMsgCount - Len(m_queue_query)
          - (IF Flushing THEN 0 ELSE Len(m_queue_query_copy))
          + (IF worker \in {"pop", "popflush"} THEN 1 ELSE 0)

ExecutedInv ==
    /\ \A i \in 1 .. Len(executed) : executed[i].iID <= Sent
    /\ Increasing(executed)

IInv ==
    /\ TypeOK
    /\ EndInv
    /\ SendingInv
    /\ BatchInv
    /\ WakeInv
    /\ CountInv
    /\ OrderInv
    /\ ExecutedInv

-----------------------------------------------------------------------------

\* The queues and histories are sequences: length, elements and domain.
LEMMA SeqFacts ==
    ASSUME NEW S, NEW s \in Seq(S)
    PROVE  /\ Len(s) \in Nat
           /\ s = <<>> <=> Len(s) = 0
           /\ \A i \in 1 .. Len(s) : s[i] \in S
           /\ DOMAIN s = 1 .. Len(s)
OBVIOUS

\* push: PushQuery, PushResult and the histories.
LEMMA AppendFacts ==
    ASSUME NEW S, NEW s \in Seq(S), NEW e \in S
    PROVE  /\ Append(s, e) \in Seq(S)
           /\ Len(Append(s, e)) = Len(s) + 1
           /\ \A i \in 1 .. Len(s) : Append(s, e)[i] = s[i]
           /\ Append(s, e)[Len(s) + 1] = e
OBVIOUS

\* front and pop: PeekQuery, PopQuery, PopResult.
LEMMA TailFacts ==
    ASSUME NEW S, NEW s \in Seq(S), s # <<>>
    PROVE  /\ Tail(s) \in Seq(S)
           /\ Len(Tail(s)) = Len(s) - 1
           /\ \A i \in 1 .. Len(s) - 1 : Tail(s)[i] = s[i + 1]
           /\ Head(s) = s[1]
           /\ Head(s) \in S
OBVIOUS

\* CopyQuery appends one queue to the other.
LEMMA ConcatFacts ==
    ASSUME NEW S, NEW s \in Seq(S), NEW t \in Seq(S)
    PROVE  /\ s \o t \in Seq(S)
           /\ Len(s \o t) = Len(s) + Len(t)
           /\ \A i \in 1 .. Len(s) : (s \o t)[i] = s[i]
           /\ \A i \in 1 .. Len(t) : (s \o t)[Len(s) + i] = t[i]
OBVIOUS

-----------------------------------------------------------------------------
(* Every step preserves every conjunct.                                    *)

\* A new CAsyncSQL, its worker not yet connected, satisfies the invariant.
THEOREM InitIInv == Init => IInv
<1> SUFFICES ASSUME Init PROVE IInv
  OBVIOUS
<1> USE ConstantsAssumption DEF Init
<1>1. TypeOK
  <2>1. /\ m_iMsgCount \in 0 .. MaxMsg
        /\ m_sem \in 0 .. SemMax
        /\ retries \in 0 .. MaxRetry
    BY SMT
  <2>2. errno \subseteq 1 .. MaxMsg
    BY SMT
  <2>3. owner \in OwnerPC /\ worker \in WorkerPC
    BY DEF OwnerPC, WorkerPC
  <2>4. /\ m_queue_query \in Seq(Msg) /\ m_queue_query_copy \in Seq(Msg)
        /\ executed \in Seq(Msg) /\ finished \in Seq(Msg)
        /\ m_queue_result \in Seq(Answer) /\ delivered \in Seq(Answer)
    OBVIOUS
  <2> QED
    BY <2>1, <2>2, <2>3, <2>4 DEF TypeOK
<1>2. EndInv /\ SendingInv /\ BatchInv /\ WakeInv
  BY DEF EndInv, SendingInv, BatchInv, WakeInv, Flushing
<1>3. CountInv /\ OrderInv /\ ExecutedInv
  BY DEF CountInv, OrderInv, ExecutedInv, Flushing, Sent, Increasing
<1> QED
  BY <1>1, <1>2, <1>3 DEF IInv

\* The statement that is completed is one of Msg, and so is its answer.
LEMMA CompleteType ==
    ASSUME TypeOK, NEW m \in Msg, p = <<m>>, Complete(Head(p))
    PROVE  /\ finished' \in Seq(Msg)
           /\ m_queue_result' \in Seq(Answer)
           /\ p' = <<>>
           /\ Len(finished') = Len(finished) + 1
<1>1. Head(p) = m
  OBVIOUS
<1>2. finished \in Seq(Msg) /\ m_queue_result \in Seq(Answer) /\ ok \in BOOLEAN
  BY DEF TypeOK
<1>3. finished' = Append(finished, m) /\ p' = <<>>
  BY <1>1 DEF Complete
<1>4. m.iID \in 1 .. MaxMsg
  BY DEF Msg
<1> DEFINE bad == m.iID \in errno
           a == [iID |-> m.iID, rows |-> ok, errno |-> bad]
<1>5. a \in Answer
  <2>1. bad \in BOOLEAN
    OBVIOUS
  <2> HIDE DEF bad
  <2> QED
    BY <1>2, <1>4, <2>1 DEF Answer
<1>6. m_queue_result' = IF m.bReturn THEN Append(m_queue_result, a)
                                     ELSE m_queue_result
  BY <1>1 DEF Complete
<1> HIDE DEF a
<1> QED
  BY <1>2, <1>3, <1>5, <1>6, AppendFacts

\* The attempts of Send and FlushSend.
LEMMA AttemptType ==
    ASSUME TypeOK, NEW m \in Msg,
           \/ (Succeeds(m) \/ FailsForGood(m)) /\ UNCHANGED retries
           \/ FailsRetryably(m)
    PROVE  /\ ok' \in BOOLEAN
           /\ errno' \subseteq 1 .. MaxMsg
           /\ executed' \in Seq(Msg)
           /\ retries' \in 0 .. MaxRetry
<1>1. /\ executed \in Seq(Msg) /\ Append(executed, m) \in Seq(Msg)
      /\ errno \subseteq 1 .. MaxMsg /\ m.iID \in 1 .. MaxMsg
      /\ retries \in 0 .. MaxRetry
  BY AppendFacts DEF TypeOK, Msg
<1>2. CASE (Succeeds(m) \/ FailsForGood(m)) /\ UNCHANGED retries
  BY <1>1, <1>2 DEF Succeeds, FailsForGood
<1>3. CASE FailsRetryably(m)
  <2>1. retries' \in 0 .. MaxRetry
    BY <1>1, <1>3, ConstantsAssumption, SMT DEF FailsRetryably
  <2>2. errno' \subseteq 1 .. MaxMsg
    BY <1>1, <1>3 DEF FailsRetryably
  <2>3. executed' \in Seq(Msg) /\ ok' \in BOOLEAN
    BY <1>1, <1>3 DEF FailsRetryably
  <2> QED
    BY <2>1, <2>2, <2>3
<1> QED
  BY <1>2, <1>3

\* Release keeps the count within its maximum and leaves it positive.
LEMMA ReleaseType ==
    ASSUME m_sem \in 0 .. SemMax, Release
    PROVE  m_sem' \in 0 .. SemMax /\ m_sem' > 0
BY ConstantsAssumption DEF Release

\* What CopyQuery does to the two queues when there is something to move.
LEMMA CopyFacts ==
    ASSUME TypeOK, CopyQuery, m_queue_query # <<>>
    PROVE  /\ worker = "copy" /\ worker' = "batch"
           /\ m_queue_query' = <<>>
           /\ count' = Len(m_queue_query_copy) + Len(m_queue_query)
           /\ Len(m_queue_query_copy') = Len(m_queue_query_copy) + Len(m_queue_query)
           /\ \A i \in 1 .. Len(m_queue_query_copy) :
                 m_queue_query_copy'[i] = m_queue_query_copy[i]
           /\ \A i \in 1 .. Len(m_queue_query) :
                 m_queue_query_copy'[Len(m_queue_query_copy) + i] = m_queue_query[i]
           /\ UNCHANGED <<m_iMsgCount, finished, executed, retries>>
<1>1. m_queue_query \in Seq(Msg) /\ m_queue_query_copy \in Seq(Msg)
  BY DEF TypeOK
<1>2. m_queue_query_copy' = m_queue_query_copy \o m_queue_query
  BY DEF CopyQuery
<1> QED
  BY <1>1, <1>2, ConcatFacts DEF CopyQuery, Goto, ownerVars, handleVars

\* The iIDs of a history are numbers.
LEMMA IDType ==
    ASSUME NEW s \in Seq(Msg)
    PROVE  \A i \in 1 .. Len(s) : s[i].iID \in Nat
<1>1. \A i \in 1 .. Len(s) : s[i] \in Msg
  BY SeqFacts
<1> QED
  BY <1>1 DEF Msg

\* A history bounded by b stays so, and increasing, when b + 1 is appended.
LEMMA BoundedAppend ==
    ASSUME NEW s \in Seq(Msg), NEW b \in Int, NEW m \in Msg, m.iID = b + 1,
           \A i \in 1 .. Len(s) : s[i].iID <= b,
           Increasing(s),
           NEW t \in {s, Append(s, m)}
    PROVE  Increasing(t) /\ \A i \in 1 .. Len(t) : t[i].iID <= b + 1
<1>1. \A i \in 1 .. Len(s) : s[i].iID \in Nat
  BY IDType
<1>2. CASE t = s
  BY <1>1, <1>2
<1>3. CASE t = Append(s, m)
  <2>1. /\ Len(t) = Len(s) + 1 /\ Len(s) \in Nat /\ t[Len(s) + 1] = m
        /\ \A i \in 1 .. Len(s) : t[i] = s[i]
        /\ DOMAIN t = 1 .. Len(t) /\ DOMAIN s = 1 .. Len(s)
    BY <1>3, AppendFacts, SeqFacts
  <2>2. \A i \in 1 .. Len(t) : t[i].iID <= b + 1
    BY <1>1, <2>1
  <2>3. ASSUME NEW i \in 1 .. Len(t), NEW j \in 1 .. Len(t), i < j
        PROVE  t[i].iID < t[j].iID
    <3>1. i \in 1 .. Len(s) /\ t[i] = s[i]
      BY <2>1, <2>3
    <3>2. CASE j \in 1 .. Len(s)
      BY <2>1, <2>3, <3>1, <3>2 DEF Increasing
    <3>3. CASE j = Len(s) + 1
      BY <1>1, <2>1, <3>1, <3>3
    <3> QED
      BY <2>1, <3>2, <3>3
  <2> QED
    BY <2>1, <2>2, <2>3 DEF Increasing
<1> QED
  BY <1>2, <1>3

\* m_bEnd and the worker's control.
LEMMA StepEndInv == IInv /\ [Next]_vars => EndInv'
<1> SUFFICES ASSUME IInv, [Next]_vars PROVE EndInv'
  OBVIOUS
<1> USE DEF IInv, vars, ownerVars, queueVars, batchVars, handleVars, EndInv,
          Flushing
<1>1. ASSUME NEW r \in BOOLEAN, Query(r) PROVE EndInv'
  BY <1>1 DEF Query, Release
<1>2. CASE PopResult
  BY <1>2 DEF PopResult
<1>3. CASE Stop
  BY <1>3, ConstantsAssumption DEF Stop
<1>4. CASE Drained
  BY <1>4 DEF Drained
<1>5. CASE DrainWait
  BY <1>5 DEF DrainWait
<1>6. CASE QuitSetEnd
  BY <1>6 DEF QuitSetEnd
<1>7. CASE QuitRelease
  BY <1>7 DEF QuitRelease, Release
<1>8. CASE QuitJoin
  BY <1>8 DEF QuitJoin
<1>9. CASE Connect
  BY <1>9 DEF Connect, Goto
<1>10. CASE TestEnd
  BY <1>10 DEF TestEnd, Goto
<1>11. CASE Wait
  BY <1>11 DEF Wait, Goto
<1>12. CASE CopyQuery
  BY <1>12 DEF CopyQuery, Goto
<1>13. CASE BatchDone
  BY <1>13 DEF BatchDone, Goto
<1>14. CASE SetLocale
  BY <1>14 DEF SetLocale
<1>15. CASE Send
  BY <1>15 DEF Send, Goto, Release, Succeeds, FailsForGood, FailsRetryably
<1>16. CASE PopQueryFromCopyQueue
  BY <1>16 DEF PopQueryFromCopyQueue, Goto, Complete
<1>17. CASE FlushSend
  BY <1>17 DEF FlushSend, Goto, Succeeds, FailsForGood, FailsRetryably
<1>18. CASE PopQuery
  BY <1>18 DEF PopQuery, Goto, Complete
<1>19. CASE FlushDone
  BY <1>19 DEF FlushDone, Goto
<1>20. CASE Gone
  BY <1>20 DEF Gone
<1>21. CASE UNCHANGED vars
  BY <1>21 DEF vars
<1> QED
  BY <1>1, <1>2, <1>3, <1>4, <1>5, <1>6, <1>7, <1>8, <1>9, <1>10,
     <1>11, <1>12, <1>13, <1>14, <1>15, <1>16, <1>17, <1>18, <1>19, <1>20,
     <1>21
     DEF Next, OwnerStep, WorkerStep, Quit

\* p and the queue it was taken from.
LEMMA StepSendingInv == IInv /\ [Next]_vars => SendingInv'
<1> SUFFICES ASSUME IInv, [Next]_vars PROVE SendingInv'
  OBVIOUS
<1> USE DEF IInv, vars, ownerVars, queueVars, batchVars, handleVars, TypeOK,
          SendingInv, EndInv, BatchInv, Flushing
<1>1. ASSUME NEW r \in BOOLEAN, Query(r) PROVE SendingInv'
  BY <1>1 DEF Query, Release
<1>2. CASE PopResult
  BY <1>2 DEF PopResult
<1>3. CASE Stop
  BY <1>3, ConstantsAssumption DEF Stop
<1>4. CASE Drained
  BY <1>4 DEF Drained
<1>5. CASE DrainWait
  BY <1>5 DEF DrainWait
<1>6. CASE QuitSetEnd
  BY <1>6 DEF QuitSetEnd
<1>7. CASE QuitRelease
  BY <1>7 DEF QuitRelease, Release
<1>8. CASE QuitJoin
  BY <1>8 DEF QuitJoin
<1>9. CASE Connect
  BY <1>9 DEF Connect, Goto
<1>10. CASE TestEnd
  BY <1>10 DEF TestEnd, Goto
<1>11. CASE Wait
  BY <1>11 DEF Wait, Goto
<1>12. CASE CopyQuery
  BY <1>12 DEF CopyQuery, Goto
<1>13. CASE BatchDone
  BY <1>13 DEF BatchDone, Goto
<1>14. CASE SetLocale
  BY <1>14 DEF SetLocale
<1>15. CASE Send
  BY <1>15 DEF Send, Goto, Release, Succeeds, FailsForGood, FailsRetryably
<1>16. CASE PopQueryFromCopyQueue
  BY <1>16 DEF PopQueryFromCopyQueue, Goto, Complete
<1>17. CASE FlushSend
  BY <1>17 DEF FlushSend, Goto, Succeeds, FailsForGood, FailsRetryably
<1>18. CASE PopQuery
  BY <1>18 DEF PopQuery, Goto, Complete
<1>19. CASE FlushDone
  BY <1>19 DEF FlushDone, Goto
<1>20. CASE Gone
  BY <1>20 DEF Gone
<1>21. CASE UNCHANGED vars
  BY <1>21 DEF vars
<1> QED
  BY <1>1, <1>2, <1>3, <1>4, <1>5, <1>6, <1>7, <1>8, <1>9, <1>10,
     <1>11, <1>12, <1>13, <1>14, <1>15, <1>16, <1>17, <1>18, <1>19, <1>20,
     <1>21
     DEF Next, OwnerStep, WorkerStep, Quit

\* The semaphore's token.
LEMMA StepWakeInv == IInv /\ [Next]_vars => WakeInv'
<1> SUFFICES ASSUME IInv, [Next]_vars PROVE WakeInv'
  OBVIOUS
<1> USE ConstantsAssumption DEF IInv, vars, ownerVars, queueVars, batchVars,
          handleVars, TypeOK, WakeInv, EndInv, Flushing
<1>1. ASSUME NEW r \in BOOLEAN, Query(r) PROVE WakeInv'
  BY <1>1 DEF Query, Release
<1>2. CASE PopResult
  BY <1>2 DEF PopResult
<1>3. CASE Stop
  BY <1>3, ConstantsAssumption DEF Stop
<1>4. CASE Drained
  BY <1>4 DEF Drained
<1>5. CASE DrainWait
  BY <1>5 DEF DrainWait
<1>6. CASE QuitSetEnd
  BY <1>6 DEF QuitSetEnd
<1>7. CASE QuitRelease
  BY <1>7 DEF QuitRelease, Release
<1>8. CASE QuitJoin
  BY <1>8 DEF QuitJoin
<1>9. CASE Connect
  BY <1>9 DEF Connect, Goto
<1>10. CASE TestEnd
  BY <1>10 DEF TestEnd, Goto
<1>11. CASE Wait
  BY <1>11 DEF Wait, Goto
<1>12. CASE CopyQuery
  BY <1>12 DEF CopyQuery, Goto
<1>13. CASE BatchDone
  BY <1>13 DEF BatchDone, Goto
<1>14. CASE SetLocale
  BY <1>14 DEF SetLocale
<1>15. CASE Send
  BY <1>15 DEF Send, Goto, Release, Succeeds, FailsForGood, FailsRetryably
<1>16. CASE PopQueryFromCopyQueue
  BY <1>16 DEF PopQueryFromCopyQueue, Goto, Complete
<1>17. CASE FlushSend
  BY <1>17 DEF FlushSend, Goto, Succeeds, FailsForGood, FailsRetryably
<1>18. CASE PopQuery
  BY <1>18 DEF PopQuery, Goto, Complete
<1>19. CASE FlushDone
  BY <1>19 DEF FlushDone, Goto
<1>20. CASE Gone
  BY <1>20 DEF Gone
<1>21. CASE UNCHANGED vars
  BY <1>21 DEF vars
<1> QED
  BY <1>1, <1>2, <1>3, <1>4, <1>5, <1>6, <1>7, <1>8, <1>9, <1>10,
     <1>11, <1>12, <1>13, <1>14, <1>15, <1>16, <1>17, <1>18, <1>19, <1>20,
     <1>21
     DEF Next, OwnerStep, WorkerStep, Quit

\* The length of the copy.
LEMMA StepBatchInv == IInv /\ [Next]_vars => BatchInv'
<1> SUFFICES ASSUME IInv, [Next]_vars PROVE BatchInv'
  OBVIOUS
<1> USE DEF IInv, vars, ownerVars, queueVars, batchVars, handleVars, TypeOK,
          SendingInv, EndInv, BatchInv, Flushing
<1>1. ASSUME NEW r \in BOOLEAN, Query(r) PROVE BatchInv'
  BY <1>1 DEF Query, Release
<1>2. CASE PopResult
  BY <1>2 DEF PopResult
<1>3. CASE Stop
  BY <1>3, ConstantsAssumption DEF Stop
<1>4. CASE Drained
  BY <1>4 DEF Drained
<1>5. CASE DrainWait
  BY <1>5 DEF DrainWait
<1>6. CASE QuitSetEnd
  BY <1>6 DEF QuitSetEnd
<1>7. CASE QuitRelease
  BY <1>7 DEF QuitRelease, Release
<1>8. CASE QuitJoin
  BY <1>8 DEF QuitJoin
<1>9. CASE Connect
  BY <1>9 DEF Connect, Goto
<1>10. CASE TestEnd
  BY <1>10 DEF TestEnd, Goto
<1>11. CASE Wait
  BY <1>11 DEF Wait, Goto
<1>12. CASE CopyQuery
  BY <1>12 DEF CopyQuery, Goto
<1>13. CASE BatchDone
  BY <1>13 DEF BatchDone, Goto
<1>14. CASE SetLocale
  BY <1>14 DEF SetLocale
<1>15. CASE Send
  BY <1>15 DEF Send, Goto, Release, Succeeds, FailsForGood, FailsRetryably
<1>16. CASE PopQueryFromCopyQueue
  <2>1. /\ m_queue_query_copy # <<>> /\ m_queue_query_copy \in Seq(Msg)
        /\ m_queue_query_copy' = Tail(m_queue_query_copy)
        /\ worker = "pop" /\ worker' = "batch"
        /\ UNCHANGED <<count, retries>>
    BY <1>16 DEF PopQueryFromCopyQueue, Goto
  <2>2. Len(m_queue_query_copy') = Len(m_queue_query_copy) - 1
    BY <2>1, TailFacts
  <2> QED
    BY <2>1, <2>2
<1>17. CASE FlushSend
  BY <1>17 DEF FlushSend, Goto, Succeeds, FailsForGood, FailsRetryably
<1>18. CASE PopQuery
  BY <1>18 DEF PopQuery, Goto, Complete
<1>19. CASE FlushDone
  BY <1>19 DEF FlushDone, Goto
<1>20. CASE Gone
  BY <1>20 DEF Gone
<1>21. CASE UNCHANGED vars
  BY <1>21 DEF vars
<1> QED
  BY <1>1, <1>2, <1>3, <1>4, <1>5, <1>6, <1>7, <1>8, <1>9, <1>10,
     <1>11, <1>12, <1>13, <1>14, <1>15, <1>16, <1>17, <1>18, <1>19, <1>20,
     <1>21
     DEF Next, OwnerStep, WorkerStep, Quit

\* Consumed, copied and queued statements are all statements.
LEMMA StepCountInv == IInv /\ [Next]_vars => CountInv'
<1> SUFFICES ASSUME IInv, [Next]_vars PROVE CountInv'
  OBVIOUS
<1> USE DEF IInv, vars, ownerVars, queueVars, batchVars, handleVars, TypeOK,
          SendingInv, CountInv
<1>1. ASSUME NEW r \in BOOLEAN, Query(r) PROVE CountInv'
  BY <1>1 DEF Query, Release
<1>2. CASE PopResult
  BY <1>2 DEF PopResult
<1>3. CASE Stop
  BY <1>3, ConstantsAssumption DEF Stop
<1>4. CASE Drained
  BY <1>4 DEF Drained
<1>5. CASE DrainWait
  BY <1>5 DEF DrainWait
<1>6. CASE QuitSetEnd
  BY <1>6 DEF QuitSetEnd
<1>7. CASE QuitRelease
  BY <1>7 DEF QuitRelease, Release
<1>8. CASE QuitJoin
  BY <1>8 DEF QuitJoin
<1>9. CASE Connect
  BY <1>9 DEF Connect, Goto
<1>10. CASE TestEnd
  BY <1>10 DEF TestEnd, Goto
<1>11. CASE Wait
  BY <1>11 DEF Wait, Goto
<1>12. CASE CopyQuery
  <2>1. CASE m_queue_query = <<>>
    BY <1>12, <2>1 DEF CopyQuery
  <2>2. CASE m_queue_query # <<>>
    <3>1. /\ Len(m_queue_query_copy') = Len(m_queue_query_copy) + Len(m_queue_query)
          /\ Len(m_queue_query') = 0
          /\ UNCHANGED <<m_iMsgCount, finished>>
      BY <1>12, <2>2, CopyFacts
    <3>2. /\ Len(m_queue_query_copy) \in Nat /\ Len(m_queue_query) \in Nat
          /\ Len(finished) \in Nat
      BY SeqFacts
    <3> QED
      BY <3>1, <3>2
  <2> QED
    BY <2>1, <2>2
<1>13. CASE BatchDone
  BY <1>13 DEF BatchDone, Goto
<1>14. CASE SetLocale
  BY <1>14 DEF SetLocale
<1>15. CASE Send
  BY <1>15 DEF Send, Goto, Release, Succeeds, FailsForGood, FailsRetryably
<1>16. CASE PopQueryFromCopyQueue
  BY <1>16 DEF PopQueryFromCopyQueue, Goto, Complete
<1>17. CASE FlushSend
  BY <1>17 DEF FlushSend, Goto, Succeeds, FailsForGood, FailsRetryably
<1>18. CASE PopQuery
  BY <1>18 DEF PopQuery, Goto, Complete
<1>19. CASE FlushDone
  BY <1>19 DEF FlushDone, Goto
<1>20. CASE Gone
  BY <1>20 DEF Gone
<1>21. CASE UNCHANGED vars
  BY <1>21 DEF vars
<1> QED
  BY <1>1, <1>2, <1>3, <1>4, <1>5, <1>6, <1>7, <1>8, <1>9, <1>10,
     <1>11, <1>12, <1>13, <1>14, <1>15, <1>16, <1>17, <1>18, <1>19, <1>20,
     <1>21
     DEF Next, OwnerStep, WorkerStep, Quit

\* The iIDs in the two queues.
LEMMA StepOrderInv == IInv /\ [Next]_vars => OrderInv'
<1> SUFFICES ASSUME IInv, [Next]_vars PROVE OrderInv'
  OBVIOUS
<1> USE DEF IInv, vars, ownerVars, queueVars, batchVars, handleVars, TypeOK,
          SendingInv, EndInv, OrderInv, Flushing
<1>1. ASSUME NEW r \in BOOLEAN, Query(r) PROVE OrderInv'
  BY <1>1 DEF Query, Release
<1>2. CASE PopResult
  BY <1>2 DEF PopResult
<1>3. CASE Stop
  BY <1>3, ConstantsAssumption DEF Stop
<1>4. CASE Drained
  BY <1>4 DEF Drained
<1>5. CASE DrainWait
  BY <1>5 DEF DrainWait
<1>6. CASE QuitSetEnd
  BY <1>6 DEF QuitSetEnd
<1>7. CASE QuitRelease
  BY <1>7 DEF QuitRelease, Release
<1>8. CASE QuitJoin
  BY <1>8 DEF QuitJoin
<1>9. CASE Connect
  BY <1>9 DEF Connect, Goto
<1>10. CASE TestEnd
  BY <1>10 DEF TestEnd, Goto
<1>11. CASE Wait
  BY <1>11 DEF Wait, Goto
<1>12. CASE CopyQuery
  <2>1. CASE m_queue_query = <<>>
    BY <1>12, <2>1 DEF CopyQuery, Goto
  <2>2. CASE m_queue_query # <<>>
    <3> DEFINE a == Len(m_queue_query_copy)
               b == Len(m_queue_query)
    <3>1. /\ a \in Nat /\ b \in Nat /\ m_iMsgCount \in Nat
          /\ Len(m_queue_query_copy') = a + b
          /\ m_queue_query' = <<>> /\ m_iMsgCount' = m_iMsgCount
          /\ ~Flushing
      BY <1>12, <2>2, CopyFacts
    <3>2. ASSUME NEW i \in 1 .. a + b
          PROVE  m_queue_query_copy'[i].iID = m_iMsgCount - (a + b) + i
      <4>1. CASE i <= a
        BY <1>12, <2>2, <3>1, <4>1, CopyFacts
      <4>2. CASE i > a
        <5>1. i - a \in 1 .. b /\ a + (i - a) = i
          BY <3>1, <4>2
        <5>2. m_queue_query_copy'[i] = m_queue_query[i - a]
          BY <1>12, <2>2, <5>1, CopyFacts
        <5>3. m_queue_query[i - a].iID = m_iMsgCount - b + (i - a)
          BY <5>1
        <5> QED
          BY <3>1, <5>2, <5>3
      <4> QED
        BY <3>1, <4>1, <4>2
    <3> QED
      BY <3>1, <3>2
  <2> QED
    BY <2>1, <2>2
<1>13. CASE BatchDone
  BY <1>13 DEF BatchDone, Goto
<1>14. CASE SetLocale
  BY <1>14 DEF SetLocale
<1>15. CASE Send
  BY <1>15 DEF Send, Goto, Release, Succeeds, FailsForGood, FailsRetryably
<1>16. CASE PopQueryFromCopyQueue
  BY <1>16 DEF PopQueryFromCopyQueue, Goto, Complete
<1>17. CASE FlushSend
  BY <1>17 DEF FlushSend, Goto, Succeeds, FailsForGood, FailsRetryably
<1>18. CASE PopQuery
  BY <1>18 DEF PopQuery, Goto, Complete
<1>19. CASE FlushDone
  BY <1>19 DEF FlushDone, Goto
<1>20. CASE Gone
  BY <1>20 DEF Gone
<1>21. CASE UNCHANGED vars
  BY <1>21 DEF vars
<1> QED
  BY <1>1, <1>2, <1>3, <1>4, <1>5, <1>6, <1>7, <1>8, <1>9, <1>10,
     <1>11, <1>12, <1>13, <1>14, <1>15, <1>16, <1>17, <1>18, <1>19, <1>20,
     <1>21
     DEF Next, OwnerStep, WorkerStep, Quit

\* The iIDs that were executed.
LEMMA StepExecutedInv == IInv /\ [Next]_vars => ExecutedInv'
<1> SUFFICES ASSUME IInv, [Next]_vars PROVE ExecutedInv'
  OBVIOUS
<1> USE DEF IInv, vars, ownerVars, queueVars, batchVars, handleVars, TypeOK,
          SendingInv, EndInv, BatchInv, OrderInv, ExecutedInv, Sent,
          Increasing, Flushing
<1>1. ASSUME NEW r \in BOOLEAN, Query(r) PROVE ExecutedInv'
  BY <1>1 DEF Query, Release
<1>2. CASE PopResult
  BY <1>2 DEF PopResult
<1>3. CASE Stop
  BY <1>3, ConstantsAssumption DEF Stop
<1>4. CASE Drained
  BY <1>4 DEF Drained
<1>5. CASE DrainWait
  BY <1>5 DEF DrainWait
<1>6. CASE QuitSetEnd
  BY <1>6 DEF QuitSetEnd
<1>7. CASE QuitRelease
  BY <1>7 DEF QuitRelease, Release
<1>8. CASE QuitJoin
  BY <1>8 DEF QuitJoin
<1>9. CASE Connect
  BY <1>9 DEF Connect, Goto
<1>10. CASE TestEnd
  <2>1. /\ worker = "test" /\ Len(m_queue_query_copy) \in Nat
        /\ Len(m_queue_query) \in Nat /\ m_iMsgCount \in Nat
        /\ worker' \in {"flush", "wait"}
        /\ UNCHANGED <<m_iMsgCount, m_queue_query, m_queue_query_copy, executed>>
    BY <1>10 DEF TestEnd, Goto
  <2>2. /\ Sent \in Int /\ Sent' \in Int /\ Sent <= Sent'
    BY <2>1
  <2>3. \A i \in 1 .. Len(executed) :
           executed[i].iID \in Nat /\ executed[i].iID <= Sent
    BY IDType
  <2> HIDE DEF Sent
  <2> QED
    BY <2>1, <2>2, <2>3
<1>11. CASE Wait
  BY <1>11 DEF Wait, Goto
<1>12. CASE CopyQuery
  <2>1. CASE m_queue_query = <<>>
    BY <1>12, <2>1 DEF CopyQuery, Goto
  <2>2. CASE m_queue_query # <<>>
    <3>1. /\ Len(m_queue_query_copy) \in Nat /\ Len(m_queue_query) \in Nat
          /\ m_iMsgCount \in Nat
      OBVIOUS
    <3>2. /\ Len(m_queue_query_copy') = Len(m_queue_query_copy) + Len(m_queue_query)
          /\ Len(m_queue_query') = 0 /\ worker = "copy" /\ worker' = "batch"
          /\ UNCHANGED <<m_iMsgCount, executed>>
      BY <1>12, <2>2, CopyFacts
    <3>3. Sent' = Sent
      BY <3>1, <3>2
    <3> HIDE DEF Sent
    <3> QED
      BY <3>2, <3>3
  <2> QED
    BY <2>1, <2>2
<1>13. CASE BatchDone
  BY <1>13 DEF BatchDone, Goto
<1>14. CASE SetLocale
  BY <1>14 DEF SetLocale
<1>15. CASE Send
  <2> DEFINE m == Head(m_queue_query_copy)
  <2>1. /\ m_queue_query_copy \in Seq(Msg)
        /\ m_queue_query_copy # <<>>
        /\ m \in Msg
        /\ m = m_queue_query_copy[1] /\ executed \in Seq(Msg)
        /\ Len(m_queue_query) \in Nat /\ Len(m_queue_query_copy) \in Nat
        /\ Len(m_queue_query_copy) >= 1 /\ m_iMsgCount \in Nat
    BY <1>15, TailFacts, SeqFacts DEF Send
  <2>2. /\ UNCHANGED <<m_iMsgCount, m_queue_query, m_queue_query_copy>>
        /\ worker = "batch"
    BY <1>15 DEF Send
  <2>3. m.iID = Sent + 1 /\ Sent \in Int
    <3>1. 1 \in 1 .. Len(m_queue_query_copy)
      BY <2>1
    <3>2. m_queue_query_copy[1].iID = m_iMsgCount - Len(m_queue_query)
                                        - Len(m_queue_query_copy) + 1
      BY <2>2, <3>1
    <3>3. Sent = m_iMsgCount - Len(m_queue_query) - Len(m_queue_query_copy) 
      BY <2>1, <2>2
    <3>4. /\ Len(m_queue_query) \in Nat
          /\ Len(m_queue_query_copy) \in Nat
          /\ m_iMsgCount \in Nat
      BY <2>1
    <3> HIDE DEF Sent, IInv
    <3> QED
      BY <2>1, <3>2, <3>3, <3>4
  <2>4. CASE worker' = worker
    BY <1>15, <2>2, <2>4 DEF Send, Goto, FailsRetryably
  <2>5. CASE worker' = "pop"
    <3>1. Sent' = Sent + 1
      BY <2>1, <2>2, <2>5
    <3>2. executed' \in {executed, Append(executed, m)}
      BY <1>15, <2>2, <2>5 DEF Send, Goto, Succeeds, FailsForGood
    <3>3. /\ Increasing(executed)
          /\ \A i \in 1 .. Len(executed) : executed[i].iID <= Sent
      OBVIOUS
    <3> HIDE DEF Sent, Increasing
    <3>4. /\ Increasing(executed')
          /\ \A i \in 1 .. Len(executed') : executed'[i].iID <= Sent + 1
      BY <2>1, <2>3, <3>2, <3>3, BoundedAppend
    <3> QED
      BY <3>1, <3>4
  <2> QED
    BY <1>15, <2>4, <2>5 DEF Send, Goto
<1>16. CASE PopQueryFromCopyQueue
  BY <1>16 DEF PopQueryFromCopyQueue, Goto, Complete
<1>17. CASE FlushSend
  <2> DEFINE m == Head(m_queue_query)
  <2>1. /\ m_queue_query \in Seq(Msg) /\ m_queue_query # <<>> /\ m \in Msg
        /\ m = m_queue_query[1] /\ executed \in Seq(Msg)
        /\ Len(m_queue_query) \in Nat /\ Len(m_queue_query_copy) \in Nat
        /\ Len(m_queue_query) >= 1 /\ m_iMsgCount \in Nat
    BY <1>17, TailFacts, SeqFacts DEF FlushSend
  <2>2. /\ UNCHANGED <<m_iMsgCount, m_queue_query, m_queue_query_copy>>
        /\ worker = "flush"
    BY <1>17 DEF FlushSend
  <2>3. m.iID = Sent + 1 /\ Sent \in Int
    <3>1. 1 \in 1 .. Len(m_queue_query)
      BY <2>1
    <3>2. m_queue_query[1].iID = m_iMsgCount - Len(m_queue_query) + 1
      BY <2>2, <3>1
    <3>3. Sent = m_iMsgCount - Len(m_queue_query) 
      BY <2>1, <2>2
    <3>4. /\ Len(m_queue_query) \in Nat
          /\ Len(m_queue_query_copy) \in Nat
          /\ m_iMsgCount \in Nat
      BY <2>1
    <3> HIDE DEF Sent, IInv
    <3> QED
      BY <2>1, <3>2, <3>3, <3>4
  <2>4. CASE worker' = worker
    BY <1>17, <2>2, <2>4 DEF FlushSend, Goto, FailsRetryably
  <2>5. CASE worker' = "popflush"
    <3>1. Sent' = Sent + 1
      BY <2>1, <2>2, <2>5
    <3>2. executed' \in {executed, Append(executed, m)}
      BY <1>17, <2>2, <2>5 DEF FlushSend, Goto, Succeeds, FailsForGood
    <3>3. /\ Increasing(executed)
          /\ \A i \in 1 .. Len(executed) : executed[i].iID <= Sent
      OBVIOUS
    <3> HIDE DEF Sent, Increasing
    <3>4. /\ Increasing(executed')
          /\ \A i \in 1 .. Len(executed') : executed'[i].iID <= Sent + 1
      BY <2>1, <2>3, <3>2, <3>3, BoundedAppend
    <3> QED
      BY <3>1, <3>4
  <2> QED
    BY <1>17, <2>4, <2>5 DEF FlushSend, Goto
<1>18. CASE PopQuery
  BY <1>18 DEF PopQuery, Goto, Complete
<1>19. CASE FlushDone
  BY <1>19 DEF FlushDone, Goto
<1>20. CASE Gone
  BY <1>20 DEF Gone
<1>21. CASE UNCHANGED vars
  BY <1>21 DEF vars
<1> QED
  BY <1>1, <1>2, <1>3, <1>4, <1>5, <1>6, <1>7, <1>8, <1>9, <1>10,
     <1>11, <1>12, <1>13, <1>14, <1>15, <1>16, <1>17, <1>18, <1>19, <1>20,
     <1>21
     DEF Next, OwnerStep, WorkerStep, Quit

\* The types.
LEMMA StepTypeOK == IInv /\ [Next]_vars => TypeOK'
<1> SUFFICES ASSUME IInv, [Next]_vars PROVE TypeOK'
  OBVIOUS
<1> USE DEF IInv, vars, ownerVars, queueVars, batchVars, handleVars, TypeOK,
          SendingInv, BatchInv, OwnerPC, WorkerPC
<1>1. ASSUME NEW r \in BOOLEAN, Query(r) PROVE TypeOK'
  <2>1. m_iMsgCount + 1 \in 1 .. MaxMsg /\ m_iMsgCount' = m_iMsgCount + 1
    <3>1. /\ m_iMsgCount \in 0 .. MaxMsg /\ m_iMsgCount < MaxMsg
          /\ m_iMsgCount' = m_iMsgCount + 1
      BY <1>1 DEF Query
    <3> HIDE DEF IInv
    <3> QED
      BY <3>1, ConstantsAssumption, SMT
  <2> DEFINE m == [iID |-> m_iMsgCount + 1, bReturn |-> r]
  <2>2. m \in Msg
    BY <2>1 DEF Msg
  <2>3. m_queue_query' \in Seq(Msg)
    <3>1. m_queue_query' = Append(m_queue_query, m) /\ m_queue_query \in Seq(Msg)
      BY <1>1 DEF Query
    <3> HIDE DEF m
    <3> QED
      BY <2>2, <3>1, AppendFacts
  <2>4. m_sem' \in 0 .. SemMax
    BY <1>1, ReleaseType DEF Query
  <2>5. m_iMsgCount' \in 0 .. MaxMsg
    BY <2>1, SMT
  <2> QED
    BY <1>1, <2>3, <2>4, <2>5 DEF Query
<1>2. CASE PopResult
  <2>1. Head(m_queue_result) \in Answer /\ Tail(m_queue_result) \in Seq(Answer)
    BY <1>2, TailFacts DEF PopResult
  <2>2. Append(delivered, Head(m_queue_result)) \in Seq(Answer)
    BY <2>1, AppendFacts
  <2> QED
    BY <1>2, <2>1, <2>2 DEF PopResult
<1>3. CASE Stop
  BY <1>3, ConstantsAssumption DEF Stop
<1>4. CASE Drained
  BY <1>4 DEF Drained
<1>5. CASE DrainWait
  BY <1>5 DEF DrainWait
<1>6. CASE QuitSetEnd
  BY <1>6 DEF QuitSetEnd
<1>7. CASE QuitRelease
  <2>1. m_sem' \in 0 .. SemMax
    BY <1>7, ReleaseType DEF QuitRelease
  <2> QED
    BY <1>7, <2>1 DEF QuitRelease
<1>8. CASE QuitJoin
  BY <1>8 DEF QuitJoin
<1>9. CASE Connect
  BY <1>9 DEF Connect, Goto
<1>10. CASE TestEnd
  BY <1>10 DEF TestEnd, Goto
<1>11. CASE Wait
  <2>1. m_sem' \in 0 .. SemMax
    BY <1>11, ConstantsAssumption, SMT DEF Wait
  <2> QED
    BY <1>11, <2>1 DEF Wait, Goto
<1>12. CASE CopyQuery
  <2>1. m_queue_query_copy \o m_queue_query \in Seq(Msg)
    BY ConcatFacts
  <2>2. Len(m_queue_query_copy) + Len(m_queue_query) \in Nat
    BY SeqFacts
  <2>3. CASE m_queue_query = <<>>
    BY <1>12, <2>3 DEF CopyQuery, Goto
  <2>4. CASE m_queue_query # <<>>
    <3>1. /\ m_queue_query_copy' = m_queue_query_copy \o m_queue_query
          /\ m_queue_query' = <<>> /\ worker' = "batch"
          /\ count' = Len(m_queue_query_copy) + Len(m_queue_query)
          /\ UNCHANGED <<ownerVars, m_sem, m_bEnd, handleVars, m_queue_result,
                         finished>>
      BY <1>12, <2>4 DEF CopyQuery, Goto
    <3>2. /\ m_queue_query_copy' \in Seq(Msg)
          /\ m_queue_query' \in Seq(Msg)
          /\ count' \in Nat
      BY <2>1, <2>2, <3>1
    <3> QED
      BY <3>1, <3>2
  <2> QED
    BY <2>3, <2>4
<1>13. CASE BatchDone
  BY <1>13 DEF BatchDone, Goto
<1>14. CASE SetLocale
  BY <1>14 DEF SetLocale
<1>15. CASE Send
  <2> DEFINE m == Head(m_queue_query_copy)
  <2>1. m_queue_query_copy # <<>> /\ count' \in Nat
    BY <1>15 DEF Send
  <2>2. m \in Msg
    BY <2>1, TailFacts
  <2>3. \/ (Succeeds(m) \/ FailsForGood(m)) /\ UNCHANGED retries
        \/ FailsRetryably(m)
    BY <1>15 DEF Send
  <2>4. /\ ok' \in BOOLEAN /\ errno' \subseteq 1 .. MaxMsg
        /\ executed' \in Seq(Msg) /\ retries' \in 0 .. MaxRetry
    BY <2>2, <2>3, AttemptType
  <2>5. m_sem' \in 0 .. SemMax
    BY <1>15, ReleaseType DEF Send
  <2>6. (p' = <<m>> /\ worker' = "pop") \/ UNCHANGED <<p, worker>>
    BY <1>15 DEF Send, Goto
  <2>7. (p' = <<>> \/ \E x \in Msg : p' = <<x>>) /\ worker' \in WorkerPC
    BY <2>2, <2>6
  <2>8. reconnected' \in BOOLEAN
    BY <1>15 DEF Send
  <2>9. UNCHANGED <<ownerVars, m_queue_query, m_bEnd, m_queue_query_copy,
                    m_queue_result, finished>>
    BY <1>15 DEF Send
  <2> HIDE DEF m
  <2> QED
    BY <2>1, <2>4, <2>5, <2>7, <2>8, <2>9
<1>16. CASE PopQueryFromCopyQueue
  <2>1. m_queue_query_copy # <<>> /\ p = <<Head(m_queue_query_copy)>>
    BY <1>16 DEF PopQueryFromCopyQueue
  <2>2. Head(m_queue_query_copy) \in Msg /\ Tail(m_queue_query_copy) \in Seq(Msg)
    BY <2>1, TailFacts
  <2>3. /\ finished' \in Seq(Msg) /\ m_queue_result' \in Seq(Answer)
        /\ p' = <<>>
    BY <1>16, <2>1, <2>2, CompleteType DEF PopQueryFromCopyQueue
  <2>4. m_queue_query_copy' = Tail(m_queue_query_copy) /\ worker' = "batch"
    BY <1>16 DEF PopQueryFromCopyQueue, Goto
  <2>5. UNCHANGED <<ownerVars, queueVars, count, ok, reconnected, errno,
                    executed, retries>>
    BY <1>16 DEF PopQueryFromCopyQueue
  <2> QED
    BY <2>2, <2>3, <2>4, <2>5
<1>17. CASE FlushSend
  <2> DEFINE m == Head(m_queue_query)
  <2>1. m \in Msg
    BY <1>17, TailFacts DEF FlushSend
  <2>2. \/ (Succeeds(m) \/ FailsForGood(m)) /\ UNCHANGED retries
        \/ FailsRetryably(m)
    BY <1>17 DEF FlushSend
  <2>3. /\ ok' \in BOOLEAN /\ errno' \subseteq 1 .. MaxMsg
        /\ executed' \in Seq(Msg) /\ retries' \in 0 .. MaxRetry
    BY <2>1, <2>2, AttemptType
  <2>4. (p' = <<m>> /\ worker' = "popflush") \/ UNCHANGED <<p, worker>>
    BY <1>17 DEF FlushSend, Goto
  <2>5. (p' = <<>> \/ \E x \in Msg : p' = <<x>>) /\ worker' \in WorkerPC
    BY <2>1, <2>4
  <2>6. reconnected' \in BOOLEAN
    BY <1>17 DEF FlushSend
  <2>7. UNCHANGED <<ownerVars, queueVars, batchVars, m_queue_result, finished>>
    BY <1>17 DEF FlushSend
  <2> HIDE DEF m
  <2> QED
    BY <2>3, <2>5, <2>6, <2>7
<1>18. CASE PopQuery
  <2>1. m_queue_query # <<>> /\ p = <<Head(m_queue_query)>>
    BY <1>18 DEF PopQuery
  <2>2. Head(m_queue_query) \in Msg /\ Tail(m_queue_query) \in Seq(Msg)
    BY <2>1, TailFacts
  <2>3. /\ finished' \in Seq(Msg) /\ m_queue_result' \in Seq(Answer)
        /\ p' = <<>>
    BY <1>18, <2>1, <2>2, CompleteType DEF PopQuery
  <2>4. m_queue_query' = Tail(m_queue_query) /\ worker' = "flush"
    BY <1>18 DEF PopQuery, Goto
  <2>5. UNCHANGED <<ownerVars, m_sem, m_bEnd, batchVars, ok, reconnected,
                    errno, executed, retries>>
    BY <1>18 DEF PopQuery
  <2> QED
    BY <2>2, <2>3, <2>4, <2>5
<1>19. CASE FlushDone
  BY <1>19 DEF FlushDone, Goto
<1>20. CASE Gone
  BY <1>20 DEF Gone
<1>21. CASE UNCHANGED vars
  BY <1>21 DEF vars
<1> QED
  BY <1>1, <1>2, <1>3, <1>4, <1>5, <1>6, <1>7, <1>8, <1>9, <1>10,
     <1>11, <1>12, <1>13, <1>14, <1>15, <1>16, <1>17, <1>18, <1>19, <1>20,
     <1>21
     DEF Next, OwnerStep, WorkerStep, Quit

-----------------------------------------------------------------------------

\* IInv is inductive: it holds in every state of every behaviour.
THEOREM IInvHolds == Spec => []IInv
<1>1. IInv /\ [Next]_vars => IInv'
  BY StepTypeOK, StepEndInv, StepSendingInv, StepBatchInv, StepWakeInv,
     StepCountInv, StepOrderInv, StepExecutedInv DEF IInv
<1> QED
  BY InitIInv, <1>1, PTL DEF Spec

\* The types of the queues, the controls and the histories.
THEOREM TypeCorrect == Spec => []TypeOK
<1>1. IInv => TypeOK
  BY DEF IInv
<1> QED
  BY IInvHolds, <1>1, PTL

\* However attempts fail and however the queues are copied, the database
\* executes the statements of the connection in order, none of them twice.
THEOREM ExecutesInOrderOnce == Spec => []InOrderOnce
<1>1. IInv => InOrderOnce
  BY DEF IInv, ExecutedInv, InOrderOnce
<1> QED
  BY IInvHolds, <1>1, PTL

\* The worker never sleeps on the semaphore while a statement or Quit waits.
THEOREM NeverSleepsOnWork == Spec => []NoLostWakeup
<1>1. IInv => NoLostWakeup
  BY DEF IInv, WakeInv, NoLostWakeup
<1> QED
  BY IInvHolds, <1>1, PTL

\* A Quit without retryable failures loses no statement, and never more than
\* there were such failures.
THEOREM LossIsBounded == Spec => []LossBoundedByRetries
<1>1. IInv => LossBoundedByRetries
  <2> SUFFICES ASSUME IInv, worker = "end"
               PROVE  m_iMsgCount - Len(finished) <= retries
    BY DEF LossBoundedByRetries
  <2>1. /\ m_queue_query \in Seq(Msg) /\ m_queue_query_copy \in Seq(Msg)
        /\ finished \in Seq(Msg) /\ retries \in Nat
    BY DEF IInv, TypeOK
  <2>2. Len(m_queue_query) = 0
    BY <2>1 DEF IInv, EndInv
  <2>3. Len(m_queue_query_copy) <= retries
    BY <2>1, SeqFacts DEF IInv, BatchInv
  <2>4. m_iMsgCount = Len(finished) + Len(m_queue_query_copy) + Len(m_queue_query)
    BY DEF IInv, CountInv
  <2> QED
    BY <2>1, <2>2, <2>3, <2>4
<1> QED
  BY IInvHolds, <1>1, PTL

-----------------------------------------------------------------------------
(***************************************************************************)
(* What is answered.  AsyncSQL implements SqlChannel, loses no statement    *)
(* while its worker runs and answers each ReturnQuery once: to IInv come the *)
(* iIDs of the statements that were consumed and of their answers.          *)
(***************************************************************************)

\* What was consumed: while the worker runs, everything up to what waits; then
\* nothing that still waits.
FinishedInv ==
    /\ ~Flushing => \A i \in 1 .. Len(finished) : finished[i].iID = i
    /\ \A i \in 1 .. Len(finished) :
          finished[i].iID <= m_iMsgCount - Len(m_queue_query)
    /\ Increasing(finished)

Answers == delivered \o m_queue_result
Asked == {i \in DOMAIN finished : finished[i].bReturn}

AnswersInv == IInv /\ FinishedInv /\ OneAnswerEach

-----------------------------------------------------------------------------
(* Sequences.                                                              *)

\* PopResult moves an answer from one sequence to the other.
LEMMA MoveHead ==
    ASSUME NEW S, NEW s \in Seq(S), NEW t \in Seq(S), t # <<>>
    PROVE  Append(s, Head(t)) \o Tail(t) = s \o t
OBVIOUS

\* Concatenation with what is taken from the front or put at the end.
LEMMA ConcatTail ==
    ASSUME NEW S, NEW s \in Seq(S), NEW t \in Seq(S), s # <<>>
    PROVE  /\ s \o t # <<>> /\ s \o t \in Seq(S)
           /\ Head(s \o t) = Head(s)
           /\ Tail(s \o t) = Tail(s) \o t
OBVIOUS

LEMMA ConcatAppend ==
    ASSUME NEW S, NEW s \in Seq(S), NEW t \in Seq(S), NEW e \in S
    PROVE  s \o Append(t, e) = Append(s \o t, e)
OBVIOUS

LEMMA ConcatEmpty ==
    ASSUME NEW S, NEW s \in Seq(S)
    PROVE  s \o <<>> = s /\ <<>> \o s = s
OBVIOUS

\* The first Len(s) statements are abandoned.
LEMMA ConcatSkip ==
    ASSUME NEW S, NEW s \in Seq(S), NEW t \in Seq(S)
    PROVE  SubSeq(s \o t, Len(s) + 1, Len(s \o t)) = t
OBVIOUS

-----------------------------------------------------------------------------
(* What is consumed, and its answers.                                      *)

\* Only three steps touch what was consumed or answered; the others never take a
\* statement back to the queue.
LEMMA Untouched ==
    ASSUME IInv, [Next]_vars,
           ~PopResult, ~PopQueryFromCopyQueue, ~PopQuery
    PROVE  /\ UNCHANGED <<finished, delivered, m_queue_result>>
           /\ Flushing => Flushing'
           /\ m_iMsgCount - Len(m_queue_query) <= m_iMsgCount' - Len(m_queue_query')
<1> USE DEF vars, ownerVars, queueVars, batchVars, handleVars, Flushing
<1> DEFINE Goal == /\ UNCHANGED <<finished, delivered, m_queue_result>>
                   /\ Flushing => Flushing'
                   /\ m_iMsgCount - Len(m_queue_query)
                         <= m_iMsgCount' - Len(m_queue_query')
<1>0. /\ m_queue_query \in Seq(Msg) /\ Len(m_queue_query) \in Nat
      /\ m_iMsgCount \in Nat
  BY DEF IInv, TypeOK
<1>1. ASSUME NEW r \in BOOLEAN, Query(r) PROVE Goal
  <2>1. Len(m_queue_query') = Len(m_queue_query) + 1
    BY <1>0, <1>1 DEF Query
  <2> QED BY <1>0, <1>1, <2>1 DEF Query
<1>2. CASE Stop
  BY <1>0, <1>2 DEF Stop
<1>3. CASE Drained \/ DrainWait
  BY <1>0, <1>3 DEF Drained, DrainWait
<1>4. CASE Quit
  BY <1>0, <1>4 DEF Quit, QuitSetEnd, QuitRelease, QuitJoin
<1>5. CASE Connect \/ TestEnd
  BY <1>0, <1>5 DEF Connect, TestEnd, Goto
<1>6. CASE Wait \/ BatchDone \/ SetLocale
  BY <1>0, <1>6 DEF Wait, BatchDone, SetLocale, Goto
<1>7. CASE CopyQuery
  BY <1>0, <1>7 DEF CopyQuery, Goto
<1>8. CASE Send
  BY <1>0, <1>8 DEF Send, Goto
<1>9. CASE FlushSend
  BY <1>0, <1>9 DEF FlushSend, Goto
<1>10. CASE FlushDone
  BY <1>0, <1>10 DEF FlushDone, Goto
<1>11. CASE Gone \/ UNCHANGED vars
  BY <1>0, <1>11 DEF Gone
<1> QED
  BY <1>1, <1>2, <1>3, <1>4, <1>5, <1>6, <1>7, <1>8, <1>9, <1>10, <1>11
     DEF Next, OwnerStep, WorkerStep

\* The statement a worker consumes: its iID is the next one in its queue.
LEMMA ConsumedFromCopy ==
    ASSUME IInv, PopQueryFromCopyQueue
    PROVE  /\ ~Flushing /\ ~Flushing'
           /\ Head(p) \in Msg /\ Head(p).iID = Len(finished) + 1
           /\ Len(finished) + 1 <= m_iMsgCount - Len(m_queue_query)
           /\ finished' = Append(finished, Head(p))
           /\ UNCHANGED <<m_iMsgCount, m_queue_query, delivered>>
<1>1. /\ m_queue_query \in Seq(Msg) /\ m_queue_query_copy \in Seq(Msg)
      /\ m_queue_query_copy # <<>> /\ p = <<Head(m_queue_query_copy)>>
      /\ finished \in Seq(Msg) /\ m_iMsgCount \in Nat
  BY DEF IInv, TypeOK, SendingInv, PopQueryFromCopyQueue
<1>2. ~Flushing /\ ~Flushing'
  BY DEF PopQueryFromCopyQueue, Flushing, Goto
<1>3. /\ Head(p) = m_queue_query_copy[1] /\ Head(p) \in Msg
      /\ Len(m_queue_query_copy) \in Nat /\ Len(m_queue_query_copy) >= 1
      /\ Len(m_queue_query) \in Nat /\ Len(finished) \in Nat
  BY <1>1, TailFacts, SeqFacts
<1>4. 1 \in 1 .. Len(m_queue_query_copy)
  BY <1>3
<1>5. Head(p).iID = m_iMsgCount - Len(m_queue_query) - Len(m_queue_query_copy) + 1
  BY <1>2, <1>3, <1>4 DEF IInv, OrderInv
<1>6. m_iMsgCount = Len(finished) + Len(m_queue_query_copy) + Len(m_queue_query)
  BY DEF IInv, CountInv
<1>7. /\ finished' = Append(finished, Head(p))
      /\ UNCHANGED <<m_iMsgCount, m_queue_query, delivered>>
  BY DEF PopQueryFromCopyQueue, Complete, ownerVars, queueVars
<1>8. /\ Head(p).iID = Len(finished) + 1
      /\ Len(finished) + 1 <= m_iMsgCount - Len(m_queue_query)
  BY <1>1, <1>3, <1>5, <1>6
<1> QED BY <1>2, <1>3, <1>7, <1>8

LEMMA ConsumedFromQueue ==
    ASSUME IInv, PopQuery
    PROVE  /\ Flushing /\ Flushing'
           /\ Head(p) \in Msg /\ Head(p).iID = m_iMsgCount - Len(m_queue_query) + 1
           /\ Len(m_queue_query') = Len(m_queue_query) - 1
           /\ finished' = Append(finished, Head(p))
           /\ UNCHANGED <<m_iMsgCount, delivered>>
<1>1. /\ m_queue_query \in Seq(Msg) /\ m_queue_query # <<>>
      /\ p = <<Head(m_queue_query)>>
  BY DEF IInv, TypeOK, SendingInv, PopQuery
<1>2. Flushing /\ Flushing'
  BY DEF PopQuery, Flushing, Goto
<1>3. /\ Head(p) = m_queue_query[1] /\ Head(p) \in Msg
      /\ Len(m_queue_query) \in Nat /\ Len(m_queue_query) >= 1
  BY <1>1, TailFacts, SeqFacts
<1>4. 1 \in 1 .. Len(m_queue_query)
  BY <1>3
<1>5. Head(p).iID = m_iMsgCount - Len(m_queue_query) + 1
  BY <1>3, <1>4 DEF IInv, OrderInv
<1>6. /\ finished' = Append(finished, Head(p))
      /\ m_queue_query' = Tail(m_queue_query)
      /\ UNCHANGED <<m_iMsgCount, delivered>>
  BY DEF PopQuery, Complete, ownerVars
<1>7. Len(m_queue_query') = Len(m_queue_query) - 1
  BY <1>1, <1>6, TailFacts
<1> QED BY <1>2, <1>3, <1>5, <1>6, <1>7

LEMMA StepFinishedInv ==
    ASSUME IInv, FinishedInv, [Next]_vars
    PROVE  FinishedInv'
<1> DEFINE bound == m_iMsgCount - Len(m_queue_query)
<1>1. /\ finished \in Seq(Msg) /\ Len(finished) \in Nat
      /\ m_iMsgCount \in Nat /\ Len(m_queue_query) \in Nat /\ bound \in Int
  BY DEF IInv, TypeOK
<1>2. \A i \in 1 .. Len(finished) : finished[i].iID \in Nat /\ finished[i].iID <= bound
  BY <1>1, IDType DEF FinishedInv
<1>3. m_iMsgCount' \in Nat /\ Len(m_queue_query') \in Nat
  <2>1. TypeOK'
    BY StepTypeOK DEF IInv
  <2> QED BY <2>1 DEF TypeOK
<1>4. CASE UNCHANGED finished /\ bound <= bound' /\ (Flushing => Flushing')
  BY <1>1, <1>2, <1>3, <1>4 DEF FinishedInv
<1>5. CASE PopResult
  BY <1>1, <1>4, <1>5 DEF PopResult, queueVars, Flushing
<1>6. CASE PopQueryFromCopyQueue
  <2> DEFINE m == Head(p)
             n == Len(finished)
  <2>1. /\ ~Flushing /\ ~Flushing' /\ m \in Msg /\ m.iID = n + 1
        /\ n + 1 <= bound /\ finished' = Append(finished, m)
        /\ bound' = bound
    BY <1>6, ConsumedFromCopy
  <2>2. \A i \in 1 .. n : finished[i].iID = i
    BY <2>1 DEF FinishedInv
  <2> HIDE DEF m, bound
  <2>3. /\ finished' \in Seq(Msg) /\ Len(finished') = n + 1 /\ finished'[n + 1] = m
        /\ \A i \in 1 .. n : finished'[i] = finished[i]
        /\ DOMAIN finished' = 1 .. n + 1
    BY <1>1, <2>1, AppendFacts, SeqFacts
  <2>4. \A i \in 1 .. n + 1 : finished'[i].iID = i
    BY <1>1, <2>1, <2>2, <2>3
  <2>5. Increasing(finished')
    BY <2>3, <2>4 DEF Increasing
  <2>6. \A i \in 1 .. n + 1 : finished'[i].iID <= bound'
    BY <1>1, <2>1, <2>4
  <2> QED BY <2>3, <2>4, <2>5, <2>6 DEF FinishedInv, bound
<1>7. CASE PopQuery
  <2> DEFINE m == Head(p)
  <2>1. /\ Flushing' /\ m \in Msg /\ m.iID = bound + 1
        /\ finished' = Append(finished, m)
        /\ m_iMsgCount' = m_iMsgCount
        /\ Len(m_queue_query') = Len(m_queue_query) - 1
    BY <1>7, ConsumedFromQueue
  <2>2. bound' = bound + 1
    BY <1>1, <2>1
  <2>3. Increasing(finished)
    BY DEF FinishedInv
  <2> HIDE DEF m, bound
  <2>4. finished' \in {finished, Append(finished, m)}
    BY <2>1
  <2>5. Increasing(finished') /\ \A i \in 1 .. Len(finished') : finished'[i].iID <= bound + 1
    BY <1>1, <1>2, <2>1, <2>3, <2>4, BoundedAppend
  <2> QED BY <2>1, <2>2, <2>5 DEF FinishedInv, bound
<1> QED
  BY <1>4, <1>5, <1>6, <1>7, Untouched

\* Complete(m), for a statement newer than those that were consumed.
LEMMA CompleteAnswers ==
    ASSUME TypeOK, OneAnswerEach, NEW m \in Msg, p = <<m>>, Complete(Head(p)),
           \A i \in 1 .. Len(finished) : finished[i].iID < m.iID,
           delivered' = delivered
    PROVE  OneAnswerEach'
<1>1. /\ delivered \in Seq(Answer) /\ m_queue_result \in Seq(Answer)
      /\ finished \in Seq(Msg) /\ ok \in BOOLEAN /\ m.iID \in 1 .. MaxMsg
      /\ Answers \in Seq(Answer)
  BY ConcatFacts DEF TypeOK, Msg, Answers
<1>2. finished' = Append(finished, m)
  BY DEF Complete
<1> DEFINE n == Len(finished)
<1>3. /\ Len(finished') = n + 1 /\ finished'[n + 1] = m /\ n \in Nat
      /\ \A i \in 1 .. n : finished'[i] = finished[i]
      /\ DOMAIN finished' = 1 .. n + 1 /\ DOMAIN finished = 1 .. n
  BY <1>1, <1>2, AppendFacts, SeqFacts
<1>4. /\ Increasing(Answers)
      /\ {Answers[i].iID : i \in DOMAIN Answers} = {finished[i].iID : i \in Asked}
  BY DEF OneAnswerEach, Answers, Asked
<1>5. CASE ~m.bReturn
  <2>1. Answers' = Answers
    BY <1>5 DEF Complete, Answers
  <2>2. Asked' = Asked /\ Asked \subseteq 1 .. n
    BY <1>3, <1>5 DEF Asked
  <2>3. {finished'[i].iID : i \in Asked} = {finished[i].iID : i \in Asked}
    BY <1>3, <2>2
  <2>4. /\ Increasing(Answers')
        /\ {Answers'[i].iID : i \in DOMAIN Answers'} = {finished'[i].iID : i \in Asked'}
    BY <1>4, <2>1, <2>2, <2>3
  <2> QED BY <2>4 DEF OneAnswerEach, Answers, Asked
<1>6. CASE m.bReturn
  <2> DEFINE a == [iID |-> m.iID, rows |-> ok, errno |-> m.iID \in errno]
             k == Len(Answers)
  <2>1. a \in Answer /\ a.iID = m.iID
    <3> DEFINE bad == m.iID \in errno
    <3>1. bad \in BOOLEAN
      OBVIOUS
    <3> HIDE DEF bad
    <3>2. [iID |-> m.iID, rows |-> ok, errno |-> bad] \in Answer
      BY <1>1, <3>1 DEF Answer
    <3> QED BY <3>2 DEF bad
  <2>2. m_queue_result' = Append(m_queue_result, a)
    BY <1>6 DEF Complete
  <2> HIDE DEF a
  <2>3. Answers' = Append(Answers, a)
    BY <1>1, <2>1, <2>2, ConcatAppend DEF Answers
  <2>4. /\ Len(Answers') = k + 1 /\ Answers'[k + 1] = a /\ k \in Nat
        /\ \A i \in 1 .. k : Answers'[i] = Answers[i]
        /\ DOMAIN Answers' = 1 .. k + 1 /\ DOMAIN Answers = 1 .. k
        /\ \A i \in 1 .. k : Answers[i] \in Answer
    BY <1>1, <2>1, <2>3, AppendFacts, SeqFacts
  <2> HIDE DEF k
  <2>5. Asked' = Asked \cup {n + 1} /\ Asked \subseteq 1 .. n
    BY <1>3, <1>6 DEF Asked
  <2>6. \A i \in 1 .. k : Answers[i].iID < m.iID
    <3> SUFFICES ASSUME NEW i \in 1 .. k
                 PROVE  Answers[i].iID < m.iID
      OBVIOUS
    <3>1. Answers[i].iID \in {finished[j].iID : j \in Asked}
      BY <1>4, <2>4
    <3> QED BY <2>5, <3>1
  <2>7. Increasing(Answers')
    <3> SUFFICES ASSUME NEW i \in 1 .. k + 1, NEW j \in 1 .. k + 1, i < j
                 PROVE  Answers'[i].iID < Answers'[j].iID
      BY <2>4 DEF Increasing
    <3>1. i \in 1 .. k /\ Answers'[i] = Answers[i]
      BY <2>4
    <3>2. CASE j \in 1 .. k
      BY <1>4, <2>4, <3>1, <3>2 DEF Increasing
    <3>3. CASE j = k + 1
      BY <2>1, <2>4, <2>6, <3>1, <3>3
    <3> QED BY <2>4, <3>2, <3>3
  <2>8. {Answers'[i].iID : i \in DOMAIN Answers'}
          = {Answers[i].iID : i \in DOMAIN Answers} \cup {m.iID}
    BY <2>1, <2>4
  <2>9. {finished'[i].iID : i \in Asked'} = {finished[i].iID : i \in Asked} \cup {m.iID}
    BY <1>3, <2>5
  <2> QED BY <1>4, <2>7, <2>8, <2>9 DEF OneAnswerEach, Answers, Asked
<1> QED BY <1>5, <1>6

\* OneAnswerEach depends on the consumed statements and on all their answers.
LEMMA SameAnswers ==
    ASSUME OneAnswerEach, Answers' = Answers, finished' = finished
    PROVE  OneAnswerEach'
<1> DEFINE Matches(a, f) ==
        /\ Increasing(a)
        /\ {a[i].iID : i \in DOMAIN a}
              = {f[i].iID : i \in {j \in DOMAIN f : f[j].bReturn}}
<1>1. Matches(Answers, finished)
  BY DEF OneAnswerEach, Answers
<1>2. Matches(Answers', finished') => OneAnswerEach'
  BY DEF OneAnswerEach, Answers
<1> HIDE DEF Matches
<1> QED BY <1>1, <1>2

LEMMA StepOneAnswerEach ==
    ASSUME AnswersInv, [Next]_vars
    PROVE  OneAnswerEach'
<1> USE DEF AnswersInv
<1>1. TypeOK
  BY DEF IInv
<1>2. CASE UNCHANGED <<finished, delivered, m_queue_result>>
  BY <1>2, SameAnswers DEF Answers
<1>3. CASE PopResult
  <2>1. /\ delivered \in Seq(Answer) /\ m_queue_result \in Seq(Answer)
        /\ m_queue_result # <<>> /\ finished' = finished
        /\ delivered' = Append(delivered, Head(m_queue_result))
        /\ m_queue_result' = Tail(m_queue_result)
    BY <1>1, <1>3 DEF TypeOK, PopResult
  <2>2. Answers' = Answers
    BY <2>1, MoveHead DEF Answers
  <2> QED BY <2>1, <2>2, SameAnswers
<1>4. CASE PopQueryFromCopyQueue \/ PopQuery
  <2>1. PICK m \in Msg : p = <<m>>
    BY <1>1, <1>4 DEF IInv, TypeOK, SendingInv, PopQueryFromCopyQueue, PopQuery
  <2>2. /\ Complete(Head(p)) /\ delivered' = delivered /\ Head(p) = m
    BY <1>4, <2>1 DEF PopQueryFromCopyQueue, PopQuery, ownerVars
  <2>3. /\ finished \in Seq(Msg) /\ Len(finished) \in Nat
        /\ m_iMsgCount \in Nat /\ Len(m_queue_query) \in Nat
        /\ \A i \in 1 .. Len(finished) : finished[i].iID \in Nat
    BY <1>1, IDType DEF TypeOK
  <2>4. \A i \in 1 .. Len(finished) : finished[i].iID < m.iID
    <3>1. CASE PopQueryFromCopyQueue
      BY <2>2, <2>3, <3>1, ConsumedFromCopy DEF FinishedInv
    <3>2. CASE PopQuery
      BY <2>2, <2>3, <3>2, ConsumedFromQueue DEF FinishedInv
    <3> QED BY <1>4, <3>1, <3>2
  <2> QED BY <1>1, <2>1, <2>2, <2>4, CompleteAnswers
<1> QED
  BY <1>2, <1>3, <1>4, Untouched

-----------------------------------------------------------------------------

\* AnswersInv holds in every state of every behaviour.
THEOREM AnswersInvHolds == Spec => []AnswersInv
<1>1. Init => FinishedInv /\ OneAnswerEach
  <2> SUFFICES ASSUME Init PROVE FinishedInv /\ OneAnswerEach
    OBVIOUS
  <2>1. /\ finished = <<>> /\ delivered = <<>> /\ m_queue_result = <<>>
        /\ m_queue_query = <<>> /\ m_iMsgCount = 0
    BY DEF Init
  <2>2. Len(<<>>) = 0 /\ DOMAIN <<>> = {}
    OBVIOUS
  <2>3. <<>> \in Seq(Msg) /\ <<>> \o <<>> = <<>>
    OBVIOUS
  <2>4. FinishedInv
    BY <2>1, <2>2 DEF FinishedInv, Increasing
  <2>5. Increasing(<<>>)
    BY <2>2 DEF Increasing
  <2>6. /\ {(<<>>)[i].iID : i \in DOMAIN <<>>} = {}
        /\ {(<<>>)[i].iID : i \in {j \in DOMAIN <<>> : (<<>>)[j].bReturn}} = {}
    BY <2>2
  <2>7. OneAnswerEach
    BY <2>1, <2>3, <2>5, <2>6, Zenon DEF OneAnswerEach
  <2> QED BY <2>4, <2>7
<1>2. IInv /\ FinishedInv /\ OneAnswerEach /\ [Next]_vars
        => FinishedInv' /\ OneAnswerEach'
  BY StepFinishedInv, StepOneAnswerEach DEF AnswersInv
<1>3. AnswersInv <=> IInv /\ FinishedInv /\ OneAnswerEach
  BY DEF AnswersInv
<1> QED
  BY IInvHolds, <1>1, <1>2, <1>3, PTL DEF Spec

\* Every ReturnQuery that was consumed has one answer, in the order of submission.
THEOREM AnsweredOnce == Spec => []OneAnswerEach
<1>1. AnswersInv => OneAnswerEach
  BY DEF AnswersInv
<1> QED BY AnswersInvHolds, <1>1, PTL

\* Until the worker leaves its loop, consumed, copied and queued statements are all
\* that were submitted, in their order.
THEOREM NothingIsLost == Spec => []NothingLostWhileRunning
<1>1. AnswersInv => NothingLostWhileRunning
  <2> SUFFICES ASSUME AnswersInv, ~Flushing
               PROVE  IDs(finished \o m_queue_query_copy \o m_queue_query)
                        = [i \in 1 .. m_iMsgCount |-> i]
    BY DEF NothingLostWhileRunning, Flushing
  <2> DEFINE f == Len(finished)
             c == Len(m_queue_query_copy)
             q == Len(m_queue_query)
             fc == finished \o m_queue_query_copy
             all == fc \o m_queue_query
  <2>1. /\ finished \in Seq(Msg) /\ m_queue_query_copy \in Seq(Msg)
        /\ m_queue_query \in Seq(Msg) /\ f \in Nat /\ c \in Nat /\ q \in Nat
        /\ m_iMsgCount = f + c + q
    BY DEF AnswersInv, IInv, TypeOK, CountInv
  <2>2. /\ fc \in Seq(Msg) /\ Len(fc) = f + c
        /\ \A i \in 1 .. f : fc[i] = finished[i]
        /\ \A i \in 1 .. c : fc[f + i] = m_queue_query_copy[i]
    BY <2>1, ConcatFacts
  <2> HIDE DEF fc
  <2>3. /\ all \in Seq(Msg) /\ Len(all) = f + c + q
        /\ \A i \in 1 .. f + c : all[i] = fc[i]
        /\ \A i \in 1 .. q : all[f + c + i] = m_queue_query[i]
    <3>1. /\ all \in Seq(Msg) /\ Len(all) = Len(fc) + q
          /\ \A i \in 1 .. Len(fc) : all[i] = fc[i]
          /\ \A i \in 1 .. q : all[Len(fc) + i] = m_queue_query[i]
      <4>1. fc \in Seq(Msg) /\ m_queue_query \in Seq(Msg)
        BY <2>1, <2>2
      <4> QED BY <4>1, ConcatFacts
    <3>2. Len(fc) = f + c
      BY <2>2
    <3> HIDE DEF all, f, c, q
    <3> QED BY <3>1, <3>2
  <2>4. DOMAIN all = 1 .. m_iMsgCount
    BY <2>1, <2>3, SeqFacts
  <2> HIDE DEF all
  <2>5. /\ \A i \in 1 .. f : finished[i].iID = i
        /\ \A i \in 1 .. c : m_queue_query_copy[i].iID = f + i
        /\ \A i \in 1 .. q : m_queue_query[i].iID = f + c + i
    BY <2>1 DEF AnswersInv, FinishedInv, IInv, OrderInv
  <2>6. ASSUME NEW i \in 1 .. m_iMsgCount
        PROVE  all[i].iID = i
    <3>1. CASE i <= f
      <4>1. i \in 1 .. f /\ i \in 1 .. f + c
        BY <2>1, <3>1
      <4>2. all[i] = fc[i] /\ fc[i] = finished[i]
        BY <2>2, <2>3, <4>1
      <4> QED BY <2>5, <4>1, <4>2
    <3>2. CASE i > f /\ i <= f + c
      <4>1. i - f \in 1 .. c /\ f + (i - f) = i /\ i \in 1 .. f + c
        BY <2>1, <3>2
      <4>2. fc[f + (i - f)] = m_queue_query_copy[i - f]
        BY <2>2, <4>1
      <4>3. m_queue_query_copy[i - f].iID = f + (i - f)
        BY <2>5, <4>1
      <4> QED BY <2>3, <4>1, <4>2, <4>3
    <3>3. CASE i > f + c
      <4>1. i - (f + c) \in 1 .. q /\ f + c + (i - (f + c)) = i
        BY <2>1, <3>3
      <4>2. all[f + c + (i - (f + c))] = m_queue_query[i - (f + c)]
        BY <2>3, <4>1
      <4>3. m_queue_query[i - (f + c)].iID = f + c + (i - (f + c))
        BY <2>5, <4>1
      <4> QED BY <4>1, <4>2, <4>3
    <3> QED BY <2>1, <3>1, <3>2, <3>3
  <2>7. IDs(all) = [i \in 1 .. m_iMsgCount |-> i]
    BY <2>4, <2>6 DEF IDs
  <2> QED BY <2>7 DEF all, fc
<1> QED BY AnswersInvHolds, <1>1, PTL
-----------------------------------------------------------------------------
(***************************************************************************)
(* The refinement: every step of the two threads is a step of SqlChannel, or *)
(* leaves the channel as it is.                                            *)
(***************************************************************************)

\* An answer stands for the ReturnQuery it answers.
Question(a) == [iID |-> a.iID, bReturn |-> TRUE]
Questions(s) == [i \in DOMAIN s |-> Question(s[i])]

LEMMA QuestionsFacts ==
    ASSUME NEW s \in Seq(Answer)
    PROVE  /\ Questions(s) \in Seq(Msg) /\ Len(Questions(s)) = Len(s)
           /\ \A i \in 1 .. Len(s) : Questions(s)[i] = Question(s[i])
<1>1. /\ DOMAIN s = 1 .. Len(s) /\ Len(s) \in Nat
      /\ \A i \in 1 .. Len(s) : s[i] \in Answer
  BY SeqFacts
<1>2. \A i \in 1 .. Len(s) : Question(s[i]) \in Msg
  BY <1>1 DEF Question, Answer, Msg
<1> QED BY <1>1, <1>2 DEF Questions

\* PopResult takes the oldest answer, PushResult adds the newest.
LEMMA QuestionsTail ==
    ASSUME NEW s \in Seq(Answer), s # <<>>
    PROVE  Questions(s) # <<>> /\ Questions(Tail(s)) = Tail(Questions(s))
<1>1. /\ Questions(s) \in Seq(Msg) /\ Len(Questions(s)) = Len(s) /\ Len(s) \in Nat
      /\ \A i \in 1 .. Len(s) : Questions(s)[i] = Question(s[i])
  BY QuestionsFacts, SeqFacts
<1>2. /\ Tail(s) \in Seq(Answer) /\ Len(Tail(s)) = Len(s) - 1
      /\ \A i \in 1 .. Len(s) - 1 : Tail(s)[i] = s[i + 1]
  BY TailFacts
<1>3. /\ Questions(Tail(s)) \in Seq(Msg) /\ Len(Questions(Tail(s))) = Len(s) - 1
      /\ \A i \in 1 .. Len(s) - 1 : Questions(Tail(s))[i] = Question(s[i + 1])
  BY <1>2, QuestionsFacts
<1>4. Questions(s) # <<>>
  BY <1>1, SeqFacts
<1> DEFINE t == Questions(s)
           u == Questions(Tail(s))
<1> HIDE DEF t, u
<1>5. /\ Tail(t) \in Seq(Msg) /\ Len(Tail(t)) = Len(t) - 1
      /\ \A i \in 1 .. Len(t) - 1 : Tail(t)[i] = t[i + 1]
  BY <1>1, <1>4, TailFacts DEF t
<1>6. \A i \in 1 .. Len(s) - 1 : u[i] = Tail(t)[i]
  BY <1>1, <1>3, <1>5 DEF t, u
<1>7. u = Tail(t)
  BY <1>1, <1>3, <1>5, <1>6, SeqEqual DEF t, u
<1> QED BY <1>4, <1>7 DEF t, u

LEMMA QuestionsAppend ==
    ASSUME NEW s \in Seq(Answer), NEW a \in Answer
    PROVE  Questions(Append(s, a)) = Append(Questions(s), Question(a))
<1> DEFINE t == Append(s, a)
           u == Append(Questions(s), Question(a))
<1>1. /\ Questions(s) \in Seq(Msg) /\ Len(Questions(s)) = Len(s) /\ Len(s) \in Nat
      /\ \A i \in 1 .. Len(s) : Questions(s)[i] = Question(s[i])
  BY QuestionsFacts, SeqFacts
<1>2. Question(a) \in Msg
  BY DEF Question, Answer, Msg
<1>3. /\ t \in Seq(Answer) /\ Len(t) = Len(s) + 1 /\ t[Len(s) + 1] = a
      /\ \A i \in 1 .. Len(s) : t[i] = s[i]
  BY AppendFacts
<1>4. /\ u \in Seq(Msg) /\ Len(u) = Len(s) + 1 /\ u[Len(s) + 1] = Question(a)
      /\ \A i \in 1 .. Len(s) : u[i] = Questions(s)[i]
  BY <1>1, <1>2, AppendFacts
<1> HIDE DEF t, u
<1>5. /\ Questions(t) \in Seq(Msg) /\ Len(Questions(t)) = Len(s) + 1
      /\ \A i \in 1 .. Len(s) + 1 : Questions(t)[i] = Question(t[i])
  BY <1>3, QuestionsFacts
<1>6. \A i \in 1 .. Len(s) + 1 : Questions(t)[i] = u[i]
  <2> SUFFICES ASSUME NEW i \in 1 .. Len(s) + 1 PROVE Questions(t)[i] = u[i]
    OBVIOUS
  <2>1. CASE i = Len(s) + 1
    BY <1>3, <1>4, <1>5, <2>1
  <2>2. CASE i \in 1 .. Len(s)
    BY <1>1, <1>3, <1>4, <1>5, <2>2
  <2> QED BY <1>1, <2>1, <2>2
<1>7. Questions(t) = u
  BY <1>4, <1>5, <1>6, SeqEqual
<1> QED BY <1>7 DEF t, u

\* The refinement mapping, one conjunct per place of the worker.
LEMMA WaitingIs ==
    /\ worker = "pop" => Waiting = Tail(m_queue_query_copy) \o m_queue_query
    /\ worker = "popflush" => Waiting = Tail(m_queue_query)
    /\ worker \in {"flush", "end"} => Waiting = m_queue_query
    /\ worker \notin {"pop", "popflush", "flush", "end"}
          => Waiting = m_queue_query_copy \o m_queue_query
BY DEF Waiting

LEMMA WaitingWillBe ==
    /\ worker' = "pop" => Waiting' = Tail(m_queue_query_copy') \o m_queue_query'
    /\ worker' = "popflush" => Waiting' = Tail(m_queue_query')
    /\ worker' \in {"flush", "end"} => Waiting' = m_queue_query'
    /\ worker' \notin {"pop", "popflush", "flush", "end"}
          => Waiting' = m_queue_query_copy' \o m_queue_query'
BY DEF Waiting

\* What a step of the channel says of the variables of AsyncSQL.
LEMMA ChannelSteps ==
    /\ \A s \in Msg :
          /\ ~m_bEnd /\ Waiting' = Append(Waiting, s)
          /\ UNCHANGED <<p, executed, m_queue_result, m_bEnd>>
          => Channel!Next
    /\ /\ p = <<>> /\ Waiting # <<>>
       /\ Waiting' = Tail(Waiting) /\ p' = <<Head(Waiting)>>
       /\ executed' \in {executed, Append(executed, Head(Waiting))}
       /\ UNCHANGED <<m_queue_result, m_bEnd>>
       => Channel!Next
    /\ /\ p # <<>> /\ p' = <<>>
       /\ Questions(m_queue_result') = IF Head(p).bReturn
                                         THEN Append(Questions(m_queue_result), Head(p))
                                         ELSE Questions(m_queue_result)
       /\ UNCHANGED <<Waiting, executed, m_bEnd>>
       => Channel!Next
    /\ /\ Questions(m_queue_result) # <<>>
       /\ Questions(m_queue_result') = Tail(Questions(m_queue_result))
       /\ UNCHANGED <<Waiting, p, executed, m_bEnd>>
       => Channel!Next
    /\ ~m_bEnd /\ m_bEnd' = TRUE /\ UNCHANGED <<Waiting, p, executed, m_queue_result>>
       => Channel!Next
    /\ \A n \in 1 .. Len(Waiting) :
          /\ m_bEnd /\ Waiting' = SubSeq(Waiting, n + 1, Len(Waiting))
          /\ UNCHANGED <<p, executed, m_queue_result, m_bEnd>>
          => Channel!Next
    /\ UNCHANGED <<Waiting, p, executed, m_queue_result, m_bEnd>> => UNCHANGED Channel!vars
<1> USE DEF Questions, Question
<1>1. ASSUME NEW s \in Msg, ~m_bEnd, Waiting' = Append(Waiting, s),
             UNCHANGED <<p, executed, m_queue_result, m_bEnd>>
      PROVE  Channel!Next
  BY <1>1 DEF Channel!Next, Channel!Submit
<1>2. ASSUME p = <<>>, Waiting # <<>>, Waiting' = Tail(Waiting), p' = <<Head(Waiting)>>,
             executed' \in {executed, Append(executed, Head(Waiting))},
             UNCHANGED <<m_queue_result, m_bEnd>>
      PROVE  Channel!Next
  BY <1>2 DEF Channel!Next, Channel!Run
<1>3. ASSUME p # <<>>, p' = <<>>,
             Questions(m_queue_result') = IF Head(p).bReturn
                THEN Append(Questions(m_queue_result), Head(p))
                ELSE Questions(m_queue_result),
             UNCHANGED <<Waiting, executed, m_bEnd>>
      PROVE  Channel!Next
  BY <1>3 DEF Channel!Next, Channel!Complete
<1>4. ASSUME Questions(m_queue_result) # <<>>,
             Questions(m_queue_result') = Tail(Questions(m_queue_result)),
             UNCHANGED <<Waiting, p, executed, m_bEnd>>
      PROVE  Channel!Next
  BY <1>4 DEF Channel!Next, Channel!Take
<1>5. ASSUME ~m_bEnd, m_bEnd' = TRUE, UNCHANGED <<Waiting, p, executed, m_queue_result>>
      PROVE  Channel!Next
  BY <1>5 DEF Channel!Next, Channel!Close
<1>6. ASSUME NEW n \in 1 .. Len(Waiting), m_bEnd,
             Waiting' = SubSeq(Waiting, n + 1, Len(Waiting)),
             UNCHANGED <<p, executed, m_queue_result, m_bEnd>>
      PROVE  Channel!Next
  BY <1>6 DEF Channel!Next, Channel!Abandon
<1>7. ASSUME UNCHANGED <<Waiting, p, executed, m_queue_result, m_bEnd>>
      PROVE  UNCHANGED Channel!vars
  BY <1>7 DEF Channel!vars
<1> HIDE DEF Questions, Question
<1> QED BY <1>1, <1>2, <1>3, <1>4, <1>5, <1>6, <1>7

\* The two ends of the queues the mapping speaks of.
LEMMA QueueTypes ==
    ASSUME IInv
    PROVE  /\ m_queue_query \in Seq(Msg) /\ m_queue_query_copy \in Seq(Msg)
           /\ Tail(m_queue_query_copy) \o m_queue_query \in Seq(Msg)
                 \/ m_queue_query_copy = <<>>
           /\ Waiting \in Seq(Msg)
<1>1. m_queue_query \in Seq(Msg) /\ m_queue_query_copy \in Seq(Msg)
  BY DEF IInv, TypeOK
<1>2. m_queue_query_copy # <<>> => Tail(m_queue_query_copy) \in Seq(Msg)
  BY <1>1, TailFacts
<1>3. m_queue_query # <<>> => Tail(m_queue_query) \in Seq(Msg)
  BY <1>1, TailFacts
<1>4. /\ m_queue_query_copy \o m_queue_query \in Seq(Msg)
      /\ m_queue_query_copy # <<>> => Tail(m_queue_query_copy) \o m_queue_query \in Seq(Msg)
  BY <1>1, <1>2, ConcatFacts
<1> QED BY <1>1, <1>3, <1>4, WaitingIs DEF IInv, SendingInv

\* AsyncQuery and ReturnQuery: the channel is open while its owner runs.
LEMMA QuerySubmits ==
    ASSUME IInv, NEW r \in BOOLEAN, Query(r)
    PROVE  Channel!Next
<1> DEFINE m == [iID |-> m_iMsgCount + 1, bReturn |-> r]
<1>1. ~m_bEnd /\ ~Flushing
  BY DEF IInv, EndInv, Query
<1>2. /\ m_queue_query' = Append(m_queue_query, m)
      /\ UNCHANGED <<worker, m_queue_query_copy, p, executed, m_queue_result, m_bEnd>>
  BY DEF Query, batchVars, handleVars
<1>3. m \in Msg
  BY ConstantsAssumption DEF IInv, TypeOK, Query, Msg
<1> HIDE DEF m
<1>4. CASE worker = "pop"
  <2>1. m_queue_query_copy # <<>> /\ Tail(m_queue_query_copy) \in Seq(Msg)
    BY <1>4, QueueTypes, TailFacts DEF IInv, SendingInv
  <2>2. /\ Waiting = Tail(m_queue_query_copy) \o m_queue_query
        /\ Waiting' = Tail(m_queue_query_copy) \o Append(m_queue_query, m)
    BY <1>2, <1>4, WaitingIs, WaitingWillBe
  <2>3. Waiting' = Append(Waiting, m)
    BY <1>3, <2>1, <2>2, QueueTypes, ConcatAppend
  <2> QED BY <1>1, <1>2, <1>3, <2>3, ChannelSteps
<1>5. CASE worker # "pop"
  <2>1. worker \notin {"pop", "popflush", "flush", "end"}
    BY <1>1, <1>5 DEF Flushing
  <2>2. /\ Waiting = m_queue_query_copy \o m_queue_query
        /\ Waiting' = m_queue_query_copy \o Append(m_queue_query, m)
    BY <1>2, <2>1, WaitingIs, WaitingWillBe
  <2>3. Waiting' = Append(Waiting, m)
    BY <1>3, <2>2, QueueTypes, ConcatAppend
  <2> QED BY <1>1, <1>2, <1>3, <2>3, ChannelSteps
<1> QED BY <1>4, <1>5

\* Nothing that waits moves: the mapping stays as it is.
LEMMA SameWaiting ==
    ASSUME UNCHANGED <<m_queue_query, m_queue_query_copy>>,
           \/ worker' = worker
           \/ /\ worker \notin {"pop", "popflush", "flush", "end"}
              /\ worker' \notin {"pop", "popflush", "flush", "end"}
           \/ worker = "flush" /\ worker' = "end"
    PROVE  Waiting' = Waiting
BY WaitingIs, WaitingWillBe DEF Waiting

LEMMA PopResultTakes ==
    ASSUME IInv, PopResult
    PROVE  Channel!Next
<1>1. /\ m_queue_result \in Seq(Answer) /\ m_queue_result # <<>>
      /\ m_queue_result' = Tail(m_queue_result)
      /\ UNCHANGED <<worker, m_queue_query, m_queue_query_copy, p, executed, m_bEnd>>
  BY DEF IInv, TypeOK, PopResult, queueVars, batchVars, handleVars
<1> QED BY <1>1, SameWaiting, QuestionsTail, ChannelSteps

LEMMA QuitCloses ==
    ASSUME IInv, QuitSetEnd
    PROVE  Channel!Next
<1>1. /\ ~m_bEnd /\ m_bEnd' = TRUE
      /\ UNCHANGED <<worker, m_queue_query, m_queue_query_copy, p, executed,
                     m_queue_result>>
  BY DEF IInv, EndInv, QuitSetEnd, batchVars, handleVars
<1> QED BY <1>1, SameWaiting, ChannelSteps

\* The worker that sees m_bEnd gives up what is left in its copy.
LEMMA TestEndAbandons ==
    ASSUME IInv, TestEnd
    PROVE  Channel!Next \/ UNCHANGED Channel!vars
<1> DEFINE n == Len(m_queue_query_copy)
<1>1. /\ worker = "test" /\ worker' = IF m_bEnd THEN "flush" ELSE "wait"
      /\ UNCHANGED <<m_queue_query, m_queue_query_copy, p, executed, m_queue_result,
                     m_bEnd>>
  BY DEF TestEnd, Goto, queueVars, batchVars, handleVars
<1>2. CASE ~m_bEnd
  BY <1>1, <1>2, SameWaiting, ChannelSteps
<1>3. CASE m_bEnd /\ m_queue_query_copy = <<>>
  <2>1. Waiting' = Waiting
    BY <1>1, <1>3, QueueTypes, ConcatEmpty, WaitingIs, WaitingWillBe
  <2> QED BY <1>1, <2>1, ChannelSteps
<1>4. CASE m_bEnd /\ m_queue_query_copy # <<>>
  <2>1. /\ Waiting = m_queue_query_copy \o m_queue_query
        /\ Waiting' = m_queue_query
    BY <1>1, <1>4, WaitingIs, WaitingWillBe
  <2>2. Waiting' = SubSeq(Waiting, n + 1, Len(Waiting))
    BY <2>1, QueueTypes, ConcatSkip
  <2>3. /\ n \in Nat /\ n # 0 /\ Len(m_queue_query) \in Nat
        /\ Len(Waiting) = n + Len(m_queue_query)
    BY <1>4, <2>1, QueueTypes, ConcatFacts, SeqFacts
  <2>4. n \in 1 .. Len(Waiting)
    BY <2>3
  <2> HIDE DEF n
  <2> QED BY <1>1, <1>4, <2>2, <2>4, ChannelSteps
<1> QED BY <1>2, <1>3, <1>4

\* What CopyQuery moves to the copy was waiting behind it.
LEMMA CopyQueryUnseen ==
    ASSUME IInv, CopyQuery
    PROVE  UNCHANGED Channel!vars
<1>1. UNCHANGED <<p, executed, m_queue_result, m_bEnd>>
  BY DEF CopyQuery, handleVars
<1>2. CASE m_queue_query = <<>>
  BY <1>1, <1>2, SameWaiting, ChannelSteps DEF CopyQuery, Goto, batchVars
<1>3. CASE m_queue_query # <<>>
  <2>1. /\ worker = "copy" /\ worker' = "batch" /\ m_queue_query' = <<>>
        /\ m_queue_query_copy' = m_queue_query_copy \o m_queue_query
    BY <1>3 DEF CopyQuery, Goto
  <2>2. m_queue_query_copy \o m_queue_query \in Seq(Msg)
    BY QueueTypes, ConcatFacts
  <2>3. Waiting' = Waiting
    BY <2>1, <2>2, ConcatEmpty, WaitingIs, WaitingWillBe
  <2> QED BY <1>1, <2>3, ChannelSteps
<1> QED BY <1>2, <1>3

LEMMA SendRuns ==
    ASSUME IInv, Send
    PROVE  Channel!Next \/ UNCHANGED Channel!vars
<1> DEFINE m == Head(m_queue_query_copy)
<1>1. /\ worker = "batch" /\ p = <<>> /\ m_queue_query_copy # <<>>
  <2>1. worker = "batch" /\ count > 0 /\ count <= Len(m_queue_query_copy)
    BY DEF IInv, BatchInv, Send
  <2>2. p = <<>>
    BY <2>1 DEF IInv, SendingInv
  <2> QED BY <2>1, <2>2, QueueTypes, SeqFacts DEF IInv, TypeOK
<1>2. /\ UNCHANGED <<m_queue_query, m_queue_query_copy, m_queue_result, m_bEnd>>
      /\ \/ /\ Succeeds(m) \/ FailsForGood(m)
            /\ p' = <<m>> /\ worker' = "pop"
         \/ FailsRetryably(m) /\ UNCHANGED <<p, worker>>
  BY DEF Send, Goto
<1> HIDE DEF m
<1>3. CASE p' = <<m>> /\ worker' = "pop" /\ (Succeeds(m) \/ FailsForGood(m))
  <2>1. executed' \in {executed, Append(executed, m)}
    BY <1>3 DEF Succeeds, FailsForGood
  <2>2. /\ Waiting = m_queue_query_copy \o m_queue_query
        /\ Waiting' = Tail(m_queue_query_copy) \o m_queue_query
    BY <1>1, <1>2, <1>3, WaitingIs, WaitingWillBe
  <2>3. Waiting # <<>> /\ Head(Waiting) = m /\ Waiting' = Tail(Waiting)
    BY <1>1, <2>2, QueueTypes, ConcatTail DEF m
  <2> QED BY <1>1, <1>2, <1>3, <2>1, <2>3, ChannelSteps
<1>4. CASE FailsRetryably(m) /\ UNCHANGED <<p, worker>>
  BY <1>2, <1>4, SameWaiting, ChannelSteps DEF FailsRetryably
<1> QED BY <1>2, <1>3, <1>4

LEMMA FlushSendRuns ==
    ASSUME IInv, FlushSend
    PROVE  Channel!Next \/ UNCHANGED Channel!vars
<1> DEFINE m == Head(m_queue_query)
<1>1. worker = "flush" /\ m_queue_query # <<>> /\ p = <<>>
  BY DEF IInv, SendingInv, FlushSend
<1>2. /\ UNCHANGED <<m_queue_query, m_queue_query_copy, m_queue_result, m_bEnd>>
      /\ \/ /\ Succeeds(m) \/ FailsForGood(m)
            /\ p' = <<m>> /\ worker' = "popflush"
         \/ FailsRetryably(m) /\ UNCHANGED <<p, worker>>
  BY DEF FlushSend, Goto, queueVars, batchVars
<1> HIDE DEF m
<1>3. CASE p' = <<m>> /\ worker' = "popflush" /\ (Succeeds(m) \/ FailsForGood(m))
  <2>1. executed' \in {executed, Append(executed, m)}
    BY <1>3 DEF Succeeds, FailsForGood
  <2>2. Waiting = m_queue_query /\ Waiting' = Tail(m_queue_query)
    BY <1>1, <1>2, <1>3, WaitingIs, WaitingWillBe
  <2>3. Waiting # <<>> /\ Head(Waiting) = m /\ Waiting' = Tail(Waiting)
    BY <1>1, <2>2 DEF m
  <2> QED BY <1>1, <1>2, <1>3, <2>1, <2>3, ChannelSteps
<1>4. CASE FailsRetryably(m) /\ UNCHANGED <<p, worker>>
  BY <1>2, <1>4, SameWaiting, ChannelSteps DEF FailsRetryably
<1> QED BY <1>2, <1>3, <1>4

\* PushResult answers a ReturnQuery with its iID.
LEMMA CompleteIsAnswered ==
    ASSUME IInv, NEW m \in Msg, p = <<m>>, Complete(Head(p)),
           UNCHANGED <<Waiting, executed, m_bEnd>>
    PROVE  Channel!Next
<1>1. /\ Head(p) = m /\ p # <<>> /\ p' = <<>> /\ m_queue_result \in Seq(Answer)
      /\ m.iID \in 1 .. MaxMsg /\ ok \in BOOLEAN
  BY DEF IInv, TypeOK, Complete, Msg
<1>2. CASE ~m.bReturn
  BY <1>1, <1>2, ChannelSteps DEF Complete
<1>3. CASE m.bReturn
  <2> DEFINE bad == m.iID \in errno
             a == [iID |-> m.iID, rows |-> ok, errno |-> bad]
  <2>1. m_queue_result' = Append(m_queue_result, a)
    BY <1>1, <1>3 DEF Complete
  <2>2. bad \in BOOLEAN
    OBVIOUS
  <2> HIDE DEF bad
  <2>3. a \in Answer
    BY <1>1, <2>2 DEF Answer
  <2>4. Question(a) = m
    BY <1>3 DEF Question, Msg
  <2> HIDE DEF a
  <2>5. Questions(m_queue_result') = Append(Questions(m_queue_result), m)
    BY <1>1, <2>1, <2>3, <2>4, QuestionsAppend
  <2> QED BY <1>1, <1>3, <2>5, ChannelSteps
<1> QED BY <1>2, <1>3

LEMMA PopsComplete ==
    ASSUME IInv, PopQueryFromCopyQueue \/ PopQuery
    PROVE  Channel!Next
<1>1. PICK m \in Msg : p = <<m>>
  BY DEF IInv, TypeOK, SendingInv, PopQueryFromCopyQueue, PopQuery
<1>2. Complete(Head(p)) /\ UNCHANGED <<executed, m_bEnd>>
  BY DEF PopQueryFromCopyQueue, PopQuery, queueVars
<1>3. Waiting' = Waiting
  <2>1. CASE PopQueryFromCopyQueue
    <3>1. /\ worker = "pop" /\ worker' = "batch"
          /\ m_queue_query_copy' = Tail(m_queue_query_copy)
          /\ m_queue_query' = m_queue_query
      BY <2>1 DEF PopQueryFromCopyQueue, Goto, queueVars
    <3> QED BY <3>1, WaitingIs, WaitingWillBe
  <2>2. CASE PopQuery
    <3>1. /\ worker = "popflush" /\ worker' = "flush"
          /\ m_queue_query' = Tail(m_queue_query)
      BY <2>2 DEF PopQuery, Goto
    <3> QED BY <3>1, WaitingIs, WaitingWillBe
  <2> QED BY <2>1, <2>2
<1> QED BY <1>1, <1>2, <1>3, CompleteIsAnswered

\* The two threads' other steps are not seen through the channel's interface.
LEMMA OthersUnseen ==
    ASSUME \/ Stop \/ Drained \/ DrainWait \/ QuitRelease \/ QuitJoin
           \/ Connect \/ Wait \/ BatchDone \/ SetLocale \/ FlushDone
           \/ Gone \/ UNCHANGED vars
    PROVE  UNCHANGED Channel!vars
<1> USE DEF vars, ownerVars, queueVars, batchVars, handleVars, Goto
<1>1. UNCHANGED <<m_queue_query, m_queue_query_copy, p, executed, m_queue_result, m_bEnd>>
  BY DEF Stop, Drained, DrainWait, QuitRelease, QuitJoin, Connect, Wait, BatchDone,
         SetLocale, FlushDone, Gone
<1>2. \/ worker' = worker
      \/ /\ worker \notin {"pop", "popflush", "flush", "end"}
         /\ worker' \notin {"pop", "popflush", "flush", "end"}
      \/ worker = "flush" /\ worker' = "end"
  BY DEF Stop, Drained, DrainWait, QuitRelease, QuitJoin, Connect, Wait, BatchDone,
         SetLocale, FlushDone, Gone
<1> QED BY <1>1, <1>2, SameWaiting, ChannelSteps

LEMMA StartsAsChannel == Init => Channel!Init
<1> SUFFICES ASSUME Init PROVE Channel!Init
  OBVIOUS
<1>1. Waiting = <<>>
  BY ConcatEmpty, WaitingIs DEF Init
<1>2. Questions(m_queue_result) = <<>>
  <2>1. m_queue_result = <<>> /\ m_queue_result \in Seq(Answer)
    BY DEF Init
  <2>2. Len(m_queue_result) = 0
    BY <2>1
  <2> QED BY <2>1, <2>2, QuestionsFacts, SeqFacts
<1> QED BY <1>1, <1>2 DEF Init, Channel!Init, Questions, Question

LEMMA StepsAsChannel == IInv /\ [Next]_vars => [Channel!Next]_(Channel!vars)
<1> SUFFICES ASSUME IInv, [Next]_vars PROVE Channel!Next \/ UNCHANGED Channel!vars
  OBVIOUS
<1>1. ASSUME NEW r \in BOOLEAN, Query(r)
      PROVE  Channel!Next
  BY <1>1, QuerySubmits
<1>2. CASE Quit
  BY <1>2, QuitCloses, OthersUnseen DEF Quit
<1>3. CASE PopResult \/ TestEnd \/ CopyQuery \/ Send \/ FlushSend
  BY <1>3, PopResultTakes, TestEndAbandons, CopyQueryUnseen, SendRuns, FlushSendRuns
<1>4. CASE PopQueryFromCopyQueue \/ PopQuery
  BY <1>4, PopsComplete
<1>5. CASE \/ Stop \/ Drained \/ DrainWait \/ Connect \/ Wait \/ BatchDone
           \/ SetLocale \/ FlushDone \/ Gone \/ UNCHANGED vars
  BY <1>5, OthersUnseen
<1> QED BY <1>1, <1>2, <1>3, <1>4, <1>5 DEF Next, OwnerStep, WorkerStep

\* Seen by its owner, the two-thread object is the sequential channel, however many
\* statements it is given and however many attempts fail.
THEOREM ImplementsSqlChannel == Spec => ImplementsChannel
  BY IInvHolds, StartsAsChannel, StepsAsChannel, PTL
     DEF Spec, ImplementsChannel, Channel!Spec

=============================================================================
