----------------------------- MODULE SqlChannel -----------------------------
(***************************************************************************)
(* What CAsyncSQL promises the thread that owns it, without its threads,   *)
(* queues and semaphore: statements run one at a time in the order they    *)
(* were submitted, each at most once; a statement submitted by ReturnQuery *)
(* is answered exactly once, after it ran or was refused, in that order;   *)
(* and only a channel that was closed may abandon statements, those that   *)
(* are waiting when it gives up.                                           *)
(*                                                                         *)
(* AsyncSQL implements it: AsyncSQL!Channel is the refinement mapping.     *)
(***************************************************************************)
EXTENDS Naturals, Sequences

CONSTANT Statement      \* what is submitted; a record with a field bReturn

VARIABLES
    pending,            \* submitted statements that have not been run
    running,            \* <<s>> while s has been run and not yet completed
    applied,            \* the statements the database executed, in order
    answers,            \* answers ready for the owner
    closed              \* the owner has told the channel to stop

vars == <<pending, running, applied, answers, closed>>

Init ==
    /\ pending = <<>>
    /\ running = <<>>
    /\ applied = <<>>
    /\ answers = <<>>
    /\ closed = FALSE

Submit(s) ==
    /\ ~closed
    /\ pending' = Append(pending, s)
    /\ UNCHANGED <<running, applied, answers, closed>>

\* The oldest statement is sent; the database executes it, or refuses it.
Run ==
    /\ running = <<>>
    /\ pending # <<>>
    /\ pending' = Tail(pending)
    /\ running' = <<Head(pending)>>
    /\ applied' \in {applied, Append(applied, Head(pending))}
    /\ UNCHANGED <<answers, closed>>

Complete ==
    /\ running # <<>>
    /\ running' = <<>>
    /\ answers' = IF Head(running).bReturn
                    THEN Append(answers, Head(running))
                    ELSE answers
    /\ UNCHANGED <<pending, applied, closed>>

Take ==
    /\ answers # <<>>
    /\ answers' = Tail(answers)
    /\ UNCHANGED <<pending, running, applied, closed>>

Close ==
    /\ ~closed
    /\ closed' = TRUE
    /\ UNCHANGED <<pending, running, applied, answers>>

\* A closed channel may give up its oldest waiting statements.
Abandon ==
    /\ closed
    /\ \E n \in 1 .. Len(pending) :
          pending' = SubSeq(pending, n + 1, Len(pending))
    /\ UNCHANGED <<running, applied, answers, closed>>

Next ==
    \/ \E s \in Statement : Submit(s)
    \/ Run
    \/ Complete
    \/ Take
    \/ Close
    \/ Abandon

Spec == Init /\ [][Next]_vars
=============================================================================
