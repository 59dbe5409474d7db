-------------------------- MODULE MCWorkerSessions --------------------------
(* Small instances of WorkerSessions.                                      *)
EXTENDS WorkerSessions, TLC

CONSTANTS a1, a2, a3, t1, t2, c1, c2

OneTask == a1 :> t1
TwoTasks == a1 :> t1 @@ a2 :> t2
RetryAndOther == a1 :> t1 @@ a2 :> t1 @@ a3 :> t2
OneConversation == t1 :> c1 @@ t2 :> c1
TwoConversations == t1 :> c1 @@ t2 :> c2
SoleConversation == t1 :> c1

\* What the shared run explores: two attempts of one task, or one attempt of each
\* of two tasks; never the first attempt and the other task (a CONSTRAINT).
RetryOrOther == state[a1] = "unknown" \/ state[a3] = "unknown"
=============================================================================
