-------------------------- MODULE OutcomeDelivery ---------------------------
(***************************************************************************)
(* What an attempt is promised: one outcome, which the backend takes at    *)
(* most once and only when it is proven, and of which the controller says  *)
(* "delivered" only when the backend's row of the task is that outcome.    *)
(* Records, requests, retries, Pods and restarts do not appear here.       *)
(***************************************************************************)
CONSTANT Attempts

VARIABLES
    outcome,   \* of an attempt: "none", "result", "cancelled" (acknowledged) or "failure"
    proven,    \* attempts whose outcome may be sent: a failure, or a signed result
    row,       \* the task in the backend: "open", or how it ended
    verdict    \* what the controller learned: "open", "delivered" or "rejected"

Init ==
    /\ outcome = [a \in Attempts |-> "none"] /\ proven = {}
    /\ row = [a \in Attempts |-> "open"] /\ verdict = [a \in Attempts |-> "open"]

\* The worker ends the turn; it acknowledges only a cancellation that stands.
Offer(a, o) ==
    /\ outcome[a] = "none"
    /\ o = "cancelled" => row[a] = "cancelled"
    /\ outcome' = [outcome EXCEPT ![a] = o] /\ UNCHANGED <<proven, row, verdict>>

\* A signature makes the worker's outcome final.
Prove(a) ==
    /\ outcome[a] \in {"result", "cancelled"} /\ proven' = proven \cup {a}
    /\ UNCHANGED <<outcome, row, verdict>>

\* The controller gives up on an attempt, never on a proven outcome.
Fail(a) ==
    /\ a \notin proven
    /\ outcome' = [outcome EXCEPT ![a] = "failure"] /\ proven' = proven \cup {a}
    /\ UNCHANGED <<row, verdict>>

\* The backend takes the outcome that was proven, while the task is open.
Accept(a) ==
    /\ a \in proven /\ row[a] = "open" /\ outcome[a] # "cancelled"
    /\ row' = [row EXCEPT ![a] = outcome[a]] /\ UNCHANGED <<outcome, proven, verdict>>

\* The user or the backend ends the task itself.
End(a, how) ==
    /\ row[a] = "open"
    /\ row' = [row EXCEPT ![a] = how] /\ UNCHANGED <<outcome, proven, verdict>>

\* The controller learns that the row is the outcome it holds.
Deliver(a) ==
    /\ verdict[a] = "open" /\ a \in proven /\ row[a] = outcome[a]
    /\ verdict' = [verdict EXCEPT ![a] = "delivered"] /\ UNCHANGED <<outcome, proven, row>>

\* It is told that the outcome is not wanted; the answer that accepted an
\* earlier request may have been lost.
Refuse(a) ==
    /\ verdict[a] = "open" /\ a \in proven
    /\ verdict' = [verdict EXCEPT ![a] = "rejected"] /\ UNCHANGED <<outcome, proven, row>>

Next ==
    \E a \in Attempts :
        \/ \E o \in {"result", "cancelled"} : Offer(a, o)
        \/ Prove(a) \/ Fail(a)
        \/ Accept(a) \/ \E how \in {"cancelled", "failure"} : End(a, how)
        \/ Deliver(a) \/ Refuse(a)

Spec == Init /\ [][Next]_<<outcome, proven, row, verdict>>
=============================================================================
