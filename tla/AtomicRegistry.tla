--------------------------- MODULE AtomicRegistry ---------------------------
(***************************************************************************)
(* What the journal promises the rest of the controller: one registry that *)
(* only grows by whole transactions, and whose every answer is permanent.  *)
(* The other modules take each Store method as one atomic durable step;    *)
(* this is the specification that justifies it.                            *)
(***************************************************************************)
CONSTANT Transactions

VARIABLES
    registry,   \* transactions that a restart will find
    answered    \* transactions that a caller was told of

Init == registry = {} /\ answered = {}

\* Transactions take effect.  Usually it is one; after a death that left a
\* transaction undecided, it may take effect together with the next one.
Commit(new) == registry' = registry \cup new /\ UNCHANGED answered

\* Transactions, or none, take effect, and a caller learns the result.
Answer(new) == registry' = registry \cup new /\ answered' = registry'

Next == \E new \in SUBSET Transactions : Commit(new) \/ Answer(new)

Spec == Init /\ [][Next]_<<registry, answered>>
=============================================================================
