------------------------- MODULE JournalStoreProofs -------------------------
(***************************************************************************)
(* The journal implements an atomic registry, for any number of processes, *)
(* transactions and crashes.                                               *)
(***************************************************************************)
EXTENDS JournalStore, FiniteSetTheorems, TLAPS

\* One process holds the lock, and only it is in the middle of anything.
LockInv ==
    \A p \in Processes :
        /\ mode[p] # "down" <=> lock = p
        /\ mode[p] = "down" => step[p] = "idle"
        /\ mode[p] = "open" /\ step[p] # "idle" => p \notin failed /\ step[p] # "loaded"

\* What the owner is about to publish extends what the directory holds.
CandidateInv ==
    \A p \in Processes :
        /\ step[p] = "loaded" => visible = candidate[p]
        /\ step[p] \in {"written", "synced"} => Content(visible) \subseteq candidate[p]
        /\ step[p] = "renamed" => visible = candidate[p]
        /\ step[p] \in {"synced", "renamed"} => candidate[p] \in flushed

\* The directory entry on disk is the one processes see, or an older one, and
\* holds every answer.
DirectoryInv ==
    /\ Content(durable) \subseteq Content(visible)
    /\ durable # Absent => visible # Absent /\ durable \in flushed
    /\ visible # Absent => visible \in flushed
    /\ answered \subseteq Content(durable)

StoreInv == StoreTypeOK /\ LockInv /\ CandidateInv /\ DirectoryInv /\ OwnerKnowsJournal

USE DEF fileVars, memoryVars, vars

\* Finitely many processes abandon finitely many files.
LEMMA AbandonedIsNat ==
    ASSUME NEW procs \in SUBSET Processes
    PROVE  Abandoned(procs) \in Nat
  <1>1. IsFiniteSet({p \in procs : step[p] \in {"written", "synced"}})
    BY StoreAssumption, FS_Subset, {p \in procs : step[p] \in {"written", "synced"}} \subseteq Processes
  <1> QED BY <1>1, FS_CardinalityType DEF Abandoned

\* Every step of a process, of the file system and of the node keeps the
\* invariant.
LEMMA StoreStep ==
    ASSUME StoreInv, [Next]_vars
    PROVE  StoreInv'
  <1> USE StoreAssumption
  <1> USE DEF StoreInv, StoreTypeOK, Registries, Steps, LockInv, CandidateInv,
              DirectoryInv, OwnerKnowsJournal, Content
  <1>1. ASSUME NEW p \in Processes, Open(p) PROVE StoreInv'
    BY <1>1 DEF Open
  <1>2. ASSUME NEW p \in Processes, Create(p) PROVE StoreInv'
    BY <1>2 DEF Create, WriteTemp
  <1>3. ASSUME NEW p \in Processes, Load(p) PROVE StoreInv'
    BY <1>3 DEF Load
  <1>4. ASSUME NEW p \in Processes, Adopt(p) PROVE StoreInv'
    BY <1>4 DEF Adopt, Drop
  <1>5. ASSUME NEW p \in Processes, OpenFails(p) PROVE StoreInv'
    BY <1>5 DEF OpenFails, Drop
  <1>6. ASSUME NEW p \in Processes, Close(p) PROVE StoreInv'
    BY <1>6 DEF Close
  <1>7. ASSUME NEW p \in Processes, SyncTemp(p) PROVE StoreInv'
    BY <1>7 DEF SyncTemp
  <1>8. ASSUME NEW p \in Processes, Rename(p) PROVE StoreInv'
    BY <1>8 DEF Rename
  <1>9. ASSUME NEW p \in Processes, Publish(p) PROVE StoreInv'
    BY <1>9 DEF Publish, Drop
  <1>10. ASSUME NEW p \in Processes, PublicationFails(p) PROVE StoreInv'
    BY <1>10 DEF PublicationFails, Drop
  <1>11. ASSUME NEW p \in Processes, Crash(p) PROVE StoreInv'
    BY <1>11, AbandonedIsNat DEF Crash, Drop
  <1>12. ASSUME NEW p \in Processes, NEW t \in Transactions, Recover(p, t) PROVE StoreInv'
    BY <1>12 DEF Recover, WriteTemp
  <1>13. ASSUME NEW p \in Processes, NEW t \in Transactions, Transaction(p, t) PROVE StoreInv'
    BY <1>13 DEF Transaction, WriteTemp
  <1>14. CASE WriteBack
    BY <1>14 DEF WriteBack
  <1>15. CASE NodeFails
    BY <1>15, AbandonedIsNat DEF NodeFails
  <1>16. CASE UNCHANGED vars
    BY <1>16
  <1> QED BY <1>1, <1>2, <1>3, <1>4, <1>5, <1>6, <1>7, <1>8, <1>9, <1>10, <1>11, <1>12, <1>13, <1>14, <1>15, <1>16 DEF Next

\* Before the first Open nothing is held and the journal is the empty one.
LEMMA StoreInit ==
    ASSUME Init
    PROVE  StoreInv
  BY StoreAssumption DEF Init, StoreInv, StoreTypeOK, Registries, Steps, LockInv,
                         CandidateInv, DirectoryInv, OwnerKnowsJournal, Content

\* The strengthened invariant of the journal store holds in every state.
THEOREM StoreInvariant == Spec => []StoreInv
  BY StoreInit, StoreStep, PTL DEF Spec

\* What Store told a caller survives the death of the process and of the
\* node, at any point of a publication.
THEOREM AnswersDurable == Spec => []AnswersSurvive
  <1>1. StoreInv => AnswersSurvive
    BY StoreAssumption DEF StoreInv, StoreTypeOK, Registries, DirectoryInv, Content, AnswersSurvive
  <1> QED BY <1>1, StoreInvariant, PTL

\* The live owner's copy in memory is the journal on disk.
THEOREM OwnerSafe == Spec => []OwnerKnowsJournal
  <1>1. StoreInv => OwnerKnowsJournal
    BY DEF StoreInv
  <1> QED BY <1>1, StoreInvariant, PTL

\* A step of the store is a step of the atomic registry, or leaves it alone.
LEMMA StoreStepRefines ==
    ASSUME StoreInv, [Next]_vars
    PROVE  [Registry!Next]_<<Content(durable), answered>>
  <1> USE StoreAssumption
  <1> USE DEF Registry!Next, Registry!Commit, Registry!Answer
  <1>1. ASSUME NEW p \in Processes, Publish(p) PROVE Registry!Answer(candidate[p])
    BY <1>1 DEF Publish, StoreInv, StoreTypeOK, Registries, CandidateInv, DirectoryInv, Content
  <1>2. ASSUME NEW p \in Processes, Adopt(p) PROVE Registry!Answer(candidate[p])
    BY <1>2 DEF Adopt, StoreInv, StoreTypeOK, Registries, CandidateInv, DirectoryInv, Content
  <1>3. ASSUME NEW p \in Processes PROVE candidate[p] \in SUBSET Transactions
    BY DEF StoreInv, StoreTypeOK, Registries
  <1>4. CASE WriteBack
    <2>1. Registry!Commit(Content(visible))
      BY <1>4 DEF WriteBack, StoreInv, DirectoryInv
    <2>2. Content(visible) \in SUBSET Transactions
      BY DEF StoreInv, StoreTypeOK, Registries, Content
    <2> QED BY <2>1, <2>2
  <1>5. ASSUME NEW p \in Processes,
               \/ Open(p) \/ Create(p) \/ Load(p) \/ OpenFails(p) \/ Close(p)
               \/ SyncTemp(p) \/ Rename(p) \/ PublicationFails(p) \/ Crash(p)
               \/ \E t \in Transactions : Recover(p, t) \/ Transaction(p, t)
        PROVE  UNCHANGED <<durable, answered>>
    BY <1>5 DEF Open, Create, Load, OpenFails, Close, SyncTemp, Rename, PublicationFails,
                Crash, Recover, Transaction, WriteTemp
  <1>6. ASSUME NodeFails \/ UNCHANGED vars PROVE UNCHANGED <<durable, answered>>
    BY <1>6 DEF NodeFails
  <1>7. UNCHANGED <<durable, answered>> => UNCHANGED <<Content(durable), answered>>
    BY DEF Content
  <1>8. ASSUME NEW p \in Processes, Publish(p) \/ Adopt(p) PROVE Registry!Next
    BY <1>1, <1>2, <1>3, <1>8
  <1> QED BY <1>4, <1>5, <1>6, <1>7, <1>8 DEF Next

\* The journal file implements the atomic registry that every other module
\* assumes: whole transactions, none undone, every answer permanent.
THEOREM StoreIsAtomic == Spec => AtomicStore
  <1>1. Init => Registry!Init
    BY StoreAssumption DEF Init, Registry!Init, Content
  <1> QED BY <1>1, StoreStepRefines, StoreInvariant, PTL DEF Spec, AtomicStore, Registry!Spec
=============================================================================
