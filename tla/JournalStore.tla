---------------------------- MODULE JournalStore ----------------------------
(***************************************************************************)
(* The journal file of the controller (workspace/store.go): the process    *)
(* lock, the committed copy in memory, the replacement of journal.json     *)
(* through a temporary file, failed publications, and what Open makes of   *)
(* the directory after a process or a node died in between.                *)
(*                                                                         *)
(* A registry is the set of the transactions it contains, so that a lost   *)
(* or undone transaction shows.  Processes are controller containers: the  *)
(* old one may still be alive when the new one starts.                     *)
(***************************************************************************)
EXTENDS Naturals, FiniteSets

CONSTANTS
    Processes,
    Transactions,
    Absent,          \* there is no journal.json
    Nobody,          \* the lock is free
    MaxStoreFiles,   \* MaxStoreBytes, in files of the size of a registry
    MaxCrashes       \* model bound: deaths of a process or of the node

ASSUME StoreAssumption ==
    /\ \A r \in SUBSET Transactions : r # Absent
    /\ Nobody \notin Processes /\ IsFiniteSet(Processes)
    /\ MaxStoreFiles \in Nat /\ MaxCrashes \in Nat

VARIABLES
    \* A process
    mode,        \* "down", "locked" while it opens the store, or "open"
    step,        \* where the publication it runs under Store.mu has got
    candidate,   \* the registry it is about to publish
    committed,   \* Store.committed
    failed,      \* {p : Store.failed # nil}
    lock,        \* holder of controller.lock
    \* The directory, as processes see it, and as a dead node leaves it
    visible,     \* journal.json in the page cache
    durable,     \* the journal.json that a node restart finds
    flushed,     \* registries whose file was synced before it was renamed
    leftover,    \* abandoned .pending- files
    crashes,
    \* Transactions that some caller has learned of
    answered

fileVars == <<visible, durable, flushed, leftover, crashes>>
memoryVars == <<candidate, committed, failed>>
vars == <<mode, step, candidate, committed, failed, lock, fileVars, answered>>

Registries == SUBSET Transactions
Steps == {"idle", "loaded", "written", "synced", "renamed"}

\* Every field keeps its range: in particular no process takes a missing
\* journal for a registry.
StoreTypeOK ==
    /\ mode \in [Processes -> {"down", "locked", "open"}]
    /\ step \in [Processes -> Steps]
    /\ candidate \in [Processes -> Registries]
    /\ committed \in [Processes -> Registries]
    /\ failed \subseteq Processes
    /\ lock \in Processes \cup {Nobody}
    /\ visible \in {Absent} \cup Registries /\ durable \in {Absent} \cup Registries
    /\ flushed \subseteq Registries
    /\ leftover \in Nat /\ crashes \in Nat
    /\ answered \in Registries

Init ==
    /\ mode = [p \in Processes |-> "down"] /\ step = [p \in Processes |-> "idle"]
    /\ candidate = [p \in Processes |-> {}] /\ committed = [p \in Processes |-> {}]
    /\ failed = {} /\ lock = Nobody
    /\ visible = Absent /\ durable = Absent /\ flushed = {}
    /\ leftover = 0 /\ crashes = 0 /\ answered = {}

-----------------------------------------------------------------------------
(* Publication: write, then atomicWrite.  Store.mu is held throughout, so  *)
(* a process is in at most one publication and no reader sees it halfway.  *)

\* The candidate is a local value of the method that ends.
Drop(p) == candidate' = [candidate EXCEPT ![p] = {}]

\* checkBudget: the new file beside everything in the directory.
WithinBudget ==
    leftover + (IF visible = Absent THEN 0 ELSE 1) + 1 <= MaxStoreFiles

\* validate, the budgets, and the temporary file with its content.
WriteTemp(p, r) ==
    /\ step[p] \in {"idle", "loaded"} /\ WithinBudget
    /\ candidate' = [candidate EXCEPT ![p] = r]
    /\ step' = [step EXCEPT ![p] = "written"]
    /\ UNCHANGED <<mode, committed, failed, lock, fileVars, answered>>

SyncTemp(p) ==
    /\ step[p] = "written"
    /\ step' = [step EXCEPT ![p] = "synced"]
    /\ flushed' = flushed \cup {candidate[p]}
    /\ UNCHANGED <<mode, memoryVars, lock, visible, durable, leftover, crashes, answered>>

\* Mutant: the temporary file is renamed before its content is synced.
RenameUnsynced(p) ==
    /\ step[p] \in {"written", "synced"}
    /\ step' = [step EXCEPT ![p] = "renamed"]
    /\ visible' = candidate[p]
    /\ UNCHANGED <<mode, memoryVars, lock, durable, flushed, leftover, crashes, answered>>

Rename(p) ==
    /\ step[p] = "synced"
    /\ step' = [step EXCEPT ![p] = "renamed"]
    /\ visible' = candidate[p]
    /\ UNCHANGED <<mode, memoryVars, lock, durable, flushed, leftover, crashes, answered>>

\* syncDirectory returns, checkJournal passes, the copy in memory is
\* replaced and the method answers its caller.
Publish(p) ==
    /\ step[p] = "renamed" /\ visible = candidate[p]
    /\ durable' = visible
    /\ committed' = [committed EXCEPT ![p] = candidate[p]]
    /\ step' = [step EXCEPT ![p] = "idle"]
    /\ mode' = [mode EXCEPT ![p] = "open"]
    /\ answered' = candidate[p]
    /\ Drop(p)
    /\ UNCHANGED <<failed, lock, visible, flushed, leftover, crashes>>

\* An operation of atomicWrite fails: the temporary file is removed, the
\* store refuses every further use, and a store that is being opened closes.
PublicationFails(p) ==
    /\ step[p] \in {"written", "synced", "renamed"}
    /\ step' = [step EXCEPT ![p] = "idle"]
    /\ \/ /\ mode[p] = "open"
          /\ failed' = failed \cup {p}
          /\ UNCHANGED <<mode, lock>>
       \/ /\ mode[p] = "locked"
          /\ mode' = [mode EXCEPT ![p] = "down"]
          /\ lock' = Nobody
          /\ UNCHANGED failed
    /\ Drop(p)
    /\ UNCHANGED <<committed, fileVars, answered>>

-----------------------------------------------------------------------------
(* The store                                                               *)

\* Open takes the lock without waiting.
Open(p) ==
    /\ mode[p] = "down" /\ lock = Nobody
    /\ lock' = p
    /\ mode' = [mode EXCEPT ![p] = "locked"]
    /\ failed' = failed \ {p}
    /\ UNCHANGED <<step, candidate, committed, fileVars, answered>>

\* The first start publishes an empty registry.
Create(p) ==
    /\ mode[p] = "locked" /\ step[p] = "idle"
    /\ visible = Absent /\ leftover = 0
    /\ WriteTemp(p, {})

\* readJournal
Load(p) ==
    /\ mode[p] = "locked" /\ step[p] = "idle" /\ visible # Absent
    /\ candidate' = [candidate EXCEPT ![p] = visible]
    /\ step' = [step EXCEPT ![p] = "loaded"]
    /\ UNCHANGED <<mode, committed, failed, lock, fileVars, answered>>

\* Open found requests in flight, or an older schema, and publishes the
\* journal it derives from the one it read.
Recover(p, t) ==
    /\ mode[p] = "locked" /\ step[p] = "loaded" /\ t \notin candidate[p]
    /\ WriteTemp(p, candidate[p] \cup {t})

\* Mutant: the journal that was read is trusted without syncing its directory.
AdoptUnsynced(p) ==
    /\ mode[p] = "locked" /\ step[p] = "loaded" /\ visible = candidate[p]
    /\ committed' = [committed EXCEPT ![p] = candidate[p]]
    /\ step' = [step EXCEPT ![p] = "idle"]
    /\ mode' = [mode EXCEPT ![p] = "open"]
    /\ answered' = candidate[p]
    /\ Drop(p)
    /\ UNCHANGED <<failed, lock, fileVars>>

\* Open found nothing to change: it syncs the directory entry it read before
\* the journal may authorize anything.
Adopt(p) ==
    /\ mode[p] = "locked" /\ step[p] = "loaded" /\ visible = candidate[p]
    /\ durable' = visible
    /\ committed' = [committed EXCEPT ![p] = candidate[p]]
    /\ step' = [step EXCEPT ![p] = "idle"]
    /\ mode' = [mode EXCEPT ![p] = "open"]
    /\ answered' = candidate[p]
    /\ Drop(p)
    /\ UNCHANGED <<failed, lock, visible, flushed, leftover, crashes>>

\* Open gives up: there is no journal but an abandoned publication, the
\* journal it would publish is over budget, or the file system fails.
OpenFails(p) ==
    /\ mode[p] = "locked" /\ step[p] \in {"idle", "loaded"}
    /\ mode' = [mode EXCEPT ![p] = "down"] /\ step' = [step EXCEPT ![p] = "idle"]
    /\ lock' = Nobody
    /\ Drop(p)
    /\ UNCHANGED <<committed, failed, fileVars, answered>>

\* Mutant: a store goes on with the registry in memory after a publication
\* failed.
TransactionAfterFailure(p, t) ==
    /\ mode[p] = "open" /\ step[p] = "idle"
    /\ t \notin committed[p]
    /\ WriteTemp(p, committed[p] \cup {t})

\* transaction: a method that changes the registry.  One that changes
\* nothing, or is refused by its checks, validation or a budget, is a stutter.
Transaction(p, t) ==
    /\ mode[p] = "open" /\ step[p] = "idle" /\ p \notin failed
    /\ visible = committed[p] /\ t \notin committed[p]
    /\ WriteTemp(p, committed[p] \cup {t})

\* Close waits for Store.mu.
Close(p) ==
    /\ mode[p] = "open" /\ step[p] = "idle"
    /\ mode' = [mode EXCEPT ![p] = "down"]
    /\ lock' = Nobody
    /\ committed' = [committed EXCEPT ![p] = {}]
    /\ UNCHANGED <<step, candidate, failed, fileVars, answered>>

-----------------------------------------------------------------------------
(* The machine                                                             *)

\* The file system writes the directory entry on its own.
WriteBack ==
    /\ durable # visible
    /\ durable' = visible
    /\ UNCHANGED <<mode, step, memoryVars, lock, visible, flushed, leftover, crashes, answered>>

\* Temporary files that die with their process stay in the directory.
Abandoned(procs) == Cardinality({p \in procs : step[p] \in {"written", "synced"}})

\* A process dies; its lock is released.
Crash(p) ==
    /\ crashes < MaxCrashes /\ mode[p] # "down"
    /\ crashes' = crashes + 1
    /\ leftover' = leftover + Abandoned({p})
    /\ mode' = [mode EXCEPT ![p] = "down"] /\ step' = [step EXCEPT ![p] = "idle"]
    /\ committed' = [committed EXCEPT ![p] = {}]
    /\ lock' = IF lock = p THEN Nobody ELSE lock
    /\ Drop(p)
    /\ UNCHANGED <<failed, visible, durable, flushed, answered>>

\* The node dies: what was not synced is lost, and a file whose content was
\* not synced is unreadable.
NodeFails ==
    /\ crashes < MaxCrashes
    /\ crashes' = crashes + 1
    /\ leftover' = leftover + Abandoned(Processes)
    /\ mode' = [p \in Processes |-> "down"] /\ step' = [p \in Processes |-> "idle"]
    /\ committed' = [p \in Processes |-> {}] /\ candidate' = [p \in Processes |-> {}]
    /\ lock' = Nobody /\ visible' = durable
    /\ UNCHANGED <<failed, durable, flushed, answered>>

Next ==
    \/ \E p \in Processes :
          \/ Open(p) \/ Create(p) \/ Load(p) \/ Adopt(p) \/ OpenFails(p)
          \/ Close(p)
          \/ SyncTemp(p) \/ Rename(p) \/ Publish(p) \/ PublicationFails(p) \/ Crash(p)
          \/ \E t \in Transactions : Recover(p, t) \/ Transaction(p, t)
    \/ WriteBack \/ NodeFails

Spec == Init /\ [][Next]_vars

-----------------------------------------------------------------------------
(* Properties                                                              *)

\* Whatever a caller learned from the store is in every journal that a
\* restart of the process or of the node can find, and that journal is
\* readable (write, atomicWrite, Open).
AnswersSurvive ==
    \A r \in {visible, durable} :
        /\ answered # {} => r # Absent /\ answered \subseteq r
        /\ r # Absent => r \in flushed

\* The live owner never finds a journal it does not know: without outside
\* interference checkJournal fails only after a failed publication.
OwnerKnowsJournal ==
    \A p \in Processes : mode[p] = "open" /\ p \notin failed /\ step[p] # "renamed" =>
        visible = committed[p] /\ durable = committed[p]

Content(r) == IF r = Absent THEN {} ELSE r

Registry == INSTANCE AtomicRegistry WITH registry <- Content(durable)

\* The journal is an atomic registry: transactions take effect whole, one
\* after the other, none is undone, and an answer tells the whole registry.
AtomicStore == Registry!Spec
=============================================================================
