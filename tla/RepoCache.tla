----------------------------- MODULE RepoCache -----------------------------
(***************************************************************************)
(* The controller's Git cache (package repocache): refreshes shared by the *)
(* requests that meet one in progress, the lock of a repository entry, the *)
(* pinned immutable checkouts that readers get, their pruning, the         *)
(* eviction of inactive entries, recovery, and the quarantine of the whole *)
(* cache when a Git process could not be proven dead.                      *)
(*                                                                         *)
(* A version of the remote's refs is a number, and the state that names a  *)
(* canonical checkout is a version with the requested revision.  A Git     *)
(* command is a step of nondeterministic outcome.                          *)
(***************************************************************************)
EXTENDS Naturals, FiniteSets

CONSTANTS
    Callers,      \* Snapshot calls, each made once
    Keys,         \* repository entries (workspace, URL, authority)
    KeyOf,        \* the entry a call asks for
    Refs,         \* revisions
    RefOf,        \* the revision a call asks for
    None, Absent,
    Slots,        \* the capacities Manager.slots may be made with
    MaxVersion,   \* model bound: versions of the remote
    MaxEvictions, \* model bound: evictions of an entry
    MaxRestarts,  \* model bound: controller restarts
    Impatient,    \* model bound: calls whose task may be cancelled
    Expiring,     \* model bound: entries whose token may expire
    Stuck,        \* model bound: entries whose Git process may survive
    Unremovable   \* model bound: entries where os.RemoveAll may fail halfway

ASSUME CacheAssumption ==
    /\ KeyOf \in [Callers -> Keys] /\ RefOf \in [Callers -> Refs]
    /\ None \notin Callers /\ "flight" \notin Callers \cup {None}
    /\ None \notin (1 .. MaxVersion) \X Refs
    /\ Slots \subseteq Nat \ {0} /\ MaxVersion \in Nat \ {0}
    /\ MaxEvictions \in Nat /\ MaxRestarts \in Nat

VARIABLES
    \* A Snapshot call
    pc,
    answer,      \* result of the refresh it waits for, once that is done
    authority,   \* the remote's version when that refresh was created
    holds,       \* the checkout it has pinned, or None
    object,      \* generation of the entry object it refers to
    \* entry: the object in Manager.entries
    generation,  \* of the object; 0 if the map has none
    active,      \* entry.active
    mutex,       \* holder of entry.mu
    flight,      \* entry.flight, by its progress
    cancelled,   \* {k : the last waiter cancelled the flight}
    expired,     \* {k : the deadline of the flight has passed}
    flightBase,  \* the remote's version when the flight was created
    valid,       \* {k : entry.valid}
    known,       \* DOMAIN entry.checkouts
    verified,    \* those with canonicalCheckout.verified
    current,     \* identity.Checkout
    \* The file system
    repo,        \* version of repository.git, 0 if its refs are not consistent
    dir,         \* canonical checkout directories
    metadata,    \* the Checkout that metadata.json names; Absent without a file
    \* Manager and the world
    closed, closeReturned,
    survivors,   \* entries whose Git process could not be proven dead
    slots,       \* cap(Manager.slots)
    remote, evictions, restarts

callVars == <<pc, answer, authority, holds, object>>
flightVars == <<flight, cancelled, expired, flightBase>>
checkoutVars == <<known, verified, dir>>
entryVars == <<generation, active, mutex, flightVars, valid, current, checkoutVars>>
fileVars == <<repo, metadata>>
managerVars == <<closed, closeReturned, survivors>>
boundVars == <<slots, remote, evictions, restarts>>
vars == <<callVars, entryVars, fileVars, managerVars, boundVars>>

Versions == 1 .. MaxVersion
States == Versions \X Refs

\* The process has just recovered what an earlier one left: an entry that has
\* metadata, its refs, and the checkout the metadata names, which may be
\* damaged.  Some calls may never be made ("done"), and a behaviour may begin at
\* any version of the remote and close to the last eviction or restart.
Init ==
    /\ pc \in [Callers -> {"idle", "done"}] /\ answer = [c \in Callers |-> "none"]
    /\ authority = [c \in Callers |-> 0] /\ holds = [c \in Callers |-> None]
    /\ object = [c \in Callers |-> 0]
    /\ metadata \in [Keys -> States \cup {None, Absent}]
    /\ evictions \in [Keys -> 0 .. MaxEvictions] /\ restarts \in 0 .. MaxRestarts
    /\ remote \in [Keys -> Versions] /\ slots \in Slots
    /\ repo = [k \in Keys |-> 0]
    /\ \E sound, damaged \in SUBSET Keys :
          dir = [k \in Keys |-> [s \in States |->
             IF s # metadata[k] \/ k \notin sound \cup damaged THEN "none"
             ELSE IF k \in damaged THEN "partial" ELSE "whole"]]
    /\ generation = [k \in Keys |-> IF metadata[k] = Absent THEN 0 ELSE evictions[k] + 1]
    /\ current = [k \in Keys |-> IF metadata[k] = Absent THEN None ELSE metadata[k]]
    /\ active = [k \in Keys |-> 0] /\ mutex = [k \in Keys |-> None]
    /\ flight = [k \in Keys |-> "none"] /\ cancelled = {} /\ expired = {}
    /\ flightBase = [k \in Keys |-> 0] /\ valid = {}
    /\ known = [k \in Keys |-> {}] /\ verified = [k \in Keys |-> {}]
    /\ closed = FALSE /\ closeReturned = FALSE /\ survivors = {}

-----------------------------------------------------------------------------
Users(k) == {c \in Callers : KeyOf[c] = k}
Pinned(k) == {holds[c] : c \in Users(k)} \ {None}

\* Manager.unproven: the cache is in quarantine until the process is replaced.
unproven == survivors # {}

\* Operations under Manager.slots.
Operations == {k \in Keys : flight[k] = "running"}
              \cup {c \in Callers : pc[c] \in {"checkout", "removing", "pinned"}}
SlotFree == Cardinality(Operations) < slots

\* The context of a call, or of a flight, is done.
GivesUp(c) == c \in Impatient \/ closed
FlightOver(k) == k \in cancelled \cup expired \/ closed

\* Mutant: pruning does not ask whether Git writers are unproven.
DisposableAnyway(kn, kept) == kn \ kept

\* Of the checkouts an entry knows, those it may prune: once Git writers are
\* unproven, none.
Disposable(kn, kept) == IF unproven THEN {} ELSE kn \ kept

\* pruneCheckouts, given the directories d of an entry that knows kn, has
\* verified ver and was last asked for cur: only that checkout and the pinned
\* ones stay.  A removal that fails halfway leaves a damaged directory and its
\* record.  All of it happens under Manager.mu.
PruneKeeping(k, d, kn, ver, cur, pinned) ==
    LET removed == Disposable(kn, pinned \cup {cur})
    IN  \E failing \in SUBSET {s \in removed : k \in Unremovable /\ d[s] # "none"} :
            /\ dir' = [dir EXCEPT ![k] = [s \in States |->
                   IF s \notin removed THEN d[s]
                   ELSE IF s \in failing THEN "partial" ELSE "none"]]
            /\ known' = [known EXCEPT ![k] = kn \ (removed \ failing)]
            /\ verified' = [verified EXCEPT ![k] = ver \ (removed \ failing)]

Prune(k) == PruneKeeping(k, dir[k], known[k], verified[k], current[k], Pinned(k))

\* The call returns: its deferred functions give up the entry.
Return(c, state, count) ==
    /\ pc' = [pc EXCEPT ![c] = state]
    /\ answer' = [answer EXCEPT ![c] = "none"]
    /\ active' = [active EXCEPT ![KeyOf[c]] = @ - count]

Unlock(k) == mutex' = [mutex EXCEPT ![k] = None]

-----------------------------------------------------------------------------
(* snapshot and awaitRefresh                                               *)

\* The call finds or makes the entry object and counts itself.
Begin(c) ==
    LET k == KeyOf[c] IN
    /\ pc[c] = "idle" /\ ~ closed
    /\ pc' = [pc EXCEPT ![c] = "enter"]
    /\ active' = [active EXCEPT ![k] = @ + 1]
    /\ generation' = [generation EXCEPT ![k] = IF @ = 0 THEN evictions[k] + 1 ELSE @]
    /\ object' = [object EXCEPT ![c] = generation'[k]]
    /\ UNCHANGED <<answer, authority, holds, mutex, flightVars, valid, current, checkoutVars,
                   fileVars, managerVars, boundVars>>

\* The cache is closed, or has no space that it could reclaim.
Refuse(c) ==
    /\ pc[c] = "idle"
    /\ pc' = [pc EXCEPT ![c] = "done"]
    /\ UNCHANGED <<answer, authority, holds, object, entryVars, fileVars, managerVars,
                   boundVars>>

\* awaitRefresh joins the refresh in progress or starts one, which counts as
\* a user of the entry.
JoinOrStart(c) ==
    LET k == KeyOf[c] IN
    /\ pc[c] = "enter" /\ ~ closed
    /\ pc' = [pc EXCEPT ![c] = "await"]
    /\ authority' = [authority EXCEPT ![c] =
                       IF flight[k] = "none" THEN remote[k] ELSE flightBase[k]]
    /\ \/ flight[k] # "none" /\ UNCHANGED <<flightVars, active>>
       \/ /\ flight[k] = "none"
          /\ flight' = [flight EXCEPT ![k] = "queued"]
          /\ flightBase' = [flightBase EXCEPT ![k] = remote[k]]
          /\ active' = [active EXCEPT ![k] = @ + 1]
          /\ UNCHANGED <<cancelled, expired>>
    /\ UNCHANGED <<answer, holds, object, generation, mutex, valid, current, checkoutVars,
                   fileVars, managerVars, boundVars>>

\* Mutant: a refresh that its last waiter cancelled is joined.
JoinAny(c) == JoinOrStart(c)

\* A refresh whose context is done is waited for, not joined.
Join(c) == KeyOf[c] \notin cancelled \cup expired /\ JoinOrStart(c)

Waiters(k) == {c \in Users(k) : pc[c] = "await" /\ answer[c] = "none"}

\* The task of the call ends before the refresh; the last waiter cancels it.
LeaveFlight(c) ==
    LET k == KeyOf[c] IN
    /\ pc[c] = "await" /\ answer[c] = "none" /\ GivesUp(c)
    /\ cancelled' = IF Waiters(k) = {c} THEN cancelled \cup {k} ELSE cancelled
    /\ Return(c, "done", 1)
    /\ UNCHANGED <<authority, holds, object, generation, mutex, flight, expired, flightBase,
                   valid, current, checkoutVars, fileVars, managerVars, boundVars>>

\* The refresh succeeded, and the call goes on.
Refreshed(c) ==
    /\ pc[c] = "await" /\ answer[c] = "ok"
    /\ pc' = [pc EXCEPT ![c] = "lock"]
    /\ UNCHANGED <<answer, authority, holds, object, entryVars, fileVars, managerVars,
                   boundVars>>

\* Every early return of the call before it has the lock, and the one after
\* a refresh that failed since.
Fails(c) ==
    /\ \/ pc[c] \in {"enter", "lock"} /\ GivesUp(c)
       \/ pc[c] = "await" /\ answer[c] = "err"
       \/ pc[c] = "lock" /\ mutex[KeyOf[c]] = None /\ KeyOf[c] \notin valid
    /\ Return(c, "done", 1)
    /\ UNCHANGED <<authority, holds, object, generation, mutex, flightVars, valid, current,
                   checkoutVars, fileVars, managerVars, boundVars>>

\* lockEntry.
TryLock(c) ==
    /\ pc[c] = "lock" /\ mutex[KeyOf[c]] = None
    /\ mutex' = [mutex EXCEPT ![KeyOf[c]] = c]
    /\ pc' = [pc EXCEPT ![c] = "locked"]
    /\ UNCHANGED <<answer, authority, holds, object, generation, active, flightVars, valid,
                   current, checkoutVars, fileVars, managerVars, boundVars>>

\* Mutant: the refresh that the call waited for is trusted although another
\* one ran since.
LockUnchecked(c) == TryLock(c)

\* The lock is taken, and the entry is still valid.
Lock(c) == KeyOf[c] \in valid /\ TryLock(c)

-----------------------------------------------------------------------------
(* checkout                                                                *)

RunCheckout(c) ==
    /\ pc[c] = "locked" /\ SlotFree /\ ~ unproven
    /\ pc' = [pc EXCEPT ![c] = "checkout"]
    /\ UNCHANGED <<answer, authority, holds, object, entryVars, fileVars, managerVars,
                   boundVars>>

\* The state the requested revision has in the refs of the repository.
StateOf(c) == <<repo[KeyOf[c]], RefOf[c]>>

\* A directory verified by this process is taken as it is, another one if
\* its digest matches.
Reused(k, s) ==
    /\ dir[k][s] # "none"
    /\ s \in verified[k] \/ dir[k][s] = "whole"

\* removeTree before a rebuild: it asks for unproven writers under Manager.mu
\* and removes the directory later, without that lock.  A digest that cannot be
\* read counts as one that does not match.
BeginRebuild(c) ==
    LET k == KeyOf[c]
        s == StateOf(c)
    IN  /\ pc[c] = "checkout" /\ dir[k][s] # "none" /\ s \notin verified[k] /\ ~ unproven
        /\ pc' = [pc EXCEPT ![c] = "removing"]
        /\ known' = [known EXCEPT ![k] = @ \cup {s}]
        /\ UNCHANGED <<answer, authority, holds, object, generation, active, mutex, flightVars,
                       valid, current, verified, dir, fileVars, managerVars, boundVars>>

\* The directory is gone; removeFile asks again before the record follows.
RemoveTree(c) ==
    LET k == KeyOf[c] IN
    /\ pc[c] = "removing"
    /\ dir' = [dir EXCEPT ![k][StateOf(c)] = "none"]
    /\ IF unproven THEN Unlock(k) /\ Return(c, "done", 1)
       ELSE pc' = [pc EXCEPT ![c] = "checkout"] /\ UNCHANGED <<answer, active, mutex>>
    /\ UNCHANGED <<authority, holds, object, generation, flightVars, valid, current, known,
                   verified, fileVars, managerVars, boundVars>>

\* The checkout, found or built anew by Git commands that all ended, is pinned,
\* which counts for the entry, and becomes the one to retain; the others are
\* pruned.  Nothing here asks for unproven writers of another entry.
Pin(c, count) ==
    LET k == KeyOf[c]
        s == StateOf(c)
    IN  /\ pc[c] = "checkout"
        /\ Reused(k, s) \/ (dir[k][s] = "none" /\ k \notin survivors)
        /\ pc' = [pc EXCEPT ![c] = "pinned"]
        /\ holds' = [holds EXCEPT ![c] = s]
        /\ active' = [active EXCEPT ![k] = @ + count]
        /\ current' = [current EXCEPT ![k] = s]
        /\ PruneKeeping(k, [dir[k] EXCEPT ![s] = IF @ = "none" THEN "whole" ELSE @],
                        known[k] \cup {s}, verified[k] \cup {s}, s, Pinned(k))
        /\ UNCHANGED <<answer, authority, object, generation, mutex, flightVars, valid,
                       fileVars, managerVars, boundVars>>

\* Mutant: the pin does not count for the entry.
CheckoutUncounted(c) == Pin(c, 0)

Checkout(c) == Pin(c, 1)

\* Git, the digest, a removal or the disk fails, or the task ends.  What was
\* built but not recorded is removed again, unless that fails or is forbidden.
CheckoutFails(c) ==
    LET k == KeyOf[c]
        s == StateOf(c)
    IN  /\ \/ pc[c] = "locked" /\ (GivesUp(c) \/ unproven) /\ UNCHANGED <<dir, known>>
           \/ pc[c] = "checkout" /\ UNCHANGED dir
              /\ known' \in {known, [known EXCEPT ![k] = @ \cup {s}]}
           \/ /\ \/ /\ pc[c] = "checkout" /\ dir[k][s] = "none" /\ k \notin survivors
                    /\ unproven \/ k \in Unremovable
                 \/ pc[c] = "removing" /\ k \in Unremovable
              /\ dir' = [dir EXCEPT ![k][s] = "partial"]
              /\ known' = [known EXCEPT ![k] = @ \cup {s}]
        /\ Unlock(k) /\ Return(c, "done", 1)
        /\ UNCHANGED <<authority, holds, object, generation, flightVars, valid, current,
                       verified, fileVars, managerVars, boundVars>>

\* Mutant: a call that ends its operation does not ask for unproven writers.
OperationEndsBlind(c) ==
    /\ pc[c] = "pinned"
    /\ pc' = [pc EXCEPT ![c] = "publishing"]
    /\ UNCHANGED <<answer, authority, holds, object, entryVars, fileVars, managerVars,
                   boundVars>>

\* operation looks for unproven writers and at its context for the last time,
\* and gives up its slot.
OperationEnds(c) == ~ unproven /\ ~ closed /\ OperationEndsBlind(c)

\* snapshot publishes the metadata and returns the checkout, still under the
\* lock of the entry; other entries may have changed Manager meanwhile.
Deliver(c) ==
    /\ pc[c] = "publishing"
    /\ metadata' = [metadata EXCEPT ![KeyOf[c]] = current[KeyOf[c]]]
    /\ Unlock(KeyOf[c]) /\ Return(c, "held", 1)
    /\ UNCHANGED <<authority, holds, object, generation, flightVars, valid, current,
                   checkoutVars, repo, managerVars, boundVars>>

\* The operation failed, or the metadata could not be written: the pin is
\* closed; nothing is pruned, since the call itself has the lock.
Discard(c) ==
    /\ pc[c] \in {"pinned", "publishing"}
    /\ holds' = [holds EXCEPT ![c] = None]
    /\ Unlock(KeyOf[c]) /\ Return(c, "done", 2)
    /\ UNCHANGED <<authority, object, generation, flightVars, valid, current, checkoutVars,
                   fileVars, managerVars, boundVars>>

\* poison: processgroup.Stop could not prove that Git ended.
Poison(k) ==
    /\ k \in Stuck \ survivors
    /\ survivors' = survivors \cup {k} /\ closed' = TRUE /\ UNCHANGED closeReturned

\* The call fails then, or finds out when its operation ends: checkout drops
\* the error of one command, and no later command starts.
CheckoutUnproven(c) ==
    /\ pc[c] = "checkout" /\ Poison(KeyOf[c])
    /\ UNCHANGED <<callVars, entryVars, fileVars, boundVars>>

\* Snapshot.Close gives up the pin and its count.
CloseSnapshot(c) ==
    /\ pc[c] = "held"
    /\ holds' = [holds EXCEPT ![c] = None] /\ Return(c, "closing", 1)
    /\ UNCHANGED <<authority, object, generation, mutex, flightVars, valid, current,
                   checkoutVars, fileVars, managerVars, boundVars>>

\* Mutant: an object that the map no longer has is pruned too.
CloseStaleObject(c) ==
    LET k == KeyOf[c] IN
    /\ pc[c] = "closing"
    /\ pc' = [pc EXCEPT ![c] = "done"]
    /\ IF object[c] = generation[k] /\ mutex[k] # None THEN UNCHANGED checkoutVars
       ELSE IF object[c] = generation[k] THEN Prune(k)
       ELSE PruneKeeping(k, dir[k], known[k], verified[k], None, {})
    /\ UNCHANGED <<answer, authority, holds, object, generation, active, mutex, flightVars,
                   valid, current, fileVars, managerVars, boundVars>>

\* It then prunes if nobody has the lock and the object is still the entry;
\* an object that was evicted meanwhile no longer owns the path.
PruneOnClose(c) ==
    LET k == KeyOf[c] IN
    /\ pc[c] = "closing"
    /\ pc' = [pc EXCEPT ![c] = "done"]
    /\ IF object[c] # generation[k] \/ mutex[k] # None THEN UNCHANGED checkoutVars
       ELSE Prune(k)
    /\ UNCHANGED <<answer, authority, holds, object, generation, active, mutex, flightVars,
                   valid, current, fileVars, managerVars, boundVars>>

-----------------------------------------------------------------------------
(* refresh                                                                 *)

FlightLocks(k) ==
    /\ flight[k] = "queued" /\ mutex[k] = None
    /\ flight' = [flight EXCEPT ![k] = "locked"]
    /\ mutex' = [mutex EXCEPT ![k] = "flight"]
    /\ valid' = valid \ {k}
    /\ UNCHANGED <<callVars, generation, active, cancelled, expired, flightBase, current,
                   checkoutVars, fileVars, managerVars, boundVars>>

\* update starts: until it succeeds the refs may be anything.
FlightRuns(k) ==
    /\ flight[k] = "locked" /\ SlotFree /\ ~ unproven
    /\ flight' = [flight EXCEPT ![k] = "running"]
    /\ repo' = [repo EXCEPT ![k] = 0]
    /\ UNCHANGED <<callVars, generation, active, mutex, cancelled, expired, flightBase, valid,
                   current, checkoutVars, metadata, managerVars, boundVars>>

\* The flight's deadline is that of the token of the call that started it.
TokenExpires(k) ==
    /\ k \in Expiring \ expired /\ flight[k] # "none"
    /\ expired' = expired \cup {k}
    /\ UNCHANGED <<callVars, generation, active, mutex, flight, cancelled, flightBase, valid,
                   current, checkoutVars, fileVars, managerVars, boundVars>>

FlightCleared(k) ==
    /\ flight' = [flight EXCEPT ![k] = "none"]
    /\ cancelled' = cancelled \ {k} /\ expired' = expired \ {k}
    /\ flightBase' = [flightBase EXCEPT ![k] = 0]
    /\ active' = [active EXCEPT ![k] = @ - 1]
    /\ UNCHANGED <<pc, authority, holds, object, generation, current, boundVars>>

\* Mutant: a refresh that fails does not close its channel.
FlightSilent(k, result) ==
    /\ FlightCleared(k)
    /\ answer' = [c \in Callers |->
                    IF c \in Waiters(k) /\ result = "ok" THEN result ELSE answer[c]]

\* The flight is over for the entry and for everyone who waits for it.
FlightDone(k, result) ==
    /\ FlightCleared(k)
    /\ answer' = [c \in Callers |-> IF c \in Waiters(k) THEN result ELSE answer[c]]

\* Git fetched what the remote had at some moment of the flight and the
\* metadata is published; then operation looks at its context and for unproven
\* writers, and gives up its slot.
FlightFetches(k) ==
    /\ flight[k] = "running" /\ ~ FlightOver(k) /\ ~ unproven
    /\ flight' = [flight EXCEPT ![k] = "fetched"]
    /\ \E v \in flightBase[k] .. remote[k] : repo' = [repo EXCEPT ![k] = v]
    /\ metadata' = [metadata EXCEPT ![k] = current[k]]
    /\ UNCHANGED <<callVars, generation, active, mutex, cancelled, expired, flightBase, valid,
                   current, checkoutVars, managerVars, boundVars>>

FlightSucceeds(k) ==
    /\ flight[k] = "fetched"
    /\ valid' = valid \cup {k}
    /\ Prune(k) /\ Unlock(k) /\ FlightDone(k, "ok") /\ UNCHANGED <<fileVars, managerVars>>

\* It failed or was cancelled, before it had the lock or after; the metadata
\* may have been published by then, unless its own Git survived.
FlightFails(k) ==
    /\ \/ /\ flight[k] = "queued" /\ FlightOver(k)
          /\ UNCHANGED <<mutex, checkoutVars, metadata>>
       \/ /\ flight[k] = "locked" /\ FlightOver(k)
          /\ Prune(k) /\ Unlock(k) /\ UNCHANGED metadata
       \/ /\ flight[k] = "running"
          /\ Prune(k) /\ Unlock(k)
          /\ \E m \in {metadata[k], current[k]} : metadata' = [metadata EXCEPT ![k] = m]
    /\ FlightDone(k, "err") /\ UNCHANGED <<repo, valid, managerVars>>

FlightUnproven(k) ==
    /\ flight[k] = "running" /\ Poison(k)
    /\ Unlock(k) /\ FlightDone(k, "err") /\ UNCHANGED <<fileVars, valid, checkoutVars>>

-----------------------------------------------------------------------------
(* Space, shutdown, restart                                                *)

\* reclaimSpaceLocked, which every call makes several times: when the disk
\* is full, an entry nobody uses is removed with all its files.
Evict(k) ==
    /\ generation[k] # 0 /\ active[k] = 0 /\ ~ unproven /\ evictions[k] < MaxEvictions
    /\ evictions' = [evictions EXCEPT ![k] = @ + 1]
    /\ repo' = [repo EXCEPT ![k] = 0]
    /\ \/ /\ generation' = [generation EXCEPT ![k] = 0]
          /\ dir' = [dir EXCEPT ![k] = [s \in States |-> "none"]]
          /\ metadata' = [metadata EXCEPT ![k] = Absent]
          /\ valid' = valid \ {k} /\ current' = [current EXCEPT ![k] = None]
          /\ known' = [known EXCEPT ![k] = {}] /\ verified' = [verified EXCEPT ![k] = {}]
       \/ /\ k \in Unremovable
          /\ dir' = [dir EXCEPT ![k] = [s \in States |->
                IF dir[k][s] = "none" THEN "none" ELSE "partial"]]
          /\ \E m \in {metadata[k], Absent} : metadata' = [metadata EXCEPT ![k] = m]
          /\ UNCHANGED <<generation, valid, known, verified, current>>
    /\ UNCHANGED <<callVars, active, mutex, flightVars, managerVars, slots, remote, restarts>>

CloseManager ==
    /\ ~ closed /\ closed' = TRUE
    /\ UNCHANGED <<callVars, entryVars, fileVars, closeReturned, survivors, boundVars>>

InProgress(c) == pc[c] \notin {"idle", "held", "closing", "done"}

\* wg.Wait: no call and no flight is under way.
CloseReturns ==
    /\ closed /\ ~ closeReturned
    /\ \A c \in Callers : ~ InProgress(c)
    /\ \A k \in Keys : flight[k] = "none"
    /\ closeReturned' = TRUE
    /\ UNCHANGED <<callVars, entryVars, fileVars, closed, survivors, boundVars>>

\* The controller is replaced.  recover keeps an entry that has metadata and
\* the checkout that it names, which may have been damaged, and removes all
\* else; nothing is verified any more, and no checkout is known.
Restart ==
    /\ restarts < MaxRestarts /\ restarts' = restarts + 1
    /\ pc' = [c \in Callers |-> IF pc[c] = "idle" THEN "idle" ELSE "done"]
    /\ answer' = [c \in Callers |-> "none"] /\ authority' = [c \in Callers |-> 0]
    /\ holds' = [c \in Callers |-> None] /\ object' = [c \in Callers |-> 0]
    /\ generation' = [k \in Keys |-> IF metadata[k] = Absent THEN 0 ELSE evictions[k] + 1]
    /\ active' = [k \in Keys |-> 0] /\ mutex' = [k \in Keys |-> None]
    /\ flight' = [k \in Keys |-> "none"] /\ cancelled' = {} /\ expired' = {}
    /\ flightBase' = [k \in Keys |-> 0] /\ valid' = {}
    /\ known' = [k \in Keys |-> {}] /\ verified' = [k \in Keys |-> {}]
    /\ current' = [k \in Keys |-> IF metadata[k] = Absent THEN None ELSE metadata[k]]
    /\ repo' = [k \in Keys |-> IF metadata[k] = Absent THEN 0 ELSE repo[k]]
    /\ \E damaged \in SUBSET Keys :
          dir' = [k \in Keys |-> [s \in States |->
             IF s # metadata[k] \/ dir[k][s] = "none" THEN "none"
             ELSE IF k \in damaged THEN "partial" ELSE dir[k][s]]]
    /\ closed' = FALSE /\ closeReturned' = FALSE /\ survivors' = {}
    /\ UNCHANGED <<metadata, slots, remote, evictions>>

RemoteAdvances(k) ==
    /\ remote[k] < MaxVersion
    /\ remote' = [remote EXCEPT ![k] = @ + 1]
    /\ UNCHANGED <<callVars, entryVars, fileVars, managerVars, slots, evictions, restarts>>

CallNext(c) ==
    \/ Join(c) \/ LeaveFlight(c) \/ Refreshed(c) \/ Fails(c) \/ Lock(c)
    \/ RunCheckout(c) \/ BeginRebuild(c) \/ RemoveTree(c) \/ Checkout(c)
    \/ CheckoutFails(c) \/ CheckoutUnproven(c) \/ OperationEnds(c) \/ Deliver(c) \/ Discard(c)

FlightNext(k) ==
    \/ FlightLocks(k) \/ FlightRuns(k) \/ FlightFetches(k) \/ FlightSucceeds(k)
    \/ FlightFails(k) \/ FlightUnproven(k)

Next ==
    \/ \E c \in Callers :
          Begin(c) \/ Refuse(c) \/ CallNext(c) \/ CloseSnapshot(c) \/ PruneOnClose(c)
    \/ \E k \in Keys : FlightNext(k) \/ TokenExpires(k) \/ Evict(k) \/ RemoteAdvances(k)
    \/ CloseManager \/ CloseReturns \/ Restart

Spec == Init /\ [][Next]_vars

\* Goroutines run, and a Git command ends: it succeeds, fails, or is killed
\* when its context is done.
Fairness ==
    /\ \A c \in Callers : WF_vars(CallNext(c))
    /\ \A k \in Keys : WF_vars(FlightNext(k))
    /\ WF_vars(CloseReturns)

FairSpec == Spec /\ Fairness

-----------------------------------------------------------------------------
(* Properties                                                              *)

\* "immutable checkouts": the checkout that a reader has pinned is complete,
\* and no pruning, rebuilding, eviction or failed refresh touches it while
\* the reader has it (checkout, pruneCheckouts, reclaimSpaceLocked).
SnapshotIsWhole ==
    \A c \in Callers : holds[c] # None => dir[KeyOf[c]][holds[c]] = "whole"

\* entry.active counts exactly the calls, flights and readers of the entry:
\* eviction never meets a user, and no error path keeps an entry forever.
ActiveIsUsers ==
    \A k \in Keys :
        active[k] = Cardinality({c \in Users(k) : InProgress(c)})
                    + Cardinality({c \in Users(k) : holds[c] # None})
                    + (IF flight[k] = "none" THEN 0 ELSE 1)

\* A checkout is made from consistent refs that are no older than the refresh
\* the call was authorized by, however many refreshes came and failed since
\* (snapshot: "repository changed during an unsuccessful refresh").
CheckoutIsAuthorized ==
    \A c \in Callers : pc[c] = "checkout" =>
        repo[KeyOf[c]] # 0 /\ repo[KeyOf[c]] >= authority[c]

\* A refresh that was cancelled because its last waiter left has nobody else
\* waiting: one task that stops never fails the checkout of another
\* (awaitRefresh).
CancelHarmsNobody == \A k \in cancelled : Waiters(k) = {}

\* A call past its last look for unproven writers: its removal, or its answer,
\* is still to come.
Committed(c) == pc[c] \in {"removing", "publishing"}

\* "cache is quarantined until process restart" (git.go:19).  Of the repository
\* that a surviving Git process may still write, no refresh is published, no
\* file is deleted or replaced and no checkout is handed out, whatever its other
\* calls, readers and evictions are about to do.  In the whole cache no refresh
\* starts, and the only directory that changes and the only checkout that is
\* handed out belong to a call of another repository that had asked for unproven
\* writers before: removeTree asks and then removes, and snapshot publishes and
\* returns after operation has asked (poison, operation, snapshot, removeTree,
\* pruneCheckouts, reclaimSpaceLocked).
QuarantineHolds ==
    [][/\ \A k \in survivors \cap survivors' :
             /\ repo'[k] = repo[k] /\ metadata'[k] = metadata[k]
             /\ \A s \in States : dir[k][s] # "none" => dir'[k][s] = dir[k][s]
             /\ \A c \in Users(k) : pc'[c] = "held" => pc[c] = "held"
       /\ unproven /\ unproven' =>
             /\ \A k \in Keys : flight'[k] = "running" => flight[k] = "running"
             /\ \A k \in Keys, s \in States : dir[k][s] \notin {"none", dir'[k][s]} =>
                   \E c \in Users(k) : pc[c] = "removing"
             /\ \A c \in Callers : Committed(c)' => Committed(c)
             /\ \A c \in Callers : pc'[c] = "held" => pc[c] = "held" \/ Committed(c)
      ]_vars

\* Every call ends and every Close returns, whoever gives up, fails, or is
\* cancelled on the way (awaitRefresh, lockEntry, operation, Close); and once
\* Close has returned, no call and no Git command runs or starts until the
\* process is replaced (Manager.closed, Manager.wg).
CallsEnd ==
    /\ \A c \in Callers : InProgress(c) ~> ~ InProgress(c)
    /\ closed ~> closeReturned \/ ~ closed
    /\ [](closeReturned => Operations = {} /\ \A c \in Callers : ~ InProgress(c))
=============================================================================
