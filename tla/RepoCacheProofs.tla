--------------------------- MODULE RepoCacheProofs ---------------------------
(***************************************************************************)
(* The Git cache, for any number of calls, entries, slots, refreshes,      *)
(* evictions and restarts: who holds an entry's lock, what the refs of a   *)
(* locked entry are worth, how its users are counted, that no pinned       *)
(* checkout is pruned, rebuilt or evicted, and what the quarantine of      *)
(* unproven Git writers keeps.                                             *)
(***************************************************************************)
EXTENDS RepoCache, FiniteSetTheorems, TLAPS

Points == {"idle", "enter", "await", "lock", "locked", "checkout", "removing", "pinned",
           "publishing", "held", "closing", "done"}
Answers == {"none", "ok", "err"}
Progress == {"none", "queued", "locked", "running", "fetched"}
Trees == [States -> {"none", "whole", "partial"}]

CallType ==
    /\ pc \in [Callers -> Points] /\ answer \in [Callers -> Answers]
    /\ authority \in [Callers -> Nat] /\ holds \in [Callers -> States \cup {None}]
    /\ object \in [Callers -> Nat]
EntryType ==
    /\ generation \in [Keys -> Nat] /\ active \in [Keys -> Int]
    /\ mutex \in [Keys -> Callers \cup {None, "flight"}] /\ flight \in [Keys -> Progress]
    /\ cancelled \subseteq Keys /\ expired \subseteq Keys /\ valid \subseteq Keys
    /\ flightBase \in [Keys -> Nat] /\ current \in [Keys -> States \cup {None}]
CheckoutType ==
    /\ known \in [Keys -> SUBSET States] /\ verified \in [Keys -> SUBSET States]
    /\ dir \in [Keys -> Trees]
FileType == repo \in [Keys -> 0 .. MaxVersion] /\ metadata \in [Keys -> States \cup {None, Absent}]
WorldType ==
    /\ closed \in BOOLEAN /\ closeReturned \in BOOLEAN /\ survivors \subseteq Keys
    /\ remote \in [Keys -> Versions] /\ evictions \in [Keys -> Nat] /\ restarts \in Nat

\* Every variable keeps its range.
TypeOK == CallType /\ EntryType /\ CheckoutType /\ FileType /\ WorldType

USE CacheAssumption DEF callVars, flightVars, checkoutVars, entryVars, fileVars, managerVars, boundVars,
                        vars

\* The cache starts with what it recovered.
LEMMA TypeInit == Init => TypeOK
<1> SUFFICES ASSUME Init PROVE TypeOK
    OBVIOUS
<1>1. CallType
      BY DEF Init, CallType, Points, Answers
<1>0. evictions \in [Keys -> Nat] /\ metadata \in [Keys -> States \cup {None, Absent}]
      BY DEF Init
<1>2. EntryType
      <2>1. generation \in [Keys -> Nat] /\ current \in [Keys -> States \cup {None}]
            BY <1>0 DEF Init
      <2> QED BY <2>1 DEF Init, EntryType, Progress
<1>3. CheckoutType
      <2>1. dir \in [Keys -> Trees]
            BY DEF Init, Trees
      <2> QED BY <2>1 DEF Init, CheckoutType
<1>4. FileType
      BY DEF Init, FileType
<1>5. restarts \in Nat /\ remote \in [Keys -> Versions]
      BY DEF Init
<1>6. WorldType
      BY <1>0, <1>5 DEF Init, WorldType
<1> QED BY <1>1, <1>2, <1>3, <1>4, <1>6 DEF TypeOK

\* Pruning keeps what is pinned or current, and what it does not know; of the
\* rest, a removal that does not fail leaves neither directory nor record.
LEMMA PruneSpares ==
    ASSUME CheckoutType, NEW k \in Keys, NEW d \in Trees, NEW kn \in SUBSET States,
           NEW ver \in SUBSET States, NEW cur, NEW pinned,
           PruneKeeping(k, d, kn, ver, cur, pinned)
    PROVE  /\ CheckoutType'
           /\ verified'[k] \subseteq ver
           /\ \A s \in ver : s \in pinned \cup {cur} => s \in verified'[k]
           /\ \A s \in States : s \in pinned \cup {cur} => dir'[k][s] = d[s]
           /\ k \notin Unremovable => \A s \in verified'[k] : dir'[k][s] = d[s]
           /\ \A j \in Keys \ {k} : dir'[j] = dir[j] /\ verified'[j] = verified[j]
<1> DEFINE removed == Disposable(kn, pinned \cup {cur})
<1>0. removed \subseteq kn \ (pinned \cup {cur})
      BY DEF Disposable
<1>1. PICK failing \in SUBSET {s \in removed : k \in Unremovable /\ d[s] # "none"} :
         /\ dir' = [dir EXCEPT ![k] = [s \in States |->
                IF s \notin removed THEN d[s]
                ELSE IF s \in failing THEN "partial" ELSE "none"]]
         /\ known' = [known EXCEPT ![k] = kn \ (removed \ failing)]
         /\ verified' = [verified EXCEPT ![k] = ver \ (removed \ failing)]
      BY DEF PruneKeeping
<1> HIDE DEF removed
<1>2. known' \in [Keys -> SUBSET States] /\ verified' \in [Keys -> SUBSET States]
      BY <1>1 DEF CheckoutType
<1>3. dir' \in [Keys -> Trees]
      BY <1>1 DEF CheckoutType, Trees
<1>4. verified'[k] = ver \ (removed \ failing)
      BY <1>1 DEF CheckoutType
<1>5. \A s \in States : dir'[k][s] = IF s \notin removed THEN d[s]
                                     ELSE IF s \in failing THEN "partial" ELSE "none"
      BY <1>1 DEF CheckoutType
<1>6. k \notin Unremovable => failing = {}
      BY <1>1
<1>7. \A j \in Keys \ {k} : dir'[j] = dir[j] /\ verified'[j] = verified[j]
      BY <1>1 DEF CheckoutType
<1>8. k \notin Unremovable => \A s \in verified'[k] : dir'[k][s] = d[s]
      BY <1>4, <1>5, <1>6
<1>9. /\ \A s \in ver : s \in pinned \cup {cur} => s \in verified'[k]
      /\ \A s \in States : s \in pinned \cup {cur} => dir'[k][s] = d[s]
      BY <1>0, <1>4, <1>5
<1> QED BY <1>2, <1>3, <1>4, <1>7, <1>8, <1>9 DEF CheckoutType

\* While Git writers are unproven it leaves every directory.
LEMMA PruneWaits ==
    ASSUME CheckoutType, unproven, NEW k \in Keys, NEW d \in Trees, NEW kn, NEW ver, NEW cur,
           NEW pinned, PruneKeeping(k, d, kn, ver, cur, pinned)
    PROVE  \A s \in States : dir'[k][s] = d[s]
BY DEF PruneKeeping, Disposable, CheckoutType

\* The steps of calls, then those of refreshes and of the manager.
LEMMA CallStepCalls ==
    ASSUME TypeOK, NEW c \in Callers, StateOf(c) \in States \/ pc[c] \notin {"checkout", "removing"},
           Begin(c) \/ Refuse(c) \/ CallNext(c) \/ CloseSnapshot(c) \/ PruneOnClose(c)
    PROVE  CallType'
<1> USE DEF TypeOK, CallType, EntryType, Points, Answers
<1> KeyOf[c] \in Keys
    OBVIOUS
<1>1. CASE Begin(c)
      <2>1. generation' \in [Keys -> Nat]
            BY <1>1 DEF Begin, WorldType
      <2> QED BY <1>1, <2>1 DEF Begin
<1>2. CASE \/ Refuse(c) \/ Refreshed(c) \/ Lock(c) \/ RunCheckout(c) \/ BeginRebuild(c)
           \/ CheckoutUnproven(c) \/ OperationEnds(c) \/ PruneOnClose(c)
      BY <1>2 DEF Refuse, Refreshed, Lock, TryLock, RunCheckout, BeginRebuild, CheckoutUnproven,
                  OperationEnds, OperationEndsBlind, PruneOnClose
<1>3. CASE Join(c)
      BY <1>3 DEF Join, JoinOrStart, WorldType, Versions
<1>4. CASE Checkout(c)
      BY <1>4 DEF Checkout, Pin
<1>5. CASE LeaveFlight(c) \/ Fails(c) \/ CheckoutFails(c) \/ RemoveTree(c)
      BY <1>5 DEF LeaveFlight, Fails, CheckoutFails, RemoveTree, Return
<1>6. CASE Deliver(c) \/ Discard(c) \/ CloseSnapshot(c)
      BY <1>6 DEF Deliver, Discard, CloseSnapshot, Return
<1> QED BY <1>1, <1>2, <1>3, <1>4, <1>5, <1>6 DEF CallNext

\* A call's step keeps the types of the entries.
LEMMA CallStepEntries ==
    ASSUME TypeOK, NEW c \in Callers, StateOf(c) \in States \/ pc[c] \notin {"checkout", "removing"},
           Begin(c) \/ Refuse(c) \/ CallNext(c) \/ CloseSnapshot(c) \/ PruneOnClose(c)
    PROVE  EntryType'
<1> USE DEF TypeOK, CallType, EntryType, Progress
<1> KeyOf[c] \in Keys
    OBVIOUS
<1>1. CASE Begin(c)
      BY <1>1 DEF Begin, WorldType
<1>2. CASE \/ Refuse(c) \/ Refreshed(c) \/ Lock(c) \/ RunCheckout(c) \/ BeginRebuild(c)
           \/ CheckoutUnproven(c) \/ OperationEnds(c) \/ PruneOnClose(c)
      BY <1>2 DEF Refuse, Refreshed, Lock, TryLock, RunCheckout, BeginRebuild, CheckoutUnproven,
                  OperationEnds, OperationEndsBlind, PruneOnClose
<1>3. CASE Join(c)
      BY <1>3 DEF Join, JoinOrStart, WorldType, Versions
<1>4. CASE Checkout(c)
      BY <1>4 DEF Checkout, Pin
<1>5. CASE LeaveFlight(c) \/ Fails(c) \/ CheckoutFails(c) \/ RemoveTree(c)
      BY <1>5 DEF LeaveFlight, Fails, CheckoutFails, RemoveTree, Return, Unlock
<1>6. CASE Deliver(c) \/ Discard(c) \/ CloseSnapshot(c)
      BY <1>6 DEF Deliver, Discard, CloseSnapshot, Return, Unlock
<1> QED BY <1>1, <1>2, <1>3, <1>4, <1>5, <1>6 DEF CallNext

\* A call's step keeps the types of refs, flags and the remote.
LEMMA CallStepFiles ==
    ASSUME TypeOK, NEW c \in Callers, StateOf(c) \in States \/ pc[c] \notin {"checkout", "removing"},
           Begin(c) \/ Refuse(c) \/ CallNext(c) \/ CloseSnapshot(c) \/ PruneOnClose(c)
    PROVE  FileType' /\ WorldType'
<1> USE DEF TypeOK, FileType, WorldType
<1> KeyOf[c] \in Keys
    OBVIOUS
<1>1. CASE Deliver(c)
      BY <1>1 DEF Deliver, EntryType
<1>2. CASE CheckoutUnproven(c)
      BY <1>2 DEF CheckoutUnproven, Poison
<1>3. CASE ~ Deliver(c) /\ ~ CheckoutUnproven(c)
      <2>1. UNCHANGED <<fileVars, managerVars, boundVars>>
            BY <1>3 DEF Begin, Refuse, CallNext, CloseSnapshot, PruneOnClose, Join, JoinOrStart,
                        LeaveFlight, Refreshed, Fails, Lock, TryLock, RunCheckout, BeginRebuild,
                        RemoveTree, Checkout, Pin, CheckoutFails, OperationEnds,
                        OperationEndsBlind, Discard
      <2> QED BY <2>1
<1> QED BY <1>1, <1>2, <1>3

\* pruneCheckouts forgets only what it removed or could not remove, never a
\* pinned checkout, and leaves other entries alone.
LEMMA PruneType ==
    ASSUME CheckoutType, NEW k \in Keys, Prune(k)
    PROVE  /\ CheckoutType'
           /\ verified'[k] \subseteq verified[k]
           /\ \A s \in Pinned(k) : s \in verified[k] => s \in verified'[k]
           /\ \A s \in Pinned(k) \cap States : dir'[k][s] = dir[k][s]
           /\ k \notin Unremovable => \A s \in verified'[k] : dir'[k][s] = dir[k][s]
           /\ unproven => \A s \in States : dir'[k][s] = dir[k][s]
           /\ \A j \in Keys \ {k} : dir'[j] = dir[j] /\ verified'[j] = verified[j]
<1> DEFINE d == dir[k]
           kn == known[k]
           ver == verified[k]
           cur == current[k]
           pinned == Pinned(k)
<1>1. d \in Trees /\ kn \in SUBSET States /\ ver \in SUBSET States
      BY DEF CheckoutType
<1>2. PruneKeeping(k, d, kn, ver, cur, pinned)
      BY DEF Prune
<1> HIDE DEF d, kn, ver, cur, pinned
<1>3. /\ CheckoutType' /\ verified'[k] \subseteq ver
      /\ \A s \in ver : s \in pinned \cup {cur} => s \in verified'[k]
      /\ k \notin Unremovable => \A s \in verified'[k] : dir'[k][s] = d[s]
      /\ \A j \in Keys \ {k} : dir'[j] = dir[j] /\ verified'[j] = verified[j]
      BY <1>1, <1>2, PruneSpares
<1>4. unproven => \A s \in States : dir'[k][s] = d[s]
      BY <1>1, <1>2, PruneWaits
<1>5. \A s \in States : s \in pinned \cup {cur} => dir'[k][s] = d[s]
      BY <1>1, <1>2, PruneSpares
<1> USE DEF d, ver, pinned
<1>6. \A s \in Pinned(k) : s \in verified[k] => s \in verified'[k]
      BY <1>3
<1>7. \A s \in Pinned(k) \cap States : dir'[k][s] = dir[k][s]
      BY <1>5
<1> QED BY <1>3, <1>4, <1>6, <1>7

\* A checkout that is verified, or whole, is taken as it is.
LEMMA CheckoutBuilds ==
    ASSUME TypeOK, NEW c \in Callers, StateOf(c) \in States, Checkout(c)
    PROVE  LET k == KeyOf[c]
               s == StateOf(c)
           IN  /\ CheckoutType'
               /\ verified'[k] \subseteq verified[k] \cup {s} /\ s \in verified'[k]
               /\ \A x \in Pinned(k) : x \in verified[k] => x \in verified'[k]
               /\ k \notin Unremovable =>
                    /\ \A x \in verified'[k] \ {s} : dir'[k][x] = dir[k][x]
                    /\ dir'[k][s] = IF dir[k][s] = "none" THEN "whole" ELSE dir[k][s]
               /\ unproven => \A x \in States : dir[k][x] # "none" => dir'[k][x] = dir[k][x]
               /\ \A j \in Keys \ {k} : dir'[j] = dir[j] /\ verified'[j] = verified[j]
<1> DEFINE k == KeyOf[c]
           s == StateOf(c)
           tree == [dir[k] EXCEPT ![s] = IF @ = "none" THEN "whole" ELSE @]
           kn == known[k] \cup {s}
           ver == verified[k] \cup {s}
<1>1. PruneKeeping(k, tree, kn, ver, s, Pinned(k))
      BY DEF Checkout, Pin
<1>2. k \in Keys /\ kn \in SUBSET States /\ ver \in SUBSET States /\ CheckoutType
      BY DEF TypeOK, CheckoutType
<1>3. tree \in Trees /\ dir[k] \in Trees
      BY DEF TypeOK, CheckoutType, Trees
<1>4. tree[s] = (IF dir[k][s] = "none" THEN "whole" ELSE dir[k][s]) /\ \A x \in States : x # s => tree[x] = dir[k][x]
      BY <1>3 DEF Trees
<1> DEFINE pinned == Pinned(k)
<1>0. PruneKeeping(k, tree, kn, ver, s, pinned)
      BY <1>1
<1> HIDE DEF k, s, tree, kn, ver, pinned
<1>5. /\ CheckoutType' /\ verified'[k] \subseteq ver
      /\ \A x \in ver : x \in pinned \cup {s} => x \in verified'[k]
      /\ k \notin Unremovable => \A x \in verified'[k] : dir'[k][x] = tree[x]
      /\ \A j \in Keys \ {k} : dir'[j] = dir[j] /\ verified'[j] = verified[j]
      BY <1>0, <1>2, <1>3, PruneSpares
<1>6. s \in verified'[k] /\ verified'[k] \subseteq verified[k] \cup {s}
      BY <1>5 DEF ver
<1>7. \A x \in Pinned(k) : x \in verified[k] => x \in verified'[k]
      BY <1>5 DEF ver, pinned
<1>8. k \notin Unremovable =>
         /\ \A x \in verified'[k] \ {s} : dir'[k][x] = dir[k][x]
         /\ dir'[k][s] = IF dir[k][s] = "none" THEN "whole" ELSE dir[k][s]
      BY <1>2, <1>4, <1>5, <1>6 DEF ver
<1>9. unproven => \A x \in States : dir'[k][x] = tree[x]
      BY <1>0, <1>2, <1>3, PruneWaits
<1>10. unproven => \A x \in States : dir[k][x] # "none" => dir'[k][x] = dir[k][x]
       BY <1>4, <1>9
<1> QED BY <1>5, <1>6, <1>7, <1>8, <1>10 DEF k, s

\* A call's step keeps the types of the checkouts.
LEMMA CallStepCheckouts ==
    ASSUME TypeOK, NEW c \in Callers, StateOf(c) \in States \/ pc[c] \notin {"checkout", "removing"},
           Begin(c) \/ Refuse(c) \/ CallNext(c) \/ CloseSnapshot(c) \/ PruneOnClose(c)
    PROVE  CheckoutType'
<1> KeyOf[c] \in Keys /\ CheckoutType
    BY DEF TypeOK
<1>1. CASE Checkout(c)
      <2>1. StateOf(c) \in States
            BY <1>1 DEF Checkout, Pin
      <2> QED BY <1>1, <2>1, CheckoutBuilds
<1>2. CASE PruneOnClose(c)
      <2>1. Prune(KeyOf[c]) \/ UNCHANGED checkoutVars
            BY <1>2 DEF PruneOnClose
      <2> QED BY <2>1, PruneType DEF CheckoutType
<1>3. CASE BeginRebuild(c) \/ RemoveTree(c) \/ CheckoutFails(c)
      <2> DEFINE k == KeyOf[c]
                 s == StateOf(c)
      <2>1. pc[c] \in {"checkout", "removing"} => s \in States
            OBVIOUS
      <2>2. /\ UNCHANGED verified
            /\ known' = known \/ (known' = [known EXCEPT ![k] = @ \cup {s}] /\ s \in States)
            /\ dir' = dir \/ \E x \in {"none", "partial"} : dir' = [dir EXCEPT ![k][s] = x]
            BY <1>3, <2>1 DEF BeginRebuild, RemoveTree, CheckoutFails
      <2> HIDE DEF k, s
      <2>3. known' \in [Keys -> SUBSET States]
            BY <2>2 DEF CheckoutType
      <2>4. ASSUME NEW x \in {"none", "partial"}, dir' = [dir EXCEPT ![k][s] = x]
            PROVE  dir' \in [Keys -> Trees]
            BY <2>4 DEF CheckoutType, Trees
      <2>5. dir' \in [Keys -> Trees]
            BY <2>2, <2>4 DEF CheckoutType
      <2> QED BY <2>2, <2>3, <2>5 DEF CheckoutType
<1>4. CASE UNCHANGED checkoutVars
      BY <1>4 DEF CheckoutType
<1>5. \/ Checkout(c) \/ PruneOnClose(c) \/ BeginRebuild(c) \/ RemoveTree(c) \/ CheckoutFails(c)
      \/ UNCHANGED checkoutVars
      BY DEF Begin, Refuse, CallNext, CloseSnapshot, Join, JoinOrStart, LeaveFlight, Refreshed,
             Fails, Lock, TryLock, RunCheckout, CheckoutUnproven, OperationEnds, OperationEndsBlind,
             Deliver, Discard
<1> QED BY <1>1, <1>2, <1>3, <1>4, <1>5

\* Refreshes.
LEMMA FlightStep ==
    ASSUME TypeOK, NEW k \in Keys, FlightNext(k) \/ TokenExpires(k)
    PROVE  TypeOK'
<1> USE DEF TypeOK
<1>1. CASE FlightLocks(k) \/ FlightRuns(k) \/ FlightFetches(k) \/ TokenExpires(k)
      <2>1. EntryType'
            BY <1>1 DEF FlightLocks, FlightRuns, FlightFetches, TokenExpires, EntryType, Progress
      <2>2. FileType'
            <3>1. flightBase[k] \in Nat /\ remote[k] \in 1 .. MaxVersion
                  BY DEF EntryType, WorldType, Versions
            <3>2. flightBase[k] .. remote[k] \subseteq 0 .. MaxVersion
                  BY <3>1
            <3> QED BY <1>1, <3>2 DEF FlightLocks, FlightRuns, FlightFetches, TokenExpires, FileType,
                                      EntryType
      <2>3. UNCHANGED <<callVars, checkoutVars, managerVars, boundVars>>
            BY <1>1 DEF FlightLocks, FlightRuns, FlightFetches, TokenExpires
      <2> QED BY <2>1, <2>2, <2>3 DEF CallType, CheckoutType, WorldType
<1>2. ASSUME FlightSucceeds(k) \/ FlightFails(k) \/ FlightUnproven(k) PROVE TypeOK'
      <2>1. \E result \in {"ok", "err"} : FlightDone(k, result)
            BY <1>2 DEF FlightSucceeds, FlightFails, FlightUnproven
      <2>2. answer' \in [Callers -> Answers]
            BY <2>1 DEF FlightDone, CallType, Answers
      <2>3. FlightCleared(k)
            BY <2>1 DEF FlightDone
      <2>4. CallType'
            BY <2>2, <2>3 DEF FlightCleared, CallType
      <2>5. mutex' \in [Keys -> Callers \cup {None, "flight"}] /\ valid' \subseteq Keys
            BY <1>2 DEF FlightSucceeds, FlightFails, FlightUnproven, Unlock, EntryType
      <2>6. EntryType'
            <3> USE DEF EntryType
            <3>1. flight' \in [Keys -> Progress] /\ flightBase' \in [Keys -> Nat]
                  BY <2>3 DEF FlightCleared, Progress
            <3>2. active' \in [Keys -> Int] /\ cancelled' \subseteq Keys /\ expired' \subseteq Keys
                  BY <2>3 DEF FlightCleared
            <3>3. UNCHANGED <<generation, current>>
                  BY <2>3 DEF FlightCleared
            <3> QED BY <2>5, <3>1, <3>2, <3>3
      <2>7. Prune(k) \/ UNCHANGED checkoutVars
            BY <1>2 DEF FlightSucceeds, FlightFails, FlightUnproven
      <2>8. CheckoutType'
            BY <2>7, PruneType DEF CheckoutType
      <2>9. repo' \in [Keys -> 0 .. MaxVersion]
            BY <1>2 DEF FlightSucceeds, FlightFails, FlightUnproven, FileType
      <2>10. metadata' \in [Keys -> States \cup {None, Absent}]
             BY <1>2 DEF FlightSucceeds, FlightFails, FlightUnproven, FileType, EntryType
      <2>11. WorldType'
             BY <1>2, <2>3 DEF FlightSucceeds, FlightFails, FlightUnproven, FlightCleared, Poison,
                               WorldType
      <2> QED BY <2>4, <2>6, <2>8, <2>9, <2>10, <2>11 DEF FileType
<1> QED BY <1>1, <1>2 DEF FlightNext

\* So do eviction, a remote's new version, Close and a restart.
LEMMA ManagerStep ==
    ASSUME TypeOK,
           \/ \E k \in Keys : Evict(k) \/ RemoteAdvances(k)
           \/ CloseManager \/ CloseReturns \/ Restart
    PROVE  TypeOK'
<1> USE DEF TypeOK
<1>1. ASSUME NEW k \in Keys, Evict(k) PROVE TypeOK'
      <2>1. generation' \in [Keys -> Nat] /\ valid' \subseteq Keys /\ current' \in [Keys -> States \cup {None}]
            BY <1>1 DEF Evict, EntryType
      <2>2. EntryType'
            BY <1>1, <2>1 DEF Evict, EntryType
      <2>3. dir' \in [Keys -> Trees]
            <3>1. \E tree \in Trees : dir' = [dir EXCEPT ![k] = tree]
                  <4>1. \/ dir' = [dir EXCEPT ![k] = [s \in States |-> "none"]]
                        \/ dir' = [dir EXCEPT ![k] = [s \in States |->
                              IF dir[k][s] = "none" THEN "none" ELSE "partial"]]
                        BY <1>1 DEF Evict
                  <4>2. /\ [s \in States |-> "none"] \in Trees
                        /\ [s \in States |-> IF dir[k][s] = "none" THEN "none" ELSE "partial"] \in Trees
                        BY DEF Trees
                  <4> QED BY <4>1, <4>2
            <3> QED BY <3>1 DEF CheckoutType
      <2>4. CheckoutType'
            BY <1>1, <2>3 DEF Evict, CheckoutType
      <2>5. repo' \in [Keys -> 0 .. MaxVersion] /\ metadata' \in [Keys -> States \cup {None, Absent}]
            BY <1>1 DEF Evict, FileType
      <2>6. evictions' \in [Keys -> Nat]
            BY <1>1 DEF Evict, WorldType
      <2> QED BY <1>1, <2>2, <2>4, <2>5, <2>6 DEF Evict, CallType, FileType, WorldType
<1>2. ASSUME NEW k \in Keys, RemoteAdvances(k) PROVE TypeOK'
      <2>1. remote' \in [Keys -> Versions]
            BY <1>2 DEF RemoteAdvances, WorldType, Versions
      <2> QED BY <1>2, <2>1 DEF RemoteAdvances, CallType, EntryType, CheckoutType, FileType, WorldType
<1>3. CASE CloseManager \/ CloseReturns
      BY <1>3 DEF CloseManager, CloseReturns, CallType, EntryType, CheckoutType, FileType, WorldType
<1>4. CASE Restart
      <2>1. CallType'
            BY <1>4 DEF Restart, CallType, Points, Answers
      <2>2. current' \in [Keys -> States \cup {None}] /\ generation' \in [Keys -> Nat]
            BY <1>4 DEF Restart, FileType, WorldType
      <2>3. EntryType'
            BY <1>4, <2>2 DEF Restart, EntryType, Progress
      <2>4. dir' \in [Keys -> Trees]
            BY <1>4 DEF Restart, CheckoutType, Trees
      <2>5. CheckoutType'
            BY <1>4, <2>4 DEF Restart, CheckoutType
      <2>6. FileType'
            BY <1>4 DEF Restart, FileType
      <2>7. WorldType'
            <3>1. restarts' \in Nat /\ UNCHANGED <<remote, evictions>>
                  BY <1>4 DEF Restart, WorldType
            <3>2. closed' \in BOOLEAN /\ closeReturned' \in BOOLEAN /\ survivors' \subseteq Keys
                  BY <1>4 DEF Restart
            <3> QED BY <3>1, <3>2 DEF WorldType
      <2> QED BY <2>1, <2>3, <2>5, <2>6, <2>7
<1> QED BY <1>1, <1>2, <1>3, <1>4

-----------------------------------------------------------------------------
(* The lock of an entry                                                    *)

Locking == {"locked", "checkout", "removing", "pinned", "publishing"}
Reading == {"pinned", "publishing", "held"}
Updating == {"locked", "running", "fetched"}

\* A call holds the lock of its entry at five points, a refresh at three, and
\* a call has a pinned checkout until its reader closes it.
LockInv ==
    /\ \A c \in Callers : holds[c] # None <=> pc[c] \in Reading
    /\ \A c \in Callers : mutex[KeyOf[c]] = c <=> pc[c] \in Locking
    /\ \A k \in Keys : mutex[k] = "flight" <=> flight[k] \in Updating

\* A step of a call that moves between points of the same standing.
LEMMA LockKept ==
    ASSUME TypeOK, LockInv, NEW c \in Callers, NEW x \in Points, pc' = [pc EXCEPT ![c] = x],
           x \in Locking <=> pc[c] \in Locking, x \in Reading <=> pc[c] \in Reading,
           UNCHANGED <<holds, mutex>>,
           \A k \in Keys : flight'[k] \in Updating <=> flight[k] \in Updating
    PROVE  LockInv'
BY DEF LockInv, TypeOK, CallType

\* A step of a call that gives up the lock, or never had it.
LEMMA LockLeft ==
    ASSUME TypeOK, LockInv, NEW c \in Callers, pc[c] \in Locking,
           NEW x \in Points \ Locking, pc' = [pc EXCEPT ![c] = x], Unlock(KeyOf[c]),
           UNCHANGED flight, \A d \in Callers \ {c} : holds'[d] = holds[d],
           holds'[c] # None <=> x \in Reading
    PROVE  LockInv'
<1> USE DEF TypeOK, CallType, EntryType
<1>1. mutex[KeyOf[c]] = c /\ KeyOf[c] \in Keys
      BY DEF LockInv
<1>2. mutex'[KeyOf[c]] = None /\ \A k \in Keys \ {KeyOf[c]} : mutex'[k] = mutex[k]
      BY <1>1 DEF Unlock
<1>3. pc'[c] = x /\ \A d \in Callers \ {c} : pc'[d] = pc[d]
      OBVIOUS
<1>4. \A d \in Callers : holds'[d] # None <=> pc'[d] \in Reading
      BY <1>3 DEF LockInv
<1>5. ASSUME NEW d \in Callers PROVE mutex'[KeyOf[d]] = d <=> pc'[d] \in Locking
      <2>1. CASE KeyOf[d] = KeyOf[c]
            BY <1>1, <1>2, <1>3, <2>1 DEF LockInv
      <2>2. CASE KeyOf[d] # KeyOf[c]
            <3>1. mutex'[KeyOf[d]] = mutex[KeyOf[d]] /\ pc'[d] = pc[d]
                  BY <1>2, <1>3, <2>2
            <3> QED BY <3>1 DEF LockInv
      <2> QED BY <2>1, <2>2
<1>6. ASSUME NEW k \in Keys PROVE mutex'[k] = "flight" <=> flight'[k] \in Updating
      <2>1. CASE k = KeyOf[c]
            BY <1>1, <1>2, <2>1 DEF LockInv
      <2>2. CASE k # KeyOf[c]
            BY <1>2, <2>2 DEF LockInv
      <2> QED BY <2>1, <2>2
<1> QED BY <1>4, <1>5, <1>6 DEF LockInv

\* A call's step keeps each lock with its holder.
LEMMA CallLocks ==
    ASSUME TypeOK, LockInv, NEW c \in Callers, StateOf(c) \in States \/ pc[c] \notin {"checkout", "removing"},
           Begin(c) \/ Refuse(c) \/ CallNext(c) \/ CloseSnapshot(c) \/ PruneOnClose(c)
    PROVE  LockInv'
<1> USE DEF Points, Locking, Reading
<1>1. CASE Begin(c) \/ Refuse(c) \/ Join(c) \/ LeaveFlight(c) \/ Refreshed(c) \/ Fails(c)
           \/ RunCheckout(c) \/ BeginRebuild(c) \/ (RemoveTree(c) /\ ~ unproven)
           \/ OperationEnds(c) \/ PruneOnClose(c)
      <2>1. UNCHANGED <<holds, mutex>>
            BY <1>1 DEF Begin, Refuse, Join, JoinOrStart, LeaveFlight, Refreshed, Fails, RunCheckout,
                        BeginRebuild, RemoveTree, OperationEnds, OperationEndsBlind, PruneOnClose
      <2>2. \E x \in Points : /\ pc' = [pc EXCEPT ![c] = x]
                              /\ x \in Locking <=> pc[c] \in Locking
                              /\ x \in Reading <=> pc[c] \in Reading
            BY <1>1 DEF Begin, Refuse, Join, JoinOrStart, LeaveFlight, Refreshed, Fails, RunCheckout,
                        BeginRebuild, RemoveTree, OperationEnds, OperationEndsBlind, PruneOnClose,
                        Return
      <2>3. flight' = flight \/ Join(c)
            BY <1>1 DEF Begin, Refuse, LeaveFlight, Refreshed, Fails, RunCheckout, BeginRebuild,
                        RemoveTree, OperationEnds, OperationEndsBlind, PruneOnClose
      <2>4. Join(c) => flight' = flight \/ /\ flight[KeyOf[c]] = "none"
                                           /\ flight' = [flight EXCEPT ![KeyOf[c]] = "queued"]
            BY DEF Join, JoinOrStart
      <2>5. \A k \in Keys : flight'[k] \in Updating <=> flight[k] \in Updating
            BY <2>3, <2>4 DEF TypeOK, EntryType, Updating
      <2> QED BY <2>1, <2>2, <2>5, LockKept
<1>2. CASE Lock(c)
      <2>1. /\ pc[c] = "lock" /\ mutex[KeyOf[c]] = None /\ pc' = [pc EXCEPT ![c] = "locked"]
            /\ mutex' = [mutex EXCEPT ![KeyOf[c]] = c] /\ UNCHANGED <<holds, flight>>
            BY <1>2 DEF Lock, TryLock
      <2> QED BY <2>1 DEF LockInv, TypeOK, CallType, EntryType
<1>3. CASE Checkout(c)
      <2>1. /\ pc[c] = "checkout" /\ pc' = [pc EXCEPT ![c] = "pinned"]
            /\ holds' = [holds EXCEPT ![c] = StateOf(c)] /\ UNCHANGED <<mutex, flight>>
            BY <1>3 DEF Checkout, Pin
      <2>2. StateOf(c) # None
            BY <2>1 DEF States, Versions
      <2> QED BY <2>1, <2>2 DEF LockInv, TypeOK, CallType, EntryType
<1>4. CASE CheckoutFails(c) \/ (RemoveTree(c) /\ unproven) \/ Deliver(c) \/ Discard(c)
      <2>1. pc[c] \in Locking /\ Unlock(KeyOf[c]) /\ UNCHANGED flight
            BY <1>4 DEF CheckoutFails, RemoveTree, Deliver, Discard
      <2>2. PICK x \in {"done", "held"} : pc' = [pc EXCEPT ![c] = x] /\ (x = "held" <=> Deliver(c))
            BY <1>4 DEF CheckoutFails, RemoveTree, Deliver, Discard, Return, TypeOK, CallType
      <2>3. \A d \in Callers \ {c} : holds'[d] = holds[d]
            BY <1>4 DEF CheckoutFails, RemoveTree, Deliver, Discard, TypeOK, CallType
      <2>4. holds'[c] # None <=> x \in Reading
            BY <1>4, <2>2 DEF CheckoutFails, RemoveTree, Deliver, Discard, LockInv, TypeOK,
                              CallType
      <2> QED BY <2>1, <2>2, <2>3, <2>4, LockLeft
<1>5. CASE CloseSnapshot(c)
      <2>1. /\ pc[c] = "held" /\ pc' = [pc EXCEPT ![c] = "closing"]
            /\ holds' = [holds EXCEPT ![c] = None] /\ UNCHANGED <<mutex, flight>>
            BY <1>5 DEF CloseSnapshot, Return
      <2> QED BY <2>1 DEF LockInv, TypeOK, CallType, EntryType
<1>6. CASE CheckoutUnproven(c)
      <2>1. UNCHANGED <<pc, holds, mutex, flight>>
            BY <1>6 DEF CheckoutUnproven
      <2> QED BY <2>1 DEF LockInv
<1> QED BY <1>1, <1>2, <1>3, <1>4, <1>5, <1>6 DEF CallNext

\* So do the steps of refreshes and of the manager.
LEMMA OtherLocks ==
    ASSUME TypeOK, LockInv,
           \/ \E k \in Keys : FlightNext(k) \/ TokenExpires(k) \/ Evict(k) \/ RemoteAdvances(k)
           \/ CloseManager \/ CloseReturns \/ Restart \/ UNCHANGED vars
    PROVE  LockInv'
<1> USE DEF TypeOK, CallType, EntryType
<1>1. ASSUME NEW k \in Keys, FlightNext(k) PROVE LockInv'
      <2>1. UNCHANGED <<pc, holds>>
            BY <1>1 DEF FlightNext, FlightLocks, FlightRuns, FlightFetches, FlightSucceeds, FlightFails,
                        FlightUnproven, FlightDone, FlightCleared
      <2>2. \/ /\ mutex[k] = None /\ mutex' = [mutex EXCEPT ![k] = "flight"]
               /\ flight' = [flight EXCEPT ![k] = "locked"]
            \/ /\ flight[k] = "locked" /\ UNCHANGED mutex
               /\ flight' = [flight EXCEPT ![k] = "running"]
            \/ /\ flight[k] = "running" /\ UNCHANGED mutex
               /\ flight' = [flight EXCEPT ![k] = "fetched"]
            \/ /\ flight[k] = "queued" /\ UNCHANGED mutex
               /\ flight' = [flight EXCEPT ![k] = "none"]
            \/ /\ flight[k] \in Updating /\ mutex' = [mutex EXCEPT ![k] = None]
               /\ flight' = [flight EXCEPT ![k] = "none"]
            BY <1>1 DEF FlightNext, FlightLocks, FlightRuns, FlightFetches, FlightSucceeds, FlightFails,
                        FlightUnproven, FlightDone, FlightCleared, Unlock, Updating
      <2> QED BY <2>1, <2>2 DEF LockInv, Locking, Updating
<1>2. CASE \/ \E k \in Keys : TokenExpires(k) \/ Evict(k) \/ RemoteAdvances(k)
           \/ CloseManager \/ CloseReturns \/ UNCHANGED vars
      <2>1. UNCHANGED <<pc, holds, mutex, flight>>
            BY <1>2 DEF TokenExpires, Evict, RemoteAdvances, CloseManager, CloseReturns
      <2> QED BY <2>1 DEF LockInv
<1>3. CASE Restart
      <2>1. /\ \A c \in Callers : pc'[c] \in {"idle", "done"} /\ holds'[c] = None
            /\ \A k \in Keys : mutex'[k] = None /\ flight'[k] = "none"
            BY <1>3 DEF Restart
      <2> QED BY <2>1 DEF LockInv, Locking, Reading, Updating
<1> QED BY <1>1, <1>2, <1>3

-----------------------------------------------------------------------------
(* The refs of a locked entry                                              *)

Waiting(c) == pc[c] = "await" /\ answer[c] = "none"

\* The refresh this call waited for succeeded.
Vouched(c) == (pc[c] = "await" /\ answer[c] = "ok") \/ pc[c] \in {"lock"} \cup Locking

\* Refreshes of an entry begin at ever later versions of the remote; while the
\* entry is valid its refs are those of the last one that ended.
RefsInv ==
    /\ \A k \in Keys : flight[k] # "none" => flightBase[k] \in 1 .. remote[k]
    /\ \A c \in Callers : Waiting(c) =>
          flight[KeyOf[c]] # "none" /\ authority[c] = flightBase[KeyOf[c]]
    /\ \A c \in Callers : Vouched(c) =>
          /\ authority[c] \in 1 .. remote[KeyOf[c]]
          /\ flight[KeyOf[c]] # "none" => authority[c] <= flightBase[KeyOf[c]]
          /\ KeyOf[c] \in valid => authority[c] <= repo[KeyOf[c]]
    /\ \A c \in Callers : pc[c] \in Locking => KeyOf[c] \in valid
    /\ \A k \in Keys : flight[k] \in Updating => k \notin valid
    /\ \A c \in Callers : answer[c] # "none" => pc[c] \in {"await", "lock"} \cup Locking
    /\ \A k \in Keys : flight[k] = "fetched" => flightBase[k] <= repo[k]

\* What a checkout reads.
LEMMA CheckoutReads ==
    ASSUME TypeOK, RefsInv, NEW c \in Callers, pc[c] \in Locking
    PROVE  /\ repo[KeyOf[c]] # 0 /\ repo[KeyOf[c]] >= authority[c] /\ StateOf(c) \in States
<1>1. KeyOf[c] \in Keys /\ RefOf[c] \in Refs
      OBVIOUS
<1>2. authority[c] \in 1 .. remote[KeyOf[c]] /\ authority[c] <= repo[KeyOf[c]]
      BY DEF RefsInv, Vouched
<1>3. repo[KeyOf[c]] \in 0 .. MaxVersion
      BY <1>1 DEF TypeOK, FileType
<1>4. remote[KeyOf[c]] \in Nat /\ MaxVersion \in Nat
      BY <1>1 DEF TypeOK, WorldType, Versions
<1>5. repo[KeyOf[c]] \in 1 .. MaxVersion /\ repo[KeyOf[c]] >= authority[c]
      BY <1>2, <1>3, <1>4
<1> QED BY <1>1, <1>5 DEF StateOf, States, Versions

\* A call that joins no refresh and changes no refs keeps what is said of them.
LEMMA RefsKept ==
    ASSUME TypeOK, RefsInv, NEW c \in Callers,
           \A d \in Callers \ {c} : pc'[d] = pc[d] /\ answer'[d] = answer[d],
           Waiting(c)' => Waiting(c), Vouched(c)' => Vouched(c),
           pc'[c] \in Locking => KeyOf[c] \in valid,
           answer'[c] # "none" => pc'[c] \in {"await", "lock"} \cup Locking,
           UNCHANGED <<authority, flight, flightBase, valid, repo, remote>>
    PROVE  RefsInv'
<1>1. \A d \in Callers : /\ Waiting(d)' => Waiting(d)
                         /\ Vouched(d)' => Vouched(d)
                         /\ pc'[d] \in Locking => KeyOf[d] \in valid
                         /\ answer'[d] # "none" => pc'[d] \in {"await", "lock"} \cup Locking
      BY DEF RefsInv, Waiting, Vouched
<1> QED BY <1>1 DEF RefsInv

\* A call joins only a refresh that may vouch for it.
LEMMA CallRefs ==
    ASSUME TypeOK, RefsInv, NEW c \in Callers,
           Begin(c) \/ Refuse(c) \/ CallNext(c) \/ CloseSnapshot(c) \/ PruneOnClose(c)
    PROVE  RefsInv'
<1> USE DEF TypeOK, CallType, EntryType
<1>1. CASE ~ Join(c)
      <2>1. UNCHANGED <<authority, flight, flightBase, valid, repo, remote>>
            BY <1>1 DEF Begin, Refuse, CallNext, CloseSnapshot, PruneOnClose, LeaveFlight, Refreshed,
                        Fails, Lock, TryLock, RunCheckout, BeginRebuild, RemoveTree, Checkout, Pin,
                        CheckoutFails, CheckoutUnproven, OperationEnds, OperationEndsBlind, Deliver,
                        Discard
      <2>2. \A d \in Callers \ {c} : pc'[d] = pc[d] /\ answer'[d] = answer[d]
            BY <1>1 DEF Begin, Refuse, CallNext, CloseSnapshot, PruneOnClose, LeaveFlight, Refreshed,
                        Fails, Lock, TryLock, RunCheckout, BeginRebuild, RemoveTree, Checkout, Pin,
                        CheckoutFails, CheckoutUnproven, OperationEnds, OperationEndsBlind, Deliver,
                        Discard, Return
      <2>3. \/ pc'[c] \in {"enter", "done", "held", "closing"} /\ answer'[c] = "none"
            \/ pc[c] = "await" /\ answer[c] = "ok" /\ pc'[c] = "lock" /\ answer'[c] = answer[c]
            \/ /\ pc[c] = "lock" /\ pc'[c] = "locked" /\ answer'[c] = answer[c] /\ KeyOf[c] \in valid
            \/ /\ pc[c] \in Locking /\ pc'[c] \in Locking /\ answer'[c] = answer[c]
            <3>1. answer[c] # "none" => pc[c] \in {"await", "lock"} \cup Locking
                  BY DEF RefsInv
            <3>2. CASE Begin(c) \/ Refuse(c) \/ PruneOnClose(c)
                  BY <3>1, <3>2 DEF Begin, Refuse, PruneOnClose, Locking
            <3>3. CASE \/ Refreshed(c) \/ Lock(c) \/ RunCheckout(c) \/ BeginRebuild(c) \/ Checkout(c)
                       \/ OperationEnds(c) \/ CheckoutUnproven(c)
                  BY <3>3 DEF Refreshed, Lock, TryLock, RunCheckout, BeginRebuild, Checkout, Pin,
                              OperationEnds, OperationEndsBlind, CheckoutUnproven, Locking
            <3>4. CASE \/ LeaveFlight(c) \/ Fails(c) \/ CheckoutFails(c) \/ Deliver(c) \/ Discard(c)
                       \/ CloseSnapshot(c)
                  BY <3>4 DEF LeaveFlight, Fails, CheckoutFails, Deliver, Discard, CloseSnapshot,
                              Return
            <3>5. CASE RemoveTree(c)
                  BY <3>5 DEF RemoveTree, Return, Locking
            <3> QED BY <1>1, <3>2, <3>3, <3>4, <3>5 DEF CallNext
      <2>4. (Waiting(c)' => Waiting(c)) /\ (Vouched(c)' => Vouched(c))
            BY <2>3 DEF Waiting, Vouched, Locking
      <2>5. /\ pc'[c] \in Locking => KeyOf[c] \in valid
            /\ answer'[c] # "none" => pc'[c] \in {"await", "lock"} \cup Locking
            BY <2>3 DEF RefsInv, Locking
      <2> QED BY <2>1, <2>2, <2>4, <2>5, RefsKept
<1>2. CASE Join(c)
      <2> DEFINE k == KeyOf[c]
      <2>1. /\ pc[c] = "enter" /\ pc' = [pc EXCEPT ![c] = "await"] /\ UNCHANGED <<answer, valid, repo, remote>>
            /\ authority' = [authority EXCEPT ![c] = IF flight[k] = "none" THEN remote[k] ELSE flightBase[k]]
            /\ \/ flight[k] # "none" /\ UNCHANGED <<flight, flightBase>>
               \/ /\ flight[k] = "none" /\ flight' = [flight EXCEPT ![k] = "queued"]
                  /\ flightBase' = [flightBase EXCEPT ![k] = remote[k]]
            BY <1>2 DEF Join, JoinOrStart
      <2>2. k \in Keys /\ remote[k] \in Nat \ {0} /\ flightBase[k] \in Nat
            BY DEF WorldType, Versions
      <2>3. answer[c] = "none"
            BY <2>1 DEF RefsInv, Locking
      <2>4. /\ flight'[k] # "none" /\ flightBase'[k] \in 1 .. remote[k] /\ authority'[c] = flightBase'[k]
            /\ flight[k] # "none" => flightBase'[k] = flightBase[k]
            /\ flight[k] = "none" => flightBase'[k] = remote[k]
            /\ flight'[k] \in Updating => flight[k] = flight'[k]
            /\ \A j \in Keys \ {k} : flight'[j] = flight[j] /\ flightBase'[j] = flightBase[j]
            BY <2>1, <2>2 DEF RefsInv, Updating
      <2>5. ASSUME NEW d \in Callers, d # c
            PROVE  /\ Waiting(d)' => Waiting(d)
                   /\ Vouched(d)' => Vouched(d)
                   /\ authority'[d] = authority[d] /\ pc'[d] = pc[d]
            BY <2>1, <2>5 DEF Waiting, Vouched
      <2>6. Waiting(c)' /\ ~ Vouched(c)' /\ pc'[c] \notin Locking
            BY <2>1, <2>3 DEF Waiting, Vouched, Locking
      <2>7. ASSUME NEW d \in Callers, Waiting(d)'
            PROVE  flight'[KeyOf[d]] # "none" /\ authority'[d] = flightBase'[KeyOf[d]]
            <3>1. CASE d = c
                  BY <2>4, <3>1
            <3>2. CASE d # c
                  <4>1. /\ flight[KeyOf[d]] # "none" /\ authority[d] = flightBase[KeyOf[d]]
                        /\ authority'[d] = authority[d]
                        BY <2>5, <2>7, <3>2 DEF RefsInv
                  <4> QED BY <2>4, <4>1
            <3> QED BY <3>1, <3>2
      <2>8. ASSUME NEW d \in Callers, Vouched(d)'
            PROVE  /\ authority'[d] \in 1 .. remote'[KeyOf[d]]
                   /\ flight'[KeyOf[d]] # "none" => authority'[d] <= flightBase'[KeyOf[d]]
                   /\ KeyOf[d] \in valid' => authority'[d] <= repo'[KeyOf[d]]
            <3>1. /\ d # c /\ Vouched(d) /\ authority'[d] = authority[d] /\ KeyOf[d] \in Keys
                  BY <2>5, <2>6, <2>8
            <3>2. /\ authority[d] \in 1 .. remote[KeyOf[d]]
                  /\ flight[KeyOf[d]] # "none" => authority[d] <= flightBase[KeyOf[d]]
                  /\ KeyOf[d] \in valid => authority[d] <= repo[KeyOf[d]]
                  BY <3>1 DEF RefsInv
            <3>3. flight'[KeyOf[d]] # "none" => authority[d] <= flightBase'[KeyOf[d]]
                  BY <2>2, <2>4, <3>1, <3>2
            <3> QED BY <2>1, <3>1, <3>2, <3>3
      <2>9. \A d \in Callers : pc'[d] \in Locking => KeyOf[d] \in valid'
            BY <2>1, <2>5, <2>6 DEF RefsInv
      <2>10. \A j \in Keys : flight'[j] # "none" => flightBase'[j] \in 1 .. remote'[j]
             BY <2>1, <2>4 DEF RefsInv
      <2>11. \A j \in Keys : flight'[j] \in Updating => j \notin valid'
             BY <2>1, <2>4 DEF RefsInv
      <2>12. \A d \in Callers : answer'[d] # "none" => pc'[d] \in {"await", "lock"} \cup Locking
             BY <2>1 DEF RefsInv
      <2>13. \A j \in Keys : flight'[j] = "fetched" => flightBase'[j] <= repo'[j]
             BY <2>1, <2>4 DEF RefsInv, Updating
      <2> QED BY <2>7, <2>8, <2>9, <2>10, <2>11, <2>12, <2>13 DEF RefsInv
<1> QED BY <1>1, <1>2

\* Refreshes: an entry becomes valid with refs that are at least those of every
\* refresh that ended before.
LEMMA FlightRefs ==
    ASSUME TypeOK, LockInv, RefsInv, NEW k \in Keys, FlightNext(k) PROVE RefsInv'
<1> USE DEF TypeOK, CallType, EntryType
<1>1. UNCHANGED <<pc, authority, remote>>
      BY DEF FlightNext, FlightLocks, FlightRuns, FlightFetches, FlightSucceeds, FlightFails, FlightUnproven,
             FlightDone, FlightCleared
<1>2. CASE FlightLocks(k)
      <2>1. /\ flight[k] = "queued" /\ flight' = [flight EXCEPT ![k] = "locked"] /\ valid' = valid \ {k}
            /\ mutex[k] = None
            /\ UNCHANGED <<answer, flightBase, repo>>
            BY <1>2 DEF FlightLocks
      <2>2. \A c \in Callers : KeyOf[c] = k => pc[c] \notin Locking
            BY <2>1 DEF LockInv
      <2>3. \A c \in Callers : (Waiting(c)' <=> Waiting(c)) /\ (Vouched(c)' <=> Vouched(c))
            BY <1>1, <2>1 DEF Waiting, Vouched
      <2>4. /\ \A j \in Keys : flight'[j] # "none" <=> flight[j] # "none"
            /\ \A j \in Keys : flight'[j] \in Updating => j \notin valid'
            BY <2>1 DEF RefsInv, Updating
      <2> QED BY <1>1, <2>1, <2>2, <2>3, <2>4 DEF RefsInv
<1>3. CASE FlightRuns(k)
      <2>1. /\ flight[k] = "locked" /\ flight' = [flight EXCEPT ![k] = "running"] /\ UNCHANGED valid
            /\ repo' = [repo EXCEPT ![k] = 0]
            /\ UNCHANGED <<answer, flightBase>>
            BY <1>3 DEF FlightRuns
      <2>2. k \notin valid /\ \A j \in Keys \ {k} : repo'[j] = repo[j]
            BY <2>1 DEF RefsInv, FileType, Updating
      <2>3. \A c \in Callers : (Waiting(c)' <=> Waiting(c)) /\ (Vouched(c)' <=> Vouched(c))
            BY <1>1, <2>1 DEF Waiting, Vouched
      <2>4. /\ \A j \in Keys : flight'[j] # "none" <=> flight[j] # "none"
            /\ \A j \in Keys : flight'[j] \in Updating => j \notin valid'
            BY <2>1, <2>2 DEF RefsInv, Updating
      <2> QED BY <1>1, <2>1, <2>2, <2>3, <2>4 DEF RefsInv
<1>4. CASE FlightFetches(k)
      <2>1. /\ flight[k] = "running" /\ flight' = [flight EXCEPT ![k] = "fetched"]
            /\ \E v \in flightBase[k] .. remote[k] : repo' = [repo EXCEPT ![k] = v]
            /\ UNCHANGED <<valid, answer, flightBase>>
            BY <1>4 DEF FlightFetches
      <2>2. k \notin valid /\ \A j \in Keys \ {k} : repo'[j] = repo[j]
            BY <2>1 DEF RefsInv, FileType, Updating
      <2>3. flightBase[k] <= repo'[k]
            <3>1. flightBase[k] \in Nat /\ remote[k] \in Nat
                  BY DEF WorldType, Versions
            <3> QED BY <2>1, <3>1 DEF FileType
      <2>4. \A c \in Callers : (Waiting(c)' <=> Waiting(c)) /\ (Vouched(c)' <=> Vouched(c))
            BY <1>1, <2>1 DEF Waiting, Vouched
      <2>5. /\ \A j \in Keys : flight'[j] # "none" <=> flight[j] # "none"
            /\ \A j \in Keys : flight'[j] \in Updating => j \notin valid'
            BY <2>1, <2>2 DEF RefsInv, Updating
      <2>6. \A j \in Keys : flight'[j] = "fetched" => flightBase'[j] <= repo'[j]
            BY <2>1, <2>2, <2>3 DEF RefsInv
      <2> QED BY <1>1, <2>1, <2>2, <2>4, <2>5, <2>6 DEF RefsInv
<1>5. ASSUME FlightSucceeds(k) \/ FlightFails(k) \/ FlightUnproven(k) PROVE RefsInv'
      <2>1. PICK result \in {"ok", "err"} : FlightDone(k, result) /\ (result = "ok" <=> FlightSucceeds(k))
            BY <1>5 DEF FlightSucceeds, FlightFails, FlightUnproven, FlightDone, FlightCleared
      <2>2. /\ flight' = [flight EXCEPT ![k] = "none"] /\ flightBase' = [flightBase EXCEPT ![k] = 0]
            /\ answer' = [c \in Callers |-> IF c \in Waiters(k) THEN result ELSE answer[c]]
            BY <2>1 DEF FlightDone, FlightCleared
      <2>3. flight[k] # "none"
            BY <1>5 DEF FlightSucceeds, FlightFails, FlightUnproven
      <2>4. /\ \A j \in Keys \ {k} : flight'[j] = flight[j] /\ flightBase'[j] = flightBase[j]
            /\ flight'[k] = "none"
            BY <2>2
      <2>5. ASSUME NEW c \in Callers, Waiting(c)'
            PROVE  flight'[KeyOf[c]] # "none" /\ authority'[c] = flightBase'[KeyOf[c]]
            <3>1. pc[c] = "await" /\ answer'[c] = "none"
                  BY <1>1, <2>5 DEF Waiting
            <3>2. c \notin Waiters(k) /\ answer[c] = "none"
                  BY <2>1, <2>2, <3>1
            <3>3. KeyOf[c] # k /\ Waiting(c)
                  BY <3>1, <3>2 DEF Waiters, Users, Waiting
            <3> QED BY <1>1, <2>4, <3>3 DEF RefsInv
      <2>6. \A j \in Keys : flight'[j] \in Updating => j \notin valid'
            <3>1. valid' \subseteq valid \cup {k}
                  BY <1>5 DEF FlightSucceeds, FlightFails, FlightUnproven
            <3> QED BY <2>4, <3>1 DEF RefsInv, Updating
      <2>7. \A j \in Keys : flight'[j] # "none" => flightBase'[j] \in 1 .. remote'[j]
            BY <1>1, <2>4 DEF RefsInv
      <2>8. \A c \in Callers : pc'[c] \in Locking => KeyOf[c] \in valid'
            <3>1. valid \subseteq valid'
                  BY <1>5 DEF FlightSucceeds, FlightFails, FlightUnproven
            <3> QED BY <1>1, <3>1 DEF RefsInv
      <2>9. \A c \in Callers : answer'[c] # "none" => pc'[c] \in {"await", "lock"} \cup Locking
            BY <1>1, <2>2 DEF RefsInv, Waiters
      <2>10. ASSUME NEW c \in Callers, Vouched(c)'
             PROVE  /\ authority'[c] \in 1 .. remote'[KeyOf[c]]
                    /\ flight'[KeyOf[c]] # "none" => authority'[c] <= flightBase'[KeyOf[c]]
                    /\ KeyOf[c] \in valid' => authority'[c] <= repo'[KeyOf[c]]
             <3> DEFINE j == KeyOf[c]
             <3>1. j \in Keys /\ remote[j] \in Nat /\ authority[c] \in Nat
                   BY DEF WorldType, Versions
             <3>2. Vouched(c) \/ (c \in Waiters(k) /\ result = "ok")
                   BY <1>1, <2>2, <2>10 DEF Vouched
             <3>3. c \in Waiters(k) => j = k /\ Waiting(c)
                   BY DEF Waiters, Users, Waiting
             <3>4. authority[c] \in 1 .. remote[j]
                   BY <2>3, <3>2, <3>3 DEF RefsInv
             <3>5. CASE j # k
                   <4>1. Vouched(c) /\ (j \in valid' => j \in valid) /\ repo'[j] = repo[j]
                         BY <1>5, <3>1, <3>2, <3>3, <3>5
                            DEF FlightSucceeds, FlightFails, FlightUnproven, FileType
                   <4> QED BY <1>1, <2>4, <3>1, <3>4, <3>5, <4>1 DEF RefsInv
             <3>6. CASE j = k /\ FlightSucceeds(k)
                   <4>1. flight[k] = "fetched" /\ UNCHANGED repo
                         BY <3>6 DEF FlightSucceeds
                   <4>2. flightBase[k] \in Nat /\ repo[k] \in Nat
                         BY DEF FileType
                   <4>3. repo'[k] >= flightBase[k] /\ repo'[k] \in Nat
                         BY <4>1, <4>2 DEF RefsInv
                   <4>4. authority[c] <= flightBase[k]
                         BY <2>3, <3>2, <3>3, <3>6, <4>2 DEF RefsInv
                   <4> QED BY <1>1, <2>4, <3>1, <3>4, <3>6, <4>2, <4>3, <4>4
             <3>7. CASE j = k /\ ~ FlightSucceeds(k)
                   <4>1. Vouched(c) /\ UNCHANGED <<repo, valid>>
                         BY <1>5, <2>1, <3>2, <3>7 DEF FlightFails, FlightUnproven
                   <4> QED BY <1>1, <2>4, <3>4, <3>7, <4>1 DEF RefsInv
             <3> QED BY <3>5, <3>6, <3>7
      <2>11. \A j \in Keys : flight'[j] = "fetched" => flightBase'[j] <= repo'[j]
             <3>1. UNCHANGED repo
                   BY <1>5 DEF FlightSucceeds, FlightFails, FlightUnproven
             <3> QED BY <2>4, <3>1 DEF RefsInv
      <2> QED BY <2>5, <2>6, <2>7, <2>8, <2>9, <2>10, <2>11 DEF RefsInv
<1> QED BY <1>2, <1>3, <1>4, <1>5 DEF FlightNext

-----------------------------------------------------------------------------
(* The users of an entry                                                   *)

Busy(k) == {c \in Users(k) : InProgress(c)}
Readers(k) == {c \in Users(k) : holds[c] # None}
Flying(k) == IF flight[k] = "none" THEN 0 ELSE 1

\* The count of an entry is that of its calls, readers and refresh, of which
\* there are finitely many however many calls could be made.
UsersInv ==
    \A k \in Keys :
        /\ IsFiniteSet(Busy(k)) /\ IsFiniteSet(Readers(k))
        /\ active[k] = Cardinality(Busy(k)) + Cardinality(Readers(k)) + Flying(k)

\* An entry counted as unused has no call in progress, no reader and no refresh.
LEMMA IdleEntry ==
    ASSUME UsersInv, NEW k \in Keys, active[k] = 0
    PROVE  flight[k] = "none" /\ \A c \in Users(k) : ~ InProgress(c) /\ holds[c] = None
<1>1. Cardinality(Busy(k)) \in Nat /\ Cardinality(Readers(k)) \in Nat /\ Flying(k) \in Nat
      BY FS_CardinalityType DEF UsersInv, Flying
<1>2. Cardinality(Busy(k)) = 0 /\ Cardinality(Readers(k)) = 0 /\ Flying(k) = 0
      BY <1>1 DEF UsersInv
<1>3. Busy(k) = {} /\ Readers(k) = {}
      BY <1>2, FS_EmptySet DEF UsersInv
<1> QED BY <1>2, <1>3 DEF Busy, Readers, Flying

\* A call enters a set of its entry, leaves it, or does neither.
LEMMA SetMoves ==
    ASSUME NEW S, NEW T, NEW c, IsFiniteSet(S),
           \A d : d # c => (d \in T <=> d \in S)
    PROVE  /\ IsFiniteSet(T)
           /\ Cardinality(T) = Cardinality(S)
                + (IF c \in T /\ c \notin S THEN 1 ELSE IF c \in S /\ c \notin T THEN 0 - 1 ELSE 0)
<1>1. CASE c \in T <=> c \in S
      <2>1. T = S
            BY <1>1
      <2>2. Cardinality(S) \in Nat
            BY FS_CardinalityType
      <2> QED BY <1>1, <2>1, <2>2
<1>2. CASE c \in T /\ c \notin S
      <2>1. T = S \cup {c}
            BY <1>2
      <2>2. IsFiniteSet(T) /\ Cardinality(T) = Cardinality(S) + 1
            BY <1>2, <2>1, FS_AddElement
      <2> QED BY <1>2, <2>2
<1>3. CASE c \in S /\ c \notin T
      <2>1. T = S \ {c}
            BY <1>3
      <2>2. IsFiniteSet(T) /\ Cardinality(T) = Cardinality(S) - 1
            BY <1>3, <2>1, FS_RemoveElement
      <2>3. Cardinality(S) \in Nat
            BY FS_CardinalityType
      <2> QED BY <1>3, <2>2, <2>3
<1> QED BY <1>1, <1>2, <1>3

OneIf(b) == IF b THEN 1 ELSE 0

\* A step of one call: the count changes by what the call, its pin and the
\* refresh it starts amount to.
LEMMA UsersKept ==
    ASSUME TypeOK, UsersInv, NEW c \in Callers,
           \A d \in Callers \ {c} : pc'[d] = pc[d] /\ holds'[d] = holds[d],
           \A k \in Keys \ {KeyOf[c]} : active'[k] = active[k] /\ flight'[k] = flight[k],
           active'[KeyOf[c]] = active[KeyOf[c]]
               + (OneIf(InProgress(c)') - OneIf(InProgress(c)))
               + (OneIf(holds'[c] # None) - OneIf(holds[c] # None))
               + (Flying(KeyOf[c])' - Flying(KeyOf[c]))
    PROVE  UsersInv'
<1> DEFINE j == KeyOf[c]
<1>1. \A d \in Callers \ {c} : InProgress(d)' = InProgress(d)
      BY DEF InProgress
<1>2. ASSUME NEW k \in Keys \ {j}
      PROVE  Busy(k)' = Busy(k) /\ Readers(k)' = Readers(k) /\ Flying(k)' = Flying(k)
      BY <1>1, <1>2 DEF Busy, Readers, Users, Flying
<1>3. c \in Users(j) /\ Users(j) \subseteq Callers /\ j \in Keys
      BY DEF Users
<1>4. /\ IsFiniteSet(Busy(j)')
      /\ Cardinality(Busy(j)') = Cardinality(Busy(j)) + (OneIf(InProgress(c)') - OneIf(InProgress(c)))
      <2>1. \A d : d # c => (d \in Busy(j)' <=> d \in Busy(j))
            BY <1>1, <1>3 DEF Busy, Users
      <2>2. (c \in Busy(j)' <=> InProgress(c)') /\ (c \in Busy(j) <=> InProgress(c))
            BY <1>3 DEF Busy, Users
      <2>3. IsFiniteSet(Busy(j)) /\ Cardinality(Busy(j)) \in Nat
            BY <1>3, FS_CardinalityType DEF UsersInv
      <2>4. /\ IsFiniteSet(Busy(j)')
            /\ Cardinality(Busy(j)') = Cardinality(Busy(j))
                 + (IF c \in Busy(j)' /\ c \notin Busy(j) THEN 1
                    ELSE IF c \in Busy(j) /\ c \notin Busy(j)' THEN 0 - 1 ELSE 0)
            BY <2>1, <2>3, SetMoves
      <2> QED BY <2>2, <2>3, <2>4 DEF OneIf
<1>5. /\ IsFiniteSet(Readers(j)')
      /\ Cardinality(Readers(j)') = Cardinality(Readers(j))
           + (OneIf(holds'[c] # None) - OneIf(holds[c] # None))
      <2>1. \A d : d # c => (d \in Readers(j)' <=> d \in Readers(j))
            BY <1>3 DEF Readers, Users
      <2>2. (c \in Readers(j)' <=> holds'[c] # None) /\ (c \in Readers(j) <=> holds[c] # None)
            BY <1>3 DEF Readers, Users
      <2>3. IsFiniteSet(Readers(j)) /\ Cardinality(Readers(j)) \in Nat
            BY <1>3, FS_CardinalityType DEF UsersInv
      <2>4. /\ IsFiniteSet(Readers(j)')
            /\ Cardinality(Readers(j)') = Cardinality(Readers(j))
                 + (IF c \in Readers(j)' /\ c \notin Readers(j) THEN 1
                    ELSE IF c \in Readers(j) /\ c \notin Readers(j)' THEN 0 - 1 ELSE 0)
            BY <2>1, <2>3, SetMoves
      <2> QED BY <2>2, <2>3, <2>4 DEF OneIf
<1>6. /\ Cardinality(Busy(j)) \in Nat /\ Cardinality(Readers(j)) \in Nat
      /\ active[j] = Cardinality(Busy(j)) + Cardinality(Readers(j)) + Flying(j)
      BY <1>3, FS_CardinalityType DEF UsersInv
<1>7. active'[j] = Cardinality(Busy(j)') + Cardinality(Readers(j)') + Flying(j)'
      BY <1>4, <1>5, <1>6 DEF OneIf, Flying
<1>8. \A k \in Keys : /\ IsFiniteSet(Busy(k)') /\ IsFiniteSet(Readers(k)')
                      /\ active'[k] = Cardinality(Busy(k)') + Cardinality(Readers(k)') + Flying(k)'
      BY <1>2, <1>4, <1>5, <1>7 DEF UsersInv
<1> QED BY <1>8 DEF UsersInv

\* On every path a call counts itself in and out once.
LEMMA CallUsers ==
    ASSUME TypeOK, LockInv, UsersInv, NEW c \in Callers,
           StateOf(c) \in States \/ pc[c] \notin {"checkout", "removing"},
           Begin(c) \/ Refuse(c) \/ CallNext(c) \/ CloseSnapshot(c) \/ PruneOnClose(c)
    PROVE  UsersInv'
<1> USE DEF TypeOK, CallType, EntryType
<1> DEFINE k == KeyOf[c]
<1>1. k \in Keys /\ active[k] \in Int /\ Flying(k) \in Int
      BY DEF Flying
<1>2. \A d \in Callers \ {c} : pc'[d] = pc[d] /\ holds'[d] = holds[d]
      <2>1. CASE Begin(c) \/ Refuse(c) \/ Join(c) \/ Refreshed(c) \/ Lock(c) \/ RunCheckout(c)
                 \/ BeginRebuild(c) \/ Checkout(c) \/ CheckoutUnproven(c) \/ OperationEnds(c)
                 \/ PruneOnClose(c)
            BY <2>1 DEF Begin, Refuse, Join, JoinOrStart, Refreshed, Lock, TryLock, RunCheckout,
                        BeginRebuild, Checkout, Pin, CheckoutUnproven, OperationEnds,
                        OperationEndsBlind, PruneOnClose
      <2>2. CASE LeaveFlight(c) \/ Fails(c) \/ CheckoutFails(c) \/ RemoveTree(c)
            BY <2>2 DEF LeaveFlight, Fails, CheckoutFails, RemoveTree, Return
      <2>3. CASE Deliver(c) \/ Discard(c) \/ CloseSnapshot(c)
            BY <2>3 DEF Deliver, Discard, CloseSnapshot, Return
      <2> QED BY <2>1, <2>2, <2>3 DEF CallNext
<1>3. \A j \in Keys \ {k} : active'[j] = active[j] /\ flight'[j] = flight[j]
      <2>1. CASE Begin(c) \/ Refuse(c) \/ Join(c) \/ Refreshed(c) \/ Lock(c) \/ RunCheckout(c)
                 \/ BeginRebuild(c) \/ Checkout(c) \/ CheckoutUnproven(c) \/ OperationEnds(c)
                 \/ PruneOnClose(c)
            BY <2>1 DEF Begin, Refuse, Join, JoinOrStart, Refreshed, Lock, TryLock, RunCheckout,
                        BeginRebuild, Checkout, Pin, CheckoutUnproven, OperationEnds,
                        OperationEndsBlind, PruneOnClose
      <2>2. CASE LeaveFlight(c) \/ Fails(c) \/ CheckoutFails(c) \/ RemoveTree(c)
            BY <2>2 DEF LeaveFlight, Fails, CheckoutFails, RemoveTree, Return
      <2>3. CASE Deliver(c) \/ Discard(c) \/ CloseSnapshot(c)
            BY <2>3 DEF Deliver, Discard, CloseSnapshot, Return
      <2> QED BY <2>1, <2>2, <2>3 DEF CallNext
<1>4. active'[k] = active[k]
               + (OneIf(InProgress(c)') - OneIf(InProgress(c)))
               + (OneIf(holds'[c] # None) - OneIf(holds[c] # None))
               + (Flying(k)' - Flying(k))
      <2> USE DEF OneIf, InProgress, Flying
      <2>1. CASE Begin(c)
            <3>1. /\ pc[c] = "idle" /\ pc'[c] = "enter" /\ holds'[c] = holds[c] /\ flight' = flight
                  /\ active'[k] = active[k] + 1
                  BY <1>1, <2>1 DEF Begin
            <3> QED BY <1>1, <3>1
      <2>2. CASE \/ Refuse(c) \/ Refreshed(c) \/ Lock(c) \/ RunCheckout(c) \/ BeginRebuild(c)
                 \/ CheckoutUnproven(c) \/ OperationEnds(c) \/ PruneOnClose(c)
                 \/ (RemoveTree(c) /\ ~ unproven)
            <3>1. /\ InProgress(c)' <=> InProgress(c)
                  /\ UNCHANGED <<holds, flight, active>>
                  BY <2>2 DEF Refuse, Refreshed, Lock, TryLock, RunCheckout, BeginRebuild, RemoveTree,
                              CheckoutUnproven, OperationEnds, OperationEndsBlind, PruneOnClose
            <3> QED BY <1>1, <3>1
      <2>3. CASE Join(c)
            <3>1. /\ pc[c] = "enter" /\ pc'[c] = "await" /\ UNCHANGED holds
                  /\ \/ flight[k] # "none" /\ UNCHANGED <<flight, active>>
                     \/ /\ flight[k] = "none" /\ flight'[k] = "queued"
                        /\ active'[k] = active[k] + 1
                  BY <1>1, <2>3 DEF Join, JoinOrStart
            <3> QED BY <1>1, <3>1
      <2>4. CASE Checkout(c)
            <3>1. /\ pc[c] = "checkout" /\ pc'[c] = "pinned" /\ holds'[c] = StateOf(c)
                  /\ StateOf(c) \in States /\ flight' = flight /\ active'[k] = active[k] + 1
                  BY <1>1, <2>4 DEF Checkout, Pin
            <3>2. holds[c] = None /\ holds'[c] # None
                  BY <3>1 DEF LockInv, Reading, States, Versions
            <3> QED BY <1>1, <3>1, <3>2
      <2>5. CASE LeaveFlight(c) \/ Fails(c) \/ CheckoutFails(c) \/ (RemoveTree(c) /\ unproven)
            <3>1. /\ pc[c] \in {"enter", "await", "lock", "locked", "checkout", "removing"} /\ pc'[c] = "done"
                  /\ UNCHANGED <<holds, flight>> /\ active'[k] = active[k] - 1
                  BY <1>1, <2>5 DEF LeaveFlight, Fails, CheckoutFails, RemoveTree, Return
            <3> QED BY <1>1, <3>1
      <2>6. CASE Deliver(c)
            <3>1. /\ pc[c] = "publishing" /\ pc'[c] = "held" /\ UNCHANGED <<holds, flight>>
                  /\ active'[k] = active[k] - 1
                  BY <1>1, <2>6 DEF Deliver, Return
            <3> QED BY <1>1, <3>1
      <2>7. CASE Discard(c)
            <3>1. /\ pc[c] \in {"pinned", "publishing"} /\ pc'[c] = "done" /\ holds'[c] = None /\ UNCHANGED flight
                  /\ active'[k] = active[k] - 2
                  BY <1>1, <2>7 DEF Discard, Return
            <3>2. holds[c] # None
                  BY <3>1 DEF LockInv, Reading
            <3> QED BY <1>1, <3>1, <3>2
      <2>8. CASE CloseSnapshot(c)
            <3>1. /\ pc[c] = "held" /\ pc'[c] = "closing" /\ holds'[c] = None /\ UNCHANGED flight
                  /\ active'[k] = active[k] - 1
                  BY <1>1, <2>8 DEF CloseSnapshot, Return
            <3>2. holds[c] # None
                  BY <3>1 DEF LockInv, Reading
            <3> QED BY <1>1, <3>1, <3>2
      <2> QED BY <2>1, <2>2, <2>3, <2>4, <2>5, <2>6, <2>7, <2>8 DEF CallNext
<1> QED BY <1>2, <1>3, <1>4, UsersKept

\* The other steps end refreshes, or everything.
LEMMA OtherUsers ==
    ASSUME TypeOK, UsersInv,
           \/ \E k \in Keys : FlightNext(k) \/ TokenExpires(k) \/ Evict(k) \/ RemoteAdvances(k)
           \/ CloseManager \/ CloseReturns \/ Restart \/ UNCHANGED vars
    PROVE  UsersInv'
<1> USE DEF TypeOK, EntryType
<1>1. ASSUME Restart PROVE UsersInv'
      <2>1. \A k \in Keys : active'[k] = 0 /\ Flying(k)' = 0
            BY <1>1 DEF Restart, Flying
      <2>2. \A c \in Callers : ~ InProgress(c)' /\ holds'[c] = None
            BY <1>1 DEF Restart, InProgress
      <2>3. \A k \in Keys : Busy(k)' = {} /\ Readers(k)' = {}
            BY <2>2 DEF Busy, Readers, Users
      <2>4. IsFiniteSet({}) /\ Cardinality({}) = 0
            BY FS_EmptySet
      <2>5. ASSUME NEW k \in Keys
            PROVE  /\ IsFiniteSet(Busy(k)') /\ IsFiniteSet(Readers(k)')
                   /\ active'[k] = Cardinality(Busy(k)') + Cardinality(Readers(k)') + Flying(k)'
            <3>1. /\ IsFiniteSet(Busy(k)') /\ IsFiniteSet(Readers(k)')
                  /\ Cardinality(Busy(k)') = 0 /\ Cardinality(Readers(k)') = 0
                  BY <2>3, <2>4
            <3>2. active'[k] = 0 /\ Flying(k)' = 0
                  BY <2>1
            <3> QED BY <3>1, <3>2
      <2> QED BY <2>5 DEF UsersInv
<1>2. ASSUME ~ Restart PROVE UsersInv'
      <2>1. UNCHANGED <<pc, holds>>
            BY <1>2 DEF FlightNext, FlightLocks, FlightRuns, FlightFetches, FlightSucceeds, FlightFails,
                        FlightUnproven, FlightDone, FlightCleared, TokenExpires, Evict,
                        RemoteAdvances, CloseManager, CloseReturns
      <2>2. \A k \in Keys : Busy(k)' = Busy(k) /\ Readers(k)' = Readers(k)
            BY <2>1 DEF Busy, Readers, Users, InProgress
      <2>3. \/ UNCHANGED <<active, flight>>
            \/ \E j \in Keys : FlightNext(j)
            BY <1>2 DEF TokenExpires, Evict, RemoteAdvances, CloseManager, CloseReturns
      <2>4. ASSUME NEW j \in Keys, FlightNext(j)
            PROVE  \/ UNCHANGED active /\ \A k \in Keys : Flying(k)' = Flying(k)
                   \/ /\ flight[j] # "none" /\ flight' = [flight EXCEPT ![j] = "none"]
                      /\ active' = [active EXCEPT ![j] = active[j] - 1]
            BY <2>4 DEF FlightNext, FlightLocks, FlightRuns, FlightFetches, FlightSucceeds, FlightFails,
                        FlightUnproven, FlightDone, FlightCleared, Flying
      <2>5. ASSUME NEW k \in Keys
            PROVE  \/ active'[k] = active[k] /\ Flying(k)' = Flying(k)
                   \/ active'[k] = active[k] - 1 /\ Flying(k) = 1 /\ Flying(k)' = 0
            BY <2>3, <2>4 DEF Flying
      <2>6. ASSUME NEW k \in Keys
            PROVE  /\ IsFiniteSet(Busy(k)') /\ IsFiniteSet(Readers(k)')
                   /\ active'[k] = Cardinality(Busy(k)') + Cardinality(Readers(k)') + Flying(k)'
            <3>1. /\ IsFiniteSet(Busy(k)) /\ IsFiniteSet(Readers(k))
                  /\ active[k] = Cardinality(Busy(k)) + Cardinality(Readers(k)) + Flying(k)
                  BY DEF UsersInv
            <3>2. Cardinality(Busy(k)) \in Nat /\ Cardinality(Readers(k)) \in Nat /\ Flying(k) \in Nat
                  BY <3>1, FS_CardinalityType DEF Flying
            <3>3. active'[k] = Cardinality(Busy(k)) + Cardinality(Readers(k)) + Flying(k)'
                  BY <2>5, <3>1, <3>2
            <3> QED BY <2>2, <3>1, <3>3
      <2> QED BY <2>6 DEF UsersInv
<1> QED BY <1>1, <1>2

\* An entry that is evicted has no user whose refs it could take away.
LEMMA OtherRefs ==
    ASSUME TypeOK, RefsInv, UsersInv,
           \/ \E k \in Keys : TokenExpires(k) \/ Evict(k) \/ RemoteAdvances(k)
           \/ CloseManager \/ CloseReturns \/ Restart \/ UNCHANGED vars
    PROVE  RefsInv'
<1> USE DEF TypeOK, CallType, EntryType
<1>1. CASE (\E k \in Keys : TokenExpires(k)) \/ CloseManager \/ CloseReturns \/ UNCHANGED vars
      <2>1. UNCHANGED <<pc, answer, authority, flight, flightBase, valid, repo, remote>>
            BY <1>1 DEF TokenExpires, CloseManager, CloseReturns
      <2> QED BY <2>1 DEF RefsInv, Waiting, Vouched
<1>2. ASSUME NEW k \in Keys, RemoteAdvances(k) PROVE RefsInv'
      <2>1. UNCHANGED <<pc, answer, authority, flight, flightBase, valid, repo>>
            BY <1>2 DEF RemoteAdvances
      <2>2. \A j \in Keys : remote[j] \in Nat /\ remote'[j] \in Nat /\ remote[j] <= remote'[j]
            BY <1>2 DEF RemoteAdvances, WorldType, Versions
      <2>3. \A j \in Keys : 1 .. remote[j] \subseteq 1 .. remote'[j]
            BY <2>2
      <2>4. \A c \in Callers : (Waiting(c)' <=> Waiting(c)) /\ (Vouched(c)' <=> Vouched(c))
            BY <2>1 DEF Waiting, Vouched
      <2> QED BY <2>1, <2>3, <2>4 DEF RefsInv
<1>3. ASSUME NEW k \in Keys, Evict(k) PROVE RefsInv'
      <2>1. UNCHANGED <<pc, answer, authority, flight, flightBase, remote>>
            BY <1>3 DEF Evict
      <2>2. valid' \subseteq valid /\ \A j \in Keys \ {k} : (j \in valid' <=> j \in valid) /\ repo'[j] = repo[j]
            BY <1>3 DEF Evict, FileType
      <2>3. \A c \in Callers : KeyOf[c] = k => ~ InProgress(c)
            BY <1>3, IdleEntry DEF Evict, Users
      <2>4. \A c \in Callers : (Waiting(c)' <=> Waiting(c)) /\ (Vouched(c)' <=> Vouched(c))
            BY <2>1 DEF Waiting, Vouched
      <2>5. \A c \in Callers : Waiting(c) \/ Vouched(c) \/ pc[c] \in Locking => KeyOf[c] # k
            BY <2>3 DEF Waiting, Vouched, Locking, InProgress
      <2>6. \A c \in Callers : pc'[c] \in Locking => KeyOf[c] \in valid'
            BY <2>1, <2>2, <2>5 DEF RefsInv
      <2>7. \A c \in Callers : Vouched(c)' =>
               /\ authority'[c] \in 1 .. remote'[KeyOf[c]]
               /\ flight'[KeyOf[c]] # "none" => authority'[c] <= flightBase'[KeyOf[c]]
               /\ KeyOf[c] \in valid' => authority'[c] <= repo'[KeyOf[c]]
            BY <2>1, <2>2, <2>4, <2>5 DEF RefsInv
      <2>8. flight[k] = "none"
            BY <1>3, IdleEntry DEF Evict
      <2> QED BY <2>1, <2>2, <2>4, <2>6, <2>7, <2>8 DEF RefsInv
<1>4. CASE Restart
      <2>1. /\ \A c \in Callers : pc'[c] \in {"idle", "done"} /\ answer'[c] = "none"
            /\ \A k \in Keys : flight'[k] = "none"
            BY <1>4 DEF Restart
      <2>2. \A c \in Callers : ~ Waiting(c)' /\ ~ Vouched(c)' /\ pc'[c] \notin Locking
            BY <2>1 DEF Waiting, Vouched, Locking
      <2> QED BY <2>1, <2>2 DEF RefsInv, Updating
<1> QED BY <1>1, <1>2, <1>3, <1>4

-----------------------------------------------------------------------------
(* Pinned checkouts                                                        *)

\* What this process verified is whole unless a removal failed halfway, what a
\* reader has pinned is verified, and a directory that is rebuilt is not.
FilesInv ==
    /\ \A k \in Keys \ Unremovable : \A s \in verified[k] : dir[k][s] = "whole"
    /\ \A c \in Callers : holds[c] # None => holds[c] \in verified[KeyOf[c]]
    /\ \A c \in Callers : pc[c] = "removing" => StateOf(c) \notin verified[KeyOf[c]]

\* Pruning touches no pinned checkout and forgets none of them.
LEMMA PruneKeeps ==
    ASSUME TypeOK, FilesInv, NEW k \in Keys, Prune(k), UNCHANGED <<holds, repo>>,
           \A c \in Callers : pc'[c] = "removing" => pc[c] = "removing"
    PROVE  FilesInv'
<1>1. /\ verified'[k] \subseteq verified[k]
      /\ \A s \in Pinned(k) : s \in verified[k] => s \in verified'[k]
      /\ k \notin Unremovable => \A s \in verified'[k] : dir'[k][s] = dir[k][s]
      /\ \A j \in Keys \ {k} : dir'[j] = dir[j] /\ verified'[j] = verified[j]
      BY PruneType DEF TypeOK
<1>2. \A j \in Keys \ Unremovable : \A s \in verified'[j] : dir'[j][s] = "whole"
      BY <1>1 DEF FilesInv
<1>3. ASSUME NEW c \in Callers, holds'[c] # None PROVE holds'[c] \in verified'[KeyOf[c]]
      <2>1. holds[c] # None /\ holds'[c] = holds[c] /\ holds[c] \in verified[KeyOf[c]] /\ KeyOf[c] \in Keys
            BY <1>3 DEF FilesInv
      <2>2. KeyOf[c] = k => holds[c] \in Pinned(k)
            BY <2>1 DEF Pinned, Users
      <2> QED BY <1>1, <2>1, <2>2
<1>4. \A j \in Keys : verified'[j] \subseteq verified[j]
      BY <1>1
<1>5. \A c \in Callers : pc'[c] = "removing" => StateOf(c)' \notin verified'[KeyOf[c]]
      BY <1>4 DEF FilesInv, StateOf
<1> QED BY <1>2, <1>3, <1>5 DEF FilesInv

\* A call pins only what it verified, and what is pinned stays as it is.
LEMMA CallFiles ==
    ASSUME TypeOK, LockInv, FilesInv, NEW c \in Callers,
           StateOf(c) \in States \/ pc[c] \notin {"checkout", "removing"},
           Begin(c) \/ Refuse(c) \/ CallNext(c) \/ CloseSnapshot(c) \/ PruneOnClose(c)
    PROVE  FilesInv'
<1> DEFINE k == KeyOf[c]
           s == StateOf(c)
<1>1. k \in Keys /\ holds \in [Callers -> States \cup {None}]
      BY DEF TypeOK, CallType
<1>2. UNCHANGED repo /\ \A d \in Callers : StateOf(d)' = StateOf(d)
      BY DEF Begin, Refuse, CallNext, CloseSnapshot, PruneOnClose, Join, JoinOrStart, LeaveFlight,
             Refreshed, Fails, Lock, TryLock, RunCheckout, BeginRebuild, RemoveTree, Checkout, Pin,
             CheckoutFails, CheckoutUnproven, OperationEnds, OperationEndsBlind, Deliver, Discard,
             StateOf
<1>3. \A d \in Callers : pc'[d] = "removing" => pc[d] = "removing" \/ (d = c /\ BeginRebuild(c))
      BY DEF Begin, Refuse, CallNext, CloseSnapshot, PruneOnClose, Join, JoinOrStart, LeaveFlight,
             Refreshed, Fails, Lock, TryLock, RunCheckout, BeginRebuild, RemoveTree, Checkout, Pin,
             CheckoutFails, CheckoutUnproven, OperationEnds, OperationEndsBlind, Deliver, Discard,
             Return, TypeOK, CallType
<1>4. CASE Checkout(c)
      <2>1. s \in States /\ holds' = [holds EXCEPT ![c] = s] /\ pc[c] = "checkout"
            BY <1>4 DEF Checkout, Pin
      <2>2. /\ verified'[k] \subseteq verified[k] \cup {s} /\ s \in verified'[k]
            /\ \A x \in Pinned(k) : x \in verified[k] => x \in verified'[k]
            /\ k \notin Unremovable =>
                 /\ \A x \in verified'[k] \ {s} : dir'[k][x] = dir[k][x]
                 /\ dir'[k][s] = IF dir[k][s] = "none" THEN "whole" ELSE dir[k][s]
            /\ \A j \in Keys \ {k} : dir'[j] = dir[j] /\ verified'[j] = verified[j]
            BY <1>4, <2>1, CheckoutBuilds
      <2>3. k \notin Unremovable => dir'[k][s] = "whole"
            <3>1. dir[k][s] = "none" \/ Reused(k, s)
                  BY <1>4 DEF Checkout, Pin
            <3> QED BY <1>1, <2>2, <3>1 DEF Reused, FilesInv
      <2>4. \A j \in Keys \ Unremovable : \A x \in verified'[j] : dir'[j][x] = "whole"
            BY <2>2, <2>3 DEF FilesInv
      <2>5. ASSUME NEW d \in Callers, holds'[d] # None PROVE holds'[d] \in verified'[KeyOf[d]]
            <3>1. CASE d = c
                  BY <1>1, <2>1, <2>2, <3>1
            <3>2. CASE d # c
                  <4>1. holds'[d] = holds[d] /\ holds[d] \in verified[KeyOf[d]] /\ KeyOf[d] \in Keys
                        BY <1>1, <2>1, <2>5, <3>2 DEF FilesInv
                  <4>2. KeyOf[d] = k => holds[d] \in Pinned(k)
                        BY <2>5, <4>1 DEF Pinned, Users
                  <4> QED BY <2>2, <4>1, <4>2
            <3> QED BY <3>1, <3>2
      <2>6. ASSUME NEW d \in Callers, pc'[d] = "removing" PROVE StateOf(d)' \notin verified'[KeyOf[d]]
            <3>1. pc[d] = "removing"
                  BY <1>3, <1>4, <2>1, <2>6 DEF BeginRebuild, Checkout, Pin, TypeOK, CallType
            <3>2. KeyOf[d] # k /\ KeyOf[d] \in Keys
                  BY <2>1, <3>1 DEF LockInv, Locking
            <3> QED BY <1>2, <2>2, <3>1, <3>2 DEF FilesInv
      <2> QED BY <2>4, <2>5, <2>6 DEF FilesInv
<1>5. CASE PruneOnClose(c)
      <2>1. Prune(k) \/ UNCHANGED checkoutVars
            BY <1>5 DEF PruneOnClose
      <2>2. UNCHANGED holds /\ pc' = [pc EXCEPT ![c] = "done"]
            BY <1>5 DEF PruneOnClose
      <2>3. \A d \in Callers : pc'[d] = "removing" => pc[d] = "removing"
            BY <2>2 DEF TypeOK, CallType
      <2> QED BY <1>1, <1>2, <2>1, <2>2, <2>3, PruneKeeps DEF FilesInv
<1>6. CASE BeginRebuild(c) \/ RemoveTree(c) \/ CheckoutFails(c)
      <2>1. /\ UNCHANGED <<verified, holds>>
            /\ \/ UNCHANGED dir
               \/ /\ dir' = [dir EXCEPT ![k][s] = "none"] \/ dir' = [dir EXCEPT ![k][s] = "partial"]
                  /\ pc[c] = "removing" \/ dir[k][s] = "none" \/ k \in Unremovable
            BY <1>6 DEF BeginRebuild, RemoveTree, CheckoutFails
      <2>2. dir \in [Keys -> Trees] /\ verified \in [Keys -> SUBSET States]
            BY DEF TypeOK, CheckoutType
      <2>3. ASSUME NEW j \in Keys \ Unremovable, NEW x \in verified[j] PROVE dir'[j][x] = "whole"
            <3>1. dir[j][x] = "whole" /\ x \in States
                  BY <2>2, <2>3 DEF FilesInv
            <3>2. j = k /\ x = s => UNCHANGED dir
                  BY <2>1, <3>1 DEF FilesInv
            <3>3. dir'[j][x] = dir[j][x]
                  BY <1>1, <2>1, <2>2, <3>1, <3>2 DEF Trees
            <3> QED BY <3>1, <3>3
      <2>4. BeginRebuild(c) => s \notin verified[k]
            BY DEF BeginRebuild
      <2>5. \A d \in Callers : pc'[d] = "removing" => StateOf(d)' \notin verified'[KeyOf[d]]
            BY <1>2, <1>3, <2>1, <2>4 DEF FilesInv
      <2>6. \A j \in Keys \ Unremovable : \A x \in verified'[j] : dir'[j][x] = "whole"
            BY <2>1, <2>3
      <2>7. \A d \in Callers : holds'[d] # None => holds'[d] \in verified'[KeyOf[d]]
            BY <2>1 DEF FilesInv
      <2> QED BY <2>5, <2>6, <2>7 DEF FilesInv
<1>7. ASSUME UNCHANGED checkoutVars, ~ Checkout(c), ~ BeginRebuild(c) PROVE FilesInv'
      <2>1. holds' = holds \/ holds' = [holds EXCEPT ![c] = None]
            BY <1>7 DEF Begin, Refuse, CallNext, CloseSnapshot, PruneOnClose, Join, JoinOrStart,
                    LeaveFlight, Refreshed, Fails, Lock, TryLock, RunCheckout, RemoveTree,
                    CheckoutFails, CheckoutUnproven, OperationEnds, OperationEndsBlind, Deliver, Discard
      <2>2. \A d \in Callers : pc'[d] = "removing" => StateOf(d)' \notin verified'[KeyOf[d]]
            BY <1>2, <1>3, <1>7 DEF FilesInv
      <2>3. \A d \in Callers : holds'[d] # None => holds'[d] \in verified'[KeyOf[d]]
            BY <1>1, <1>7, <2>1 DEF FilesInv
      <2> QED BY <1>7, <2>2, <2>3 DEF FilesInv
<1>8. \/ Checkout(c) \/ PruneOnClose(c) \/ BeginRebuild(c) \/ RemoveTree(c) \/ CheckoutFails(c)
      \/ UNCHANGED checkoutVars
      BY DEF Begin, Refuse, CallNext, CloseSnapshot, Join, JoinOrStart, LeaveFlight, Refreshed,
             Fails, Lock, TryLock, RunCheckout, CheckoutUnproven, OperationEnds, OperationEndsBlind,
             Deliver, Discard
<1> QED BY <1>4, <1>5, <1>6, <1>7, <1>8

\* Refreshes and evictions leave pinned checkouts alone: an evicted entry has
\* no reader.
LEMMA OtherFiles ==
    ASSUME TypeOK, LockInv, FilesInv, UsersInv,
           \/ \E k \in Keys : FlightNext(k) \/ TokenExpires(k) \/ Evict(k) \/ RemoteAdvances(k)
           \/ CloseManager \/ CloseReturns \/ Restart \/ UNCHANGED vars
    PROVE  FilesInv'
<1>1. CASE UNCHANGED <<checkoutVars, holds, pc, repo>>
      BY <1>1 DEF FilesInv, StateOf
<1>2. ASSUME NEW k \in Keys, FlightNext(k) PROVE FilesInv'
      <2>1. UNCHANGED <<holds, pc>>
            BY <1>2 DEF FlightNext, FlightLocks, FlightRuns, FlightFetches, FlightSucceeds, FlightFails,
                        FlightUnproven, FlightDone, FlightCleared
      <2>2. CASE FlightRuns(k) \/ FlightFetches(k)
            <3>1. /\ UNCHANGED checkoutVars /\ flight[k] \in Updating
                  /\ \A j \in Keys \ {k} : repo'[j] = repo[j]
                  BY <2>2 DEF FlightRuns, FlightFetches, Updating, TypeOK, FileType
            <3>2. \A c \in Callers : pc[c] = "removing" => KeyOf[c] \in Keys \ {k}
                  BY <3>1 DEF LockInv, Locking
            <3> QED BY <2>1, <3>1, <3>2 DEF FilesInv, StateOf
      <2>3. CASE ~ FlightRuns(k) /\ ~ FlightFetches(k)
            <3>1. (Prune(k) \/ UNCHANGED checkoutVars) /\ UNCHANGED repo
                  BY <1>2, <2>3 DEF FlightNext, FlightLocks, FlightSucceeds, FlightFails, FlightUnproven
            <3> QED BY <1>1, <2>1, <3>1, PruneKeeps
      <2> QED BY <2>2, <2>3
<1>3. ASSUME NEW k \in Keys, Evict(k) PROVE FilesInv'
      <2>1. /\ \A j \in Keys \ {k} : verified'[j] = verified[j] /\ dir'[j] = dir[j] /\ repo'[j] = repo[j]
            /\ verified'[k] = {} \/ k \in Unremovable
            /\ UNCHANGED <<holds, pc>>
            BY <1>3 DEF Evict, TypeOK, CheckoutType, FileType
      <2>2. \A c \in Callers : KeyOf[c] = k => holds[c] = None /\ pc[c] # "removing"
            BY <1>3, IdleEntry DEF Evict, Users, InProgress
      <2>3. \A j \in Keys \ Unremovable : \A x \in verified'[j] : dir'[j][x] = "whole"
            BY <2>1 DEF FilesInv
      <2>4. \A c \in Callers : holds'[c] # None => holds'[c] \in verified'[KeyOf[c]]
            BY <2>1, <2>2 DEF FilesInv
      <2>5. \A c \in Callers : pc'[c] = "removing" => StateOf(c)' \notin verified'[KeyOf[c]]
            BY <2>1, <2>2 DEF FilesInv, StateOf
      <2> QED BY <2>3, <2>4, <2>5 DEF FilesInv
<1>4. CASE Restart
      BY <1>4 DEF Restart, FilesInv
<1> QED BY <1>1, <1>2, <1>3, <1>4 DEF TokenExpires, RemoteAdvances, CloseManager, CloseReturns

-----------------------------------------------------------------------------
(* The invariant and what it says                                          *)

\* Unproven writers close the manager; the lock of their repository was theirs,
\* so no refresh of it runs and no call has its last look behind it.
QuarantineInv ==
    /\ unproven => closed
    /\ \A k \in survivors : /\ flight[k] \notin {"running", "fetched"}
                            /\ \A c \in Users(k) : ~ Committed(c)

CacheInv ==
    /\ TypeOK /\ LockInv /\ RefsInv /\ UsersInv /\ FilesInv
    /\ QuarantineInv /\ CancelHarmsNobody

\* A refresh is cancelled by its last waiter, and nobody joins it afterwards.
LEMMA CancelStep == TypeOK /\ RefsInv /\ CancelHarmsNobody /\ [Next]_vars => CancelHarmsNobody'
<1> SUFFICES ASSUME TypeOK, RefsInv, CancelHarmsNobody, [Next]_vars PROVE CancelHarmsNobody'
    OBVIOUS
<1> USE DEF TypeOK, CallType, EntryType
<1>1. ASSUME NEW c \in Callers, Join(c) PROVE CancelHarmsNobody'
      <2>1. KeyOf[c] \notin cancelled /\ cancelled' = cancelled /\ UNCHANGED answer
            BY <1>1 DEF Join, JoinOrStart
      <2>2. \A d \in Callers \ {c} : pc'[d] = pc[d]
            BY <1>1 DEF Join, JoinOrStart
      <2> QED BY <2>1, <2>2 DEF CancelHarmsNobody, Waiters, Users
<1>2. ASSUME NEW c \in Callers, LeaveFlight(c) PROVE CancelHarmsNobody'
      <2>1. /\ cancelled' = IF Waiters(KeyOf[c]) = {c} THEN cancelled \cup {KeyOf[c]} ELSE cancelled
            /\ pc'[c] = "done" /\ \A d \in Callers \ {c} : pc'[d] = pc[d] /\ answer'[d] = answer[d]
            BY <1>2 DEF LeaveFlight, Return
      <2>2. \A k \in Keys : Waiters(k)' \subseteq Waiters(k) \ {c}
            BY <2>1 DEF Waiters, Users
      <2> QED BY <2>1, <2>2 DEF CancelHarmsNobody
<1>3. ASSUME NEW c \in Callers, ~ Join(c), ~ LeaveFlight(c),
             Begin(c) \/ Refuse(c) \/ CallNext(c) \/ CloseSnapshot(c) \/ PruneOnClose(c)
      PROVE  CancelHarmsNobody'
      <2>1. /\ cancelled' = cancelled /\ pc'[c] # "await"
            /\ \A d \in Callers \ {c} : pc'[d] = pc[d] /\ answer'[d] = answer[d]
            <3>1. CASE \/ Begin(c) \/ Refuse(c) \/ Refreshed(c) \/ Lock(c) \/ RunCheckout(c)
                       \/ BeginRebuild(c) \/ Checkout(c) \/ CheckoutUnproven(c) \/ OperationEnds(c)
                       \/ PruneOnClose(c)
                  BY <3>1 DEF Begin, Refuse, Refreshed, Lock, TryLock, RunCheckout, BeginRebuild,
                              Checkout, Pin, CheckoutUnproven, OperationEnds, OperationEndsBlind,
                              PruneOnClose
            <3>2. CASE \/ Fails(c) \/ RemoveTree(c) \/ CheckoutFails(c) \/ Deliver(c) \/ Discard(c)
                       \/ CloseSnapshot(c)
                  BY <3>2 DEF Fails, RemoveTree, CheckoutFails, Deliver, Discard, CloseSnapshot, Return
            <3> QED BY <1>3, <3>1, <3>2 DEF CallNext
      <2>2. \A k \in Keys : Waiters(k)' \subseteq Waiters(k)
            BY <2>1 DEF Waiters, Users
      <2> QED BY <2>1, <2>2 DEF CancelHarmsNobody
<1>4. ASSUME NEW k \in Keys, FlightNext(k) PROVE CancelHarmsNobody'
      <2>1. UNCHANGED pc
            BY <1>4 DEF FlightNext, FlightLocks, FlightRuns, FlightFetches, FlightSucceeds, FlightFails,
                        FlightUnproven, FlightDone, FlightCleared
      <2>2. /\ cancelled' \subseteq cancelled
            /\ \A c \in Callers : answer'[c] = "none" => answer[c] = "none"
            BY <1>4 DEF FlightNext, FlightLocks, FlightRuns, FlightFetches, FlightSucceeds, FlightFails,
                        FlightUnproven, FlightDone, FlightCleared
      <2>3. \A j \in Keys : Waiters(j)' \subseteq Waiters(j)
            BY <2>1, <2>2 DEF Waiters, Users
      <2> QED BY <2>2, <2>3 DEF CancelHarmsNobody
<1>5. CASE UNCHANGED <<pc, answer, cancelled>>
      BY <1>5 DEF CancelHarmsNobody, Waiters, Users
<1>6. CASE Restart
      BY <1>6 DEF Restart, CancelHarmsNobody
<1> QED BY <1>1, <1>2, <1>3, <1>4, <1>5, <1>6
        DEF Next, CallNext, TokenExpires, Evict, RemoteAdvances, CloseManager, CloseReturns

\* Without a new survivor, what was committed or runs was so before: a call
\* commits itself, and a refresh runs, only while all writers are proven.
LEMMA QuarantineKept ==
    ASSUME QuarantineInv,
           closed => closed', survivors' = survivors,
           \A c \in Callers : Committed(c)' => Committed(c) \/ ~ unproven,
           \A k \in Keys : flight'[k] \in {"running", "fetched"} =>
                            flight[k] \in {"running", "fetched"} \/ ~ unproven,
           survivors \subseteq Keys
    PROVE  QuarantineInv'
BY DEF QuarantineInv, unproven, Users

\* A surviving Git process is that of the call or refresh that has the lock.
LEMMA QuarantineStarts ==
    ASSUME TypeOK, LockInv, QuarantineInv, NEW k \in Keys, Poison(k),
           \/ \E c \in Users(k) : pc[c] = "checkout" /\ UNCHANGED <<pc, flight>>
           \/ flight[k] = "running" /\ flight' = [flight EXCEPT ![k] = "none"] /\ UNCHANGED pc
    PROVE  QuarantineInv'
<1>1. closed' /\ survivors' = survivors \cup {k} /\ survivors \subseteq Keys
      BY DEF Poison, TypeOK, WorldType
<1>2. UNCHANGED pc /\ \A j \in Keys : flight'[j] \in {"running", "fetched"} => flight'[j] = flight[j]
      BY DEF TypeOK, EntryType
<1>3. flight'[k] \notin {"running", "fetched"}
      <2>1. ASSUME NEW c \in Users(k), pc[c] = "checkout" PROVE flight[k] \notin Updating
            BY <2>1 DEF LockInv, Locking, Users
      <2> QED BY <2>1 DEF Updating, TypeOK, EntryType
<1>4. \A c \in Users(k) : ~ Committed(c)
      <2>1. ASSUME NEW c \in Users(k), pc[c] = "checkout", NEW d \in Users(k) PROVE ~ Committed(d)
            BY <2>1 DEF LockInv, Locking, Users, Committed
      <2>2. ASSUME flight[k] = "running", NEW d \in Users(k) PROVE ~ Committed(d)
            BY <2>2 DEF LockInv, Locking, Updating, Users, Committed
      <2> QED BY <2>1, <2>2
<1>5. \A j \in survivors' : /\ flight'[j] \notin {"running", "fetched"}
                            /\ \A c \in Users(j) : ~ Committed(c)
      BY <1>1, <1>2, <1>3, <1>4 DEF QuarantineInv
<1> QED BY <1>1, <1>2, <1>5 DEF QuarantineInv, Users, Committed

\* Every step keeps the quarantine.
LEMMA QuarantineStep == TypeOK /\ LockInv /\ QuarantineInv /\ [Next]_vars => QuarantineInv'
<1> SUFFICES ASSUME TypeOK, LockInv, QuarantineInv, [Next]_vars PROVE QuarantineInv'
    OBVIOUS
<1>1. survivors \subseteq Keys
      BY DEF TypeOK, WorldType
<1>2. ASSUME NEW c \in Callers,
             Begin(c) \/ Refuse(c) \/ CallNext(c) \/ CloseSnapshot(c) \/ PruneOnClose(c)
      PROVE  QuarantineInv'
      <2>1. CASE CheckoutUnproven(c)
            <3>1. KeyOf[c] \in Keys /\ c \in Users(KeyOf[c])
                  BY DEF Users
            <3> QED BY <2>1, <3>1, QuarantineStarts DEF CheckoutUnproven
      <2>2. CASE ~ CheckoutUnproven(c)
            <3>1. UNCHANGED <<closed, survivors>>
                  BY <1>2, <2>2 DEF Begin, Refuse, CallNext, CloseSnapshot, PruneOnClose, Join, JoinOrStart,
                     LeaveFlight, Refreshed, Fails, Lock, TryLock, RunCheckout, BeginRebuild, RemoveTree,
                     Checkout, Pin, CheckoutFails, OperationEnds, OperationEndsBlind, Deliver, Discard
            <3>2. \A k \in Keys : flight'[k] \in {"running", "fetched"} => flight'[k] = flight[k]
                  <4>1. UNCHANGED flight \/ flight' = [flight EXCEPT ![KeyOf[c]] = "queued"]
                        BY <1>2 DEF Begin, Refuse, CallNext, CloseSnapshot, PruneOnClose, Join, JoinOrStart,
                           LeaveFlight, Refreshed, Fails, Lock, TryLock, RunCheckout, BeginRebuild,
                           RemoveTree, Checkout, Pin, CheckoutFails, CheckoutUnproven, OperationEnds,
                           OperationEndsBlind, Deliver, Discard
                  <4> QED BY <4>1 DEF TypeOK, EntryType
            <3>3. \/ ~ unproven
                  \/ \E x \in Points \ {"removing", "publishing"} : pc' = [pc EXCEPT ![c] = x]
                  <4>1. CASE BeginRebuild(c) \/ OperationEnds(c)
                        BY <4>1 DEF BeginRebuild, OperationEnds
                  <4>2. CASE ~ BeginRebuild(c) /\ ~ OperationEnds(c)
                        BY <1>2, <2>2, <4>2 DEF Begin, Refuse, CallNext, CloseSnapshot, PruneOnClose, Join,
                           JoinOrStart, LeaveFlight, Refreshed, Fails, Lock, TryLock, RunCheckout,
                           RemoveTree, Checkout, Pin, CheckoutFails, Deliver, Discard, Return, Points
                  <4> QED BY <4>1, <4>2
            <3>4. \A d \in Callers : Committed(d)' => Committed(d) \/ ~ unproven
                  BY <3>3 DEF Committed, TypeOK, CallType
            <3> QED BY <1>1, <3>1, <3>2, <3>4, QuarantineKept
      <2> QED BY <2>1, <2>2
<1>3. ASSUME NEW k \in Keys, FlightNext(k) PROVE QuarantineInv'
      <2>1. UNCHANGED pc
            BY <1>3 DEF FlightNext, FlightLocks, FlightRuns, FlightFetches, FlightSucceeds, FlightFails,
                        FlightUnproven, FlightDone, FlightCleared
      <2>2. CASE FlightUnproven(k)
            BY <2>1, <2>2, QuarantineStarts DEF FlightUnproven, FlightDone, FlightCleared
      <2>3. CASE ~ FlightUnproven(k)
            <3>1. UNCHANGED <<closed, survivors>>
                  BY <1>3, <2>3 DEF FlightNext, FlightLocks, FlightRuns, FlightFetches, FlightSucceeds,
                     FlightFails
            <3>2. \/ (FlightRuns(k) \/ FlightFetches(k)) /\ ~ unproven
                  \/ \E x \in {"locked", "none"} : flight' = [flight EXCEPT ![k] = x]
                  BY <1>3, <2>3 DEF FlightNext, FlightLocks, FlightRuns, FlightFetches, FlightSucceeds,
                     FlightFails, FlightDone, FlightCleared
            <3>3. \A j \in Keys : flight'[j] \in {"running", "fetched"} =>
                                   flight[j] \in {"running", "fetched"} \/ ~ unproven
                  BY <3>2 DEF TypeOK, EntryType
            <3>4. \A d \in Callers : Committed(d)' => Committed(d)
                  BY <2>1 DEF Committed
            <3> QED BY <1>1, <3>1, <3>3, <3>4, QuarantineKept
      <2> QED BY <2>2, <2>3
<1>4. CASE \/ \E k \in Keys : TokenExpires(k) \/ Evict(k) \/ RemoteAdvances(k)
           \/ CloseManager \/ CloseReturns \/ UNCHANGED vars
      <2>1. UNCHANGED <<pc, flight, survivors>> /\ (closed => closed')
            BY <1>4 DEF TokenExpires, Evict, RemoteAdvances, CloseManager, CloseReturns
      <2>2. \A d \in Callers : Committed(d)' => Committed(d)
            BY <2>1 DEF Committed
      <2> QED BY <1>1, <2>1, <2>2, QuarantineKept
<1>5. CASE Restart
      BY <1>5 DEF Restart, QuarantineInv, unproven
<1> QED BY <1>2, <1>3, <1>4, <1>5 DEF Next

\* In a new process there are no calls, locks or verified checkouts.
LEMMA CacheInit == Init => CacheInv
<1> SUFFICES ASSUME Init PROVE CacheInv
    OBVIOUS
<1>1. /\ \A c \in Callers : /\ pc[c] \in {"idle", "done"} /\ answer[c] = "none" /\ holds[c] = None
      /\ \A k \in Keys : /\ active[k] = 0 /\ mutex[k] = None /\ flight[k] = "none" /\ verified[k] = {}
      /\ cancelled = {} /\ valid = {} /\ survivors = {}
      BY DEF Init
<1>2. LockInv
      BY <1>1 DEF LockInv, Locking, Reading, Updating
<1>3. RefsInv
      BY <1>1 DEF RefsInv, Waiting, Vouched, Locking, Updating
<1>4. UsersInv
      <2>1. ASSUME NEW k \in Keys
            PROVE  /\ IsFiniteSet(Busy(k)) /\ IsFiniteSet(Readers(k))
                   /\ active[k] = Cardinality(Busy(k)) + Cardinality(Readers(k)) + Flying(k)
            <3>1. Busy(k) = {} /\ Readers(k) = {}
                  BY <1>1 DEF Busy, Readers, Users, InProgress
            <3>2. /\ IsFiniteSet(Busy(k)) /\ IsFiniteSet(Readers(k))
                  /\ Cardinality(Busy(k)) = 0 /\ Cardinality(Readers(k)) = 0
                  BY <3>1, FS_EmptySet
            <3>3. active[k] = 0 /\ Flying(k) = 0
                  BY <1>1 DEF Flying
            <3> QED BY <3>2, <3>3
      <2> QED BY <2>1 DEF UsersInv
<1>5. FilesInv /\ QuarantineInv /\ CancelHarmsNobody
      BY <1>1 DEF FilesInv, QuarantineInv, CancelHarmsNobody, unproven
<1> QED BY <1>2, <1>3, <1>4, <1>5, TypeInit DEF CacheInv

\* Every step keeps all of it.
LEMMA CacheStep == CacheInv /\ [Next]_vars => CacheInv'
<1> SUFFICES ASSUME CacheInv, [Next]_vars PROVE CacheInv'
    OBVIOUS
<1> USE DEF CacheInv
<1>1. CancelHarmsNobody' /\ QuarantineInv'
      BY CancelStep, QuarantineStep
<1>2. ASSUME NEW c \in Callers,
             Begin(c) \/ Refuse(c) \/ CallNext(c) \/ CloseSnapshot(c) \/ PruneOnClose(c)
      PROVE  TypeOK' /\ LockInv' /\ RefsInv' /\ UsersInv' /\ FilesInv'
      <2>1. StateOf(c) \in States \/ pc[c] \notin {"checkout", "removing"}
            BY CheckoutReads DEF Locking
      <2>2. TypeOK'
            BY <1>2, <2>1, CallStepCalls, CallStepEntries, CallStepFiles, CallStepCheckouts DEF TypeOK
      <2> QED BY <1>2, <2>1, <2>2, CallLocks, CallRefs, CallUsers, CallFiles
<1>3. ASSUME NEW k \in Keys, FlightNext(k)
      PROVE  TypeOK' /\ LockInv' /\ RefsInv' /\ UsersInv' /\ FilesInv'
      BY <1>3, FlightStep, OtherLocks, FlightRefs, OtherUsers, OtherFiles
<1>4. ASSUME \/ \E k \in Keys : TokenExpires(k) \/ Evict(k) \/ RemoteAdvances(k)
             \/ CloseManager \/ CloseReturns \/ Restart \/ UNCHANGED vars
      PROVE  TypeOK' /\ LockInv' /\ RefsInv' /\ UsersInv' /\ FilesInv'
      <2>1. ASSUME UNCHANGED vars PROVE TypeOK'
            BY <2>1 DEF TypeOK, CallType, EntryType, CheckoutType, FileType, WorldType
      <2>2. TypeOK'
            BY <1>4, <2>1, FlightStep, ManagerStep
      <2> QED BY <1>4, <2>2, OtherLocks, OtherRefs, OtherUsers, OtherFiles
<1> QED BY <1>1, <1>2, <1>3, <1>4 DEF Next

\* The inductive invariant of the cache: its locks, refs, counts and files.
THEOREM CacheInvariant == Spec => []CacheInv
BY CacheInit, CacheStep, PTL DEF Spec

\* entry.active is the number of calls, readers and refreshes of the entry, on
\* every path (snapshot, awaitRefresh, Snapshot.Close): eviction meets no user.
THEOREM ActiveSafe == Spec => []ActiveIsUsers
<1>1. CacheInv => ActiveIsUsers
      BY DEF CacheInv, UsersInv, ActiveIsUsers, Busy, Readers, Flying
<1> QED BY <1>1, CacheInvariant, PTL

\* A checkout reads refs of a refresh that began when the call did, or later
\* (snapshot, refresh: entry.valid under entry.mu).
THEOREM CheckoutSafe == Spec => []CheckoutIsAuthorized
<1>1. ASSUME CacheInv PROVE CheckoutIsAuthorized
      BY <1>1, CheckoutReads DEF CacheInv, CheckoutIsAuthorized, Locking
<1> QED BY <1>1, CacheInvariant, PTL

\* A cancelled refresh has nobody waiting for it (awaitRefresh).
THEOREM CancelSafe == Spec => []CancelHarmsNobody
<1>1. CacheInv => CancelHarmsNobody
      BY DEF CacheInv
<1> QED BY <1>1, CacheInvariant, PTL

\* Where os.RemoveAll does not fail halfway, what a reader has pinned stays
\* complete whatever is pruned, rebuilt, evicted or restarted meanwhile
\* (checkout, pruneCheckouts, reclaimSpaceLocked).
THEOREM SnapshotSafe == ASSUME Unremovable = {} PROVE Spec => []SnapshotIsWhole
<1>1. CacheInv => SnapshotIsWhole
      BY DEF CacheInv, FilesInv, SnapshotIsWhole
<1> QED BY <1>1, CacheInvariant, PTL

\* What a step keeps of a repository whose Git process survived, and of the cache.
RepositoryKept(k) ==
    /\ repo'[k] = repo[k] /\ metadata'[k] = metadata[k]
    /\ \A s \in States : dir[k][s] # "none" => dir'[k][s] = dir[k][s]
    /\ \A c \in Users(k) : pc'[c] = "held" => pc[c] = "held"
CacheKept ==
    /\ \A k \in Keys : flight'[k] = "running" => flight[k] = "running"
    /\ \A k \in Keys, s \in States : dir[k][s] \notin {"none", dir'[k][s]} =>
          \E c \in Users(k) : pc[c] = "removing"
    /\ \A c \in Callers : Committed(c)' => Committed(c)
    /\ \A c \in Callers : pc'[c] = "held" => pc[c] = "held" \/ Committed(c)

\* A call changes a directory only if it looked for unproven writers before.
LEMMA CallTrees ==
    ASSUME TypeOK, unproven, NEW c \in Callers,
           StateOf(c) \in States \/ pc[c] \notin {"checkout", "removing"},
           Begin(c) \/ Refuse(c) \/ CallNext(c) \/ CloseSnapshot(c) \/ PruneOnClose(c),
           NEW k \in Keys, NEW s \in States, dir[k][s] \notin {"none", dir'[k][s]}
    PROVE  k = KeyOf[c] /\ pc[c] = "removing"
<1> dir \in [Keys -> Trees] /\ CheckoutType /\ KeyOf[c] \in Keys
    BY DEF TypeOK, CheckoutType
<1>1. CASE Checkout(c)
      <2>1. StateOf(c) \in States
            BY <1>1 DEF Checkout, Pin
      <2>2. \A x \in States : dir[KeyOf[c]][x] # "none" => dir'[KeyOf[c]][x] = dir[KeyOf[c]][x]
            BY <1>1, <2>1, CheckoutBuilds
      <2>3. \A j \in Keys \ {KeyOf[c]} : dir'[j] = dir[j]
            BY <1>1, <2>1, CheckoutBuilds
      <2> QED BY <2>2, <2>3
<1>2. CASE PruneOnClose(c)
      <2>1. Prune(KeyOf[c]) \/ UNCHANGED dir
            BY <1>2 DEF PruneOnClose
      <2>2. Prune(KeyOf[c]) => /\ \A x \in States : dir'[KeyOf[c]][x] = dir[KeyOf[c]][x]
                               /\ \A j \in Keys \ {KeyOf[c]} : dir'[j] = dir[j]
            BY PruneType
      <2> QED BY <2>1, <2>2
<1>3. CASE RemoveTree(c) \/ CheckoutFails(c)
      <2>1. \/ UNCHANGED dir
            \/ /\ \E x \in {"none", "partial"} : dir' = [dir EXCEPT ![KeyOf[c]][StateOf(c)] = x]
               /\ pc[c] = "removing" \/ dir[KeyOf[c]][StateOf(c)] = "none"
            BY <1>3 DEF RemoveTree, CheckoutFails
      <2> QED BY <2>1 DEF Trees
<1>4. \/ Checkout(c) \/ PruneOnClose(c) \/ RemoveTree(c) \/ CheckoutFails(c) \/ UNCHANGED dir
      BY DEF Begin, Refuse, CallNext, CloseSnapshot, Join, JoinOrStart, LeaveFlight, Refreshed,
             Fails, Lock, TryLock, RunCheckout, BeginRebuild, CheckoutUnproven, OperationEnds,
             OperationEndsBlind, Deliver, Discard
<1> QED BY <1>1, <1>2, <1>3, <1>4

\* Calls in quarantine.
LEMMA QuarantinedCall ==
    ASSUME CacheInv, unproven, NEW c \in Callers,
           Begin(c) \/ Refuse(c) \/ CallNext(c) \/ CloseSnapshot(c) \/ PruneOnClose(c)
    PROVE  CacheKept /\ \A k \in survivors : RepositoryKept(k)
<1> USE DEF CacheInv
<1>1. StateOf(c) \in States \/ pc[c] \notin {"checkout", "removing"}
      BY CheckoutReads DEF Locking
<1>2. PICK x \in Points : /\ pc' = [pc EXCEPT ![c] = x]
                          /\ x = "held" => pc[c] = "publishing" \/ pc[c] = x
                          /\ x \in {"removing", "publishing"} => pc[c] = x
      <2>1. pc \in [Callers -> Points]
            BY DEF TypeOK, CallType
      <2> QED BY <2>1 DEF Begin, Refuse, CallNext, CloseSnapshot, PruneOnClose, Join, JoinOrStart,
                 LeaveFlight, Refreshed, Fails, Lock, TryLock, RunCheckout, BeginRebuild, RemoveTree,
                 Checkout, Pin, CheckoutFails, CheckoutUnproven, OperationEnds, OperationEndsBlind,
                 Deliver, Discard, Return, Points
<1>3. /\ \A d \in Callers : Committed(d)' => Committed(d)
      /\ \A d \in Callers : pc'[d] = "held" => pc[d] = "held" \/ Committed(d)
      <2>1. pc \in [Callers -> Points]
            BY DEF TypeOK, CallType
      <2>2. pc'[c] = x /\ \A d \in Callers \ {c} : pc'[d] = pc[d]
            BY <1>2, <2>1
      <2>3. /\ pc'[c] \in {"removing", "publishing"} => pc[c] \in {"removing", "publishing"}
            /\ pc'[c] = "held" => pc[c] \in {"publishing", "held"}
            BY <1>2, <2>2
      <2> QED BY <2>2, <2>3 DEF Committed
<1>4. UNCHANGED repo /\ \A k \in Keys : flight'[k] = "running" => flight[k] = "running"
      <2>1. UNCHANGED repo /\ (UNCHANGED flight \/ flight' = [flight EXCEPT ![KeyOf[c]] = "queued"])
            BY DEF Begin, Refuse, CallNext, CloseSnapshot, PruneOnClose, Join, JoinOrStart,
               LeaveFlight, Refreshed, Fails, Lock, TryLock, RunCheckout, BeginRebuild, RemoveTree,
               Checkout, Pin, CheckoutFails, CheckoutUnproven, OperationEnds, OperationEndsBlind,
               Deliver, Discard
      <2> QED BY <2>1 DEF TypeOK, EntryType
<1>5. \/ UNCHANGED metadata
      \/ Committed(c) /\ \A k \in Keys \ {KeyOf[c]} : metadata'[k] = metadata[k]
      BY DEF Begin, Refuse, CallNext, CloseSnapshot, PruneOnClose, Join, JoinOrStart,
             LeaveFlight, Refreshed, Fails, Lock, TryLock, RunCheckout, BeginRebuild, RemoveTree,
             Checkout, Pin, CheckoutFails, CheckoutUnproven, OperationEnds, OperationEndsBlind,
             Deliver, Discard, Committed, TypeOK, FileType
<1>6. c \in Users(KeyOf[c]) /\ survivors \subseteq Keys /\ \A k \in Keys : Users(k) \subseteq Callers
      BY DEF Users, TypeOK, WorldType
<1>7. \A k \in survivors : \A d \in Users(k) : ~ Committed(d)
      BY DEF QuarantineInv
<1>8. \A k \in Keys, s \in States : dir[k][s] \notin {"none", dir'[k][s]} =>
         k = KeyOf[c] /\ pc[c] = "removing"
      BY <1>1, CallTrees
<1>9. CacheKept
      BY <1>3, <1>4, <1>6, <1>8 DEF CacheKept
<1>10. ASSUME NEW k \in survivors PROVE RepositoryKept(k)
       <2>1. KeyOf[c] = k => ~ Committed(c)
             BY <1>6, <1>7
       <2>2. metadata'[k] = metadata[k]
             BY <1>5, <1>6, <2>1
       <2>3. \A s \in States : dir[k][s] # "none" => dir'[k][s] = dir[k][s]
             BY <1>6, <1>8, <2>1 DEF Committed
       <2>4. \A d \in Users(k) : pc'[d] = "held" => pc[d] = "held"
             BY <1>3, <1>6, <1>7
       <2> QED BY <1>4, <2>2, <2>3, <2>4 DEF RepositoryKept
<1> QED BY <1>9, <1>10

\* Refreshes and the manager in quarantine.
LEMMA QuarantinedRest ==
    ASSUME CacheInv, unproven,
           \/ \E k \in Keys : FlightNext(k) \/ TokenExpires(k) \/ Evict(k) \/ RemoteAdvances(k)
           \/ CloseManager \/ CloseReturns \/ UNCHANGED vars
    PROVE  CacheKept /\ \A k \in survivors : RepositoryKept(k)
<1> USE DEF CacheInv
<1>1. survivors \subseteq Keys /\ CheckoutType /\ flight \in [Keys -> Progress]
      BY DEF TypeOK, WorldType, EntryType
<1>2. UNCHANGED <<pc, repo>>
      BY DEF FlightNext, FlightLocks, FlightRuns, FlightFetches, FlightSucceeds, FlightFails,
             FlightUnproven, FlightDone, FlightCleared, TokenExpires, Evict, RemoteAdvances,
             CloseManager, CloseReturns
<1>3. ASSUME NEW k \in Keys, FlightNext(k)
      PROVE  /\ Prune(k) \/ UNCHANGED dir
             /\ flight' = [flight EXCEPT ![k] = "locked"] \/ flight' = [flight EXCEPT ![k] = "none"]
             /\ \/ UNCHANGED metadata
                \/ flight[k] = "running" /\ \A j \in Keys \ {k} : metadata'[j] = metadata[j]
      BY <1>3 DEF FlightNext, FlightLocks, FlightRuns, FlightFetches, FlightSucceeds, FlightFails,
                  FlightUnproven, FlightDone, FlightCleared, TypeOK, FileType
<1>4. \/ \E k \in Keys : FlightNext(k)
      \/ UNCHANGED <<dir, flight, metadata>>
      BY DEF TokenExpires, Evict, RemoteAdvances, CloseManager, CloseReturns
<1>5. \A k \in Keys, s \in States : dir'[k][s] = dir[k][s]
      <2>1. ASSUME NEW j \in Keys, Prune(j), NEW k \in Keys, NEW s \in States
            PROVE  dir'[k][s] = dir[k][s]
            <3>1. \A x \in States : dir'[j][x] = dir[j][x]
                  BY <1>1, <2>1, PruneType
            <3>2. \A i \in Keys \ {j} : dir'[i] = dir[i]
                  BY <1>1, <2>1, PruneType
            <3> QED BY <3>1, <3>2
      <2> QED BY <1>3, <1>4, <2>1
<1>6. \A k \in Keys : flight'[k] = "running" => flight[k] = "running"
      BY <1>1, <1>3, <1>4
<1>7. CacheKept
      BY <1>2, <1>5, <1>6 DEF CacheKept, Committed
<1>8. \A k \in survivors : metadata'[k] = metadata[k]
      <2>1. \A k \in survivors : flight[k] # "running"
            BY DEF QuarantineInv
      <2> QED BY <1>1, <1>3, <1>4, <2>1
<1> QED BY <1>1, <1>2, <1>5, <1>7, <1>8 DEF RepositoryKept

\* Until the process is replaced, no file of a repository that a surviving Git
\* process may write is deleted, replaced or handed out, no refresh starts
\* anywhere, and elsewhere only what had asked for unproven writers before is
\* still removed or handed out (poison, operation, snapshot, removeTree).
THEOREM QuarantineSafe == Spec => QuarantineHolds
<1> DEFINE Held == /\ \A k \in survivors \cap survivors' : RepositoryKept(k)
                   /\ unproven /\ unproven' => CacheKept
<1>1. ASSUME CacheInv, [Next]_vars PROVE Held
      <2>1. CASE ~ unproven \/ ~ unproven'
            <3>1. survivors \cap survivors' = {}
                  BY <2>1 DEF unproven
            <3> QED BY <2>1, <3>1
      <2>2. CASE unproven /\ unproven'
            <3>1. ~ Restart
                  BY <2>2 DEF Restart, unproven
            <3> QED BY <1>1, <2>2, <3>1, QuarantinedCall, QuarantinedRest DEF Next
      <2> QED BY <2>1, <2>2
<1>2. CacheInv /\ [Next]_vars => [Held]_vars
      BY <1>1
<1>3. [][Held]_vars => QuarantineHolds
      BY DEF QuarantineHolds, RepositoryKept, CacheKept
<1> QED BY <1>2, <1>3, CacheInvariant, PTL DEF Spec
=============================================================================
