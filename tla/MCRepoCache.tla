---------------------------- MODULE MCRepoCache ----------------------------
(* Small instances of RepoCache.                                           *)
EXTENDS RepoCache

CONSTANTS c1, c2, c3, k1, k2, r1, r2

OneEntry == [c \in {c1, c2, c3} |-> k1]
TwoEntries == [c \in {c1, c2, c3} |-> IF c = c3 THEN k2 ELSE k1]
TwoRefs == [c \in {c1, c2, c3} |-> IF c = c2 THEN r2 ELSE r1]

Made(calls) == pc = [c \in Callers |-> IF c \in calls THEN "idle" ELSE "done"]
Empty(k) == metadata[k] = Absent
RemoteAt(k, v) == remote[k] = v
EvictionsLeft(n) == \A k \in Keys : evictions[k] + n = MaxEvictions

\* What the run begins with: two calls for one repository whose refs move, which
\* is evicted and whose controller restarts; or all three calls for two
\* repositories that compete for one slot; or a call for each of two repositories
\* that run at once, of which one was recovered with its checkout whole, damaged
\* or gone.
MCInit ==
    /\ Init
    /\ \/ /\ Made({c1, c2}) /\ slots = 1 /\ restarts = 0
          /\ EvictionsLeft(1)
          /\ Empty(k1) /\ Empty(k2) /\ RemoteAt(k1, 1) /\ RemoteAt(k2, MaxVersion)
       \/ /\ Made({c1, c2, c3}) /\ slots = 1 /\ restarts = MaxRestarts
          /\ EvictionsLeft(0)
          /\ Empty(k1) /\ Empty(k2) /\ \A k \in Keys : RemoteAt(k, MaxVersion)
       \/ /\ Made({c1, c3}) /\ slots = 2 /\ restarts = MaxRestarts
          /\ EvictionsLeft(1)
          /\ Empty(k1) /\ metadata[k2] = <<MaxVersion, r1>>
          /\ \A k \in Keys : RemoteAt(k, MaxVersion)

MCSpec == MCInit /\ [][Next]_vars /\ Fairness
=============================================================================
