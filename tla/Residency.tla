------------------------------ MODULE Residency ------------------------------
(***************************************************************************)
(* How long an idle worker session stays resident (controller/             *)
(* session_reconcile, workspace/session_lifecycle, session_reservation,    *)
(* session_control).  The journal holds wall-clock times, which Go strips  *)
(* of their monotonic reading (Store.now is UTC), and the wall clock may   *)
(* be set at any moment.  The controller keeps a monotonic deadline in     *)
(* memory besides; reservations, completions and the signed protocol       *)
(* change the session between any two steps of a reconcile pass.           *)
(*                                                                         *)
(* One session.  A successor has another identifier and shares nothing.    *)
(***************************************************************************)
EXTENDS Naturals

CONSTANTS MaxWall,      \* bound: readings of the wall clock
          Timeouts,     \* values of MULTICA_CONVERSATION_IDLE_TIMEOUT
          MaxRevision   \* bound: revisions of the session

ASSUME ResidencyBounds ==
    /\ MaxWall \in Nat /\ MaxRevision \in Nat /\ MaxRevision >= 1
    /\ Timeouts # {} /\ Timeouts \subseteq Nat

VARIABLES session,  \* the journal's record of the session
          wall,     \* the wall clock
          timeout,  \* ConversationIdleTimeout of the running controller
          entry,    \* idleDeadlines[id]; left counts its monotonic time down
          pass,     \* the reconcile pass that holds the session's lock
          swept,    \* a pass begun since the last tick has ended
          hist      \* history, read by the properties only

vars == <<session, wall, timeout, entry, pass, swept, hist>>

Min(a, b) == IF a < b THEN a ELSE b
Minus(a, b) == IF a > b THEN a - b ELSE 0
\* Ages count as far as anything can still tell them apart.
Older(age) == Min(age + 1, MaxWall + 1)

NoEntry == [revision |-> 0, recorded |-> 0, left |-> 0]
NoPass == [at |-> "none", revision |-> 0, fresh |-> FALSE]
NoIdle == [age |-> 0, here |-> 0, set |-> FALSE, slip |-> 0, least |-> 0]

\* The first reservation created the session; its turn runs.
Init ==
    /\ wall = 0 /\ timeout \in Timeouts
    /\ session = [state |-> "busy", revision |-> 1, since |-> 0, deadline |-> 0,
                  observed |-> 0, retention |-> timeout, reason |-> "none"]
    /\ entry = NoEntry /\ pass = NoPass /\ swept = FALSE /\ hist = NoIdle

-----------------------------------------------------------------------------
(* The transactions of the journal.                                        *)

Stopped(s, reason) ==
    [s EXCEPT !.state = "draining", !.revision = @ + 1, !.reason = reason]
Cutoff(s, retention) == Min(s.deadline, s.since + retention)
Room == session.revision < MaxRevision

\* ReserveTurn for an idle session: reuse it, or drain it and wait.
ReserveTurn ==
    /\ session.state = "idle" /\ session.revision + 2 <= MaxRevision
    /\ \E compatible \in BOOLEAN :
         LET late == timeout = 0 \/ wall >= Cutoff(session, timeout) IN
         session' = IF wall < session.observed \/ late \/ ~compatible
                    THEN Stopped(session, IF late THEN "idle_expired" ELSE "conversation_replacement")
                    ELSE [session EXCEPT !.state = "busy", !.revision = @ + 1, !.retention = timeout,
                                         !.observed = wall, !.since = 0, !.deadline = 0]
    /\ hist' = NoIdle
    /\ UNCHANGED <<wall, timeout, entry, pass, swept>>

CompleteTurn ==
    /\ session.state = "busy" /\ session.revision + 2 <= MaxRevision
    /\ LET ended == [session EXCEPT !.revision = @ + 1] IN
       session' = IF session.retention > 0 /\ wall >= session.observed
                  THEN [ended EXCEPT !.state = "idle", !.since = wall, !.observed = wall,
                                     !.deadline = wall + session.retention]
                  ELSE Stopped(ended, "retention_disabled")
    /\ hist' = [NoIdle EXCEPT !.least = Min(session.retention, timeout)]
    /\ UNCHANGED <<wall, timeout, entry, pass, swept>>

\* RequestSessionStop: a cancelled turn, a failed Pod, a shutdown of the worker.
RequestSessionStop ==
    /\ session.state \in {"busy", "idle"} /\ Room
    /\ session' = Stopped(session, "worker_stopped")
    /\ hist' = NoIdle
    /\ UNCHANGED <<wall, timeout, entry, pass, swept>>

\* CreateSessionChallenge, when the worker opens an exchange.
CreateSessionChallenge ==
    /\ session.state = "idle" /\ wall >= session.observed /\ wall >= session.deadline /\ Room
    /\ session' = Stopped(session, "idle_expired")
    /\ hist' = NoIdle
    /\ UNCHANGED <<wall, timeout, entry, pass, swept>>

Expired(s) ==
    LET shorter == [s EXCEPT !.deadline = Cutoff(s, timeout)] IN
    IF wall < s.observed \/ wall >= shorter.deadline
    THEN Stopped(shorter, "idle_expired")
    ELSE [shorter EXCEPT !.observed = wall]
\* Mutant: any idle period will do.
DrainedAny(s, revision) ==
    IF s.state = "idle" THEN Stopped(s, "idle_expired") ELSE s
Drained(s, revision) ==
    IF s.revision = revision /\ s.state = "idle" THEN Stopped(s, "idle_expired") ELSE s

-----------------------------------------------------------------------------
(* reconcileSession: TryLock admits one pass; it reads the session and the *)
(* clock twice and calls two transactions.                                 *)

BeginPass ==
    /\ pass.at = "none"
    /\ pass' = [NoPass EXCEPT !.fresh = TRUE, !.at =
                  IF session.state # "idle" THEN "end"
                  ELSE IF Cutoff(session, timeout) # session.deadline
                          \/ wall < session.since \/ wall >= Cutoff(session, timeout)
                  THEN "expire" ELSE "timer"]
    /\ UNCHANGED <<session, wall, timeout, entry, swept, hist>>

ExpireSession ==
    /\ pass.at = "expire" /\ Room
    /\ session' = IF session.state = "idle" THEN Expired(session) ELSE session
    /\ pass' = [pass EXCEPT !.at = "timer"]
    /\ UNCHANGED <<wall, timeout, entry, swept, hist>>

\* Mutant: what is left is computed from the wall clock on every pass.
RememberedAnew(s) ==
    [revision |-> s.revision, recorded |-> s.deadline,
     left |-> Minus(s.deadline, wall)]

\* The deadline of this idle period: remembered, or now plus what the journal
\* leaves of it on the wall clock.
Remembered(s) ==
    IF entry.revision = s.revision /\ entry.recorded = s.deadline THEN entry
    ELSE [revision |-> s.revision, recorded |-> s.deadline,
          left |-> Minus(s.deadline, wall)]

SetTimer ==
    /\ pass.at = "timer"
    /\ IF session.state = "idle"
       THEN /\ entry' = Remembered(session)
            /\ pass' = [pass EXCEPT !.at = IF entry'.left = 0 THEN "drain" ELSE "end",
                                    !.revision = entry'.revision]
            /\ hist' = IF entry' = entry THEN hist
                       ELSE [hist EXCEPT !.slip = Minus(session.since, wall)]
       ELSE pass' = [pass EXCEPT !.at = "end"] /\ UNCHANGED <<entry, hist>>
    /\ UNCHANGED <<session, wall, timeout, swept>>

DrainIdleSession ==
    /\ pass.at = "drain" /\ Room
    /\ session' = Drained(session, pass.revision)
    /\ pass' = [pass EXCEPT !.at = "end"]
    /\ UNCHANGED <<wall, timeout, entry, swept, hist>>

EndPass ==
    /\ pass.at = "end"
    /\ entry' = IF session.state = "idle" THEN entry ELSE NoEntry
    /\ pass' = NoPass /\ swept' = (swept \/ pass.fresh)
    /\ UNCHANGED <<session, wall, timeout, hist>>

-----------------------------------------------------------------------------
(* The environment.                                                        *)

\* Time passes.  A tick is as long as the recovery sweep may take to pass over
\* the session once, so each holds one whole pass.
Tick ==
    /\ wall < MaxWall /\ swept
    /\ wall' = wall + 1 /\ swept' = FALSE
    /\ pass' = [pass EXCEPT !.fresh = FALSE]
    /\ entry' = [entry EXCEPT !.left = Minus(@, 1)]
    /\ hist' = IF session.state = "idle"
               THEN [hist EXCEPT !.age = Older(@), !.here = Older(@)] ELSE hist
    /\ UNCHANGED <<session, timeout>>

SetClock ==
    /\ wall' \in 0 .. MaxWall /\ wall' # wall
    /\ hist' = IF session.state = "idle" THEN [hist EXCEPT !.set = TRUE] ELSE hist
    /\ UNCHANGED <<session, timeout, entry, pass, swept>>

\* The controller restarts, perhaps with another timeout: its memory is gone.
Restart ==
    /\ timeout' \in Timeouts
    /\ entry' = NoEntry /\ pass' = NoPass /\ swept' = FALSE
    /\ hist' = [hist EXCEPT !.here = 0, !.slip = 0, !.least = Min(@, timeout')]
    /\ UNCHANGED <<session, wall>>

Next ==
    \/ ReserveTurn \/ CompleteTurn \/ RequestSessionStop \/ CreateSessionChallenge
    \/ BeginPass \/ ExpireSession \/ SetTimer \/ DrainIdleSession \/ EndPass
    \/ Tick \/ SetClock \/ Restart

Spec == Init /\ [][Next]_vars

-----------------------------------------------------------------------------
(* Properties.                                                             *)

Kept == Min(session.retention, timeout)

\* However the wall clock is set, an idle session outlives its retention in one
\* controller process by no more than a tick (session_reconcile.go:49-61), plus
\* what the clock was set back behind the beginning of the idle period between
\* the two readings of the pass that remembered the deadline.
IdleIsBounded ==
    session.state = "idle" => hist.here <= Kept + 1 + hist.slip

\* While the clock is not set, an idle period gets the retention it was granted,
\* no less and no more, though controllers restart and change the timeout
\* meanwhile: it is not ended as expired before the least retention it ever had
\* has passed, not even by a pass that found the deadline of an earlier period
\* (session_lifecycle.go:508, "A stale monotonic timer cannot stop a reservation
\* or a later turn"), and no turn is given the session afterwards, though no pass
\* came (session_reconcile.go:62, "enforces the persisted UTC cutoff").
RetentionIsKept ==
    [][session.state = "idle" /\ ~hist.set =>
         /\ session'.reason = "idle_expired" => hist.age >= hist.least
         /\ session'.state = "busy" => hist.age < Kept]_vars
=============================================================================
