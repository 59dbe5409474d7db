--------------------------- MODULE ResidencyProofs ---------------------------
(***************************************************************************)
(* How long an idle session stays, for any timeouts, clock and number of   *)
(* restarts.  The bounds on clock and revisions are arbitrary.             *)
(***************************************************************************)
EXTENDS Residency, TLAPS

Reasons == {"none", "idle_expired", "conversation_replacement", "retention_disabled", "worker_stopped"}
SessionRecords ==
    [state : {"busy", "idle", "draining"}, revision : Nat, since : Nat, deadline : Nat,
     observed : Nat, retention : Nat, reason : Reasons]

TypeInv ==
    /\ session \in SessionRecords
    /\ wall \in 0 .. MaxWall /\ timeout \in Timeouts
    /\ entry \in [revision : Nat, recorded : Nat, left : Nat]
    /\ pass \in [at : {"none", "expire", "timer", "drain", "end"}, revision : Nat, fresh : BOOLEAN]
    /\ swept \in BOOLEAN
    /\ hist \in [age : Nat, here : Nat, set : BOOLEAN, slip : Nat, least : Nat]

\* Revisions of memory never run ahead of the journal, a stop has a reason, and an
\* idle session's deadline lies within its retention and only shrinks.
StateInv ==
    /\ session.revision >= 1
    /\ entry.revision <= session.revision /\ pass.revision <= session.revision
    /\ session.state # "draining" => session.reason = "none"
    /\ session.state = "idle" =>
          /\ session.since <= session.deadline
          /\ session.deadline <= session.since + session.retention
          /\ session.since <= session.observed
          /\ session.revision + 1 <= MaxRevision
          /\ entry.revision = session.revision => session.deadline <= entry.recorded

\* While the clock runs true it says how long the session is idle, and neither
\* the recorded nor a remembered deadline of this period falls short.
TrueClockInv ==
    session.state = "idle" /\ ~hist.set =>
        /\ wall = session.since + hist.age
        /\ session.observed <= wall
        /\ hist.least <= timeout /\ hist.least <= session.retention
        /\ session.since + hist.least <= session.deadline
        /\ entry.revision = session.revision => hist.least <= hist.age + entry.left
        /\ pass.at = "drain" /\ pass.revision = session.revision => hist.least <= hist.age

\* The deadline of this period is remembered, and no longer than the timeout.
Noted ==
    /\ entry.revision = session.revision /\ entry.recorded = session.deadline
    /\ session.deadline <= session.since + timeout

\* The monotonic bound: after the first tick a whole pass has noted the
\* deadline, and from then on each tick takes one from what is left.
BoundInv ==
    session.state = "idle" =>
        /\ ~Noted => hist.here <= 1 /\ (hist.here = 1 => ~swept)
        /\ Noted => hist.here + entry.left <= Kept + 1 + hist.slip
        /\ Noted /\ swept /\ entry.left = 0 => hist.here <= Kept + hist.slip
        /\ pass.fresh /\ hist.here > 0 =>
              /\ pass.at = "timer" => session.deadline <= session.since + timeout
              /\ pass.at = "drain" => Noted /\ pass.revision = session.revision
              /\ pass.at = "end" => Noted /\ entry.left > 0

ResidencyInv == TypeInv /\ StateInv /\ TrueClockInv /\ BoundInv

USE ResidencyBounds

\* A stopped session and a shortened deadline keep their types.
LEMMA StoppedType ==
    ASSUME NEW s \in SessionRecords, NEW reason \in Reasons
    PROVE  Stopped(s, reason) \in SessionRecords
  <1>1. s.revision + 1 \in Nat
    BY DEF SessionRecords
  <1>2. [s EXCEPT !.state = "draining", !.revision = s.revision + 1] \in SessionRecords
    BY <1>1 DEF SessionRecords
  <1>3. [[s EXCEPT !.state = "draining", !.revision = s.revision + 1] EXCEPT !.reason = reason]
           \in SessionRecords
    BY <1>2 DEF SessionRecords
  <1> QED BY <1>3 DEF Stopped, SessionRecords

\* An expired session is a session record again.
LEMMA ExpiredType ==
    ASSUME NEW s \in SessionRecords, timeout \in Timeouts, wall \in Nat
    PROVE  Expired(s) \in SessionRecords
  <1> DEFINE shorter == [s EXCEPT !.deadline = Cutoff(s, timeout)]
  <1>1. Cutoff(s, timeout) \in Nat
    BY DEF Cutoff, Min, SessionRecords
  <1>2. shorter \in SessionRecords
    BY <1>1 DEF SessionRecords
  <1>3. [shorter EXCEPT !.observed = wall] \in SessionRecords
    BY <1>2 DEF SessionRecords
  <1>4. Stopped(shorter, "idle_expired") \in SessionRecords
    BY <1>2, StoppedType DEF Reasons
  <1> HIDE DEF shorter
  <1> QED BY <1>3, <1>4, Zenon DEF Expired, shorter

\* What a pass remembers has its type.
LEMMA RememberedType ==
    ASSUME TypeInv
    PROVE  Remembered(session) \in [revision : Nat, recorded : Nat, left : Nat]
  BY DEF TypeInv, SessionRecords, Remembered, Minus

\* Every step keeps the types.
LEMMA TypeStep ==
    ASSUME TypeInv, [Next]_vars
    PROVE  TypeInv'
  <1>a. session \in SessionRecords /\ wall \in Nat /\ timeout \in Nat
    BY DEF TypeInv
  <1>1. CASE ReserveTurn
    <2>1. session' \in SessionRecords
      <3>1. Stopped(session, "idle_expired") \in SessionRecords
            /\ Stopped(session, "conversation_replacement") \in SessionRecords
        BY <1>a, StoppedType DEF Reasons
      <3>2. [session EXCEPT !.state = "busy", !.revision = @ + 1, !.retention = timeout,
                            !.observed = wall, !.since = 0, !.deadline = 0] \in SessionRecords
        <4>1. session.revision + 1 \in Nat
          BY <1>a DEF SessionRecords
        <4> QED BY <1>a, <4>1 DEF SessionRecords
      <3> QED BY <1>1, <3>1, <3>2, Zenon DEF ReserveTurn
    <2>2. hist' \in [age : Nat, here : Nat, set : BOOLEAN, slip : Nat, least : Nat]
      BY <1>1 DEF ReserveTurn, NoIdle, Min, TypeInv, SessionRecords
    <2>9. UNCHANGED <<wall, timeout, entry, pass, swept>>
      BY <1>1 DEF ReserveTurn
    <2> QED BY <2>1, <2>2, <2>9 DEF TypeInv
  <1>2. CASE CompleteTurn
    <2>1. session' \in SessionRecords
      <3> DEFINE ended == [session EXCEPT !.revision = @ + 1]
      <3>1. ended \in SessionRecords
        BY <1>a DEF SessionRecords
      <3>2. Stopped(ended, "retention_disabled") \in SessionRecords
        BY <3>1, StoppedType DEF Reasons
      <3>3. wall + session.retention \in Nat
        BY <1>a DEF SessionRecords
      <3>4. [ended EXCEPT !.state = "idle", !.since = wall, !.observed = wall,
                          !.deadline = wall + session.retention] \in SessionRecords
        BY <1>a, <3>1, <3>3 DEF SessionRecords
      <3> HIDE DEF ended
      <3> QED BY <1>2, <3>2, <3>4, Zenon DEF CompleteTurn, ended
    <2>2. hist' \in [age : Nat, here : Nat, set : BOOLEAN, slip : Nat, least : Nat]
      BY <1>2 DEF CompleteTurn, NoIdle, Min, TypeInv, SessionRecords
    <2>9. UNCHANGED <<wall, timeout, entry, pass, swept>>
      BY <1>2 DEF CompleteTurn
    <2> QED BY <2>1, <2>2, <2>9 DEF TypeInv
  <1>3. CASE RequestSessionStop
    <2>1. session' \in SessionRecords
      BY <1>3, <1>a, StoppedType DEF RequestSessionStop, Reasons
    <2>2. hist' \in [age : Nat, here : Nat, set : BOOLEAN, slip : Nat, least : Nat]
      BY <1>3 DEF RequestSessionStop, NoIdle, Min, TypeInv, SessionRecords
    <2>9. UNCHANGED <<wall, timeout, entry, pass, swept>>
      BY <1>3 DEF RequestSessionStop
    <2> QED BY <2>1, <2>2, <2>9 DEF TypeInv
  <1>4. CASE CreateSessionChallenge
    <2>1. session' \in SessionRecords
      BY <1>4, <1>a, StoppedType DEF CreateSessionChallenge, Reasons
    <2>2. hist' \in [age : Nat, here : Nat, set : BOOLEAN, slip : Nat, least : Nat]
      BY <1>4 DEF CreateSessionChallenge, NoIdle, Min, TypeInv, SessionRecords
    <2>9. UNCHANGED <<wall, timeout, entry, pass, swept>>
      BY <1>4 DEF CreateSessionChallenge
    <2> QED BY <2>1, <2>2, <2>9 DEF TypeInv
  <1>5. CASE BeginPass
    BY <1>5 DEF TypeInv, BeginPass, NoPass, Cutoff, Min
  <1>6. CASE ExpireSession
    <2>1. session' \in SessionRecords
      BY <1>6, <1>a, ExpiredType DEF ExpireSession, TypeInv
    <2> QED BY <1>6, <2>1 DEF ExpireSession, TypeInv
  <1>7. CASE SetTimer
    <2>1. entry' \in [revision : Nat, recorded : Nat, left : Nat]
      BY <1>7, RememberedType DEF SetTimer, TypeInv
    <2>2. pass' \in [at : {"none", "expire", "timer", "drain", "end"}, revision : Nat, fresh : BOOLEAN]
      <3>1. CASE session.state = "idle"
        BY <1>7, <2>1, <3>1 DEF SetTimer, TypeInv
      <3>2. CASE session.state # "idle"
        BY <1>7, <3>2 DEF SetTimer, TypeInv
      <3> QED BY <3>1, <3>2
    <2>3. hist' \in [age : Nat, here : Nat, set : BOOLEAN, slip : Nat, least : Nat]
      <3>1. Minus(session.since, wall) \in Nat
        BY <1>a DEF Minus, SessionRecords
      <3>2. [hist EXCEPT !.slip = Minus(session.since, wall)]
               \in [age : Nat, here : Nat, set : BOOLEAN, slip : Nat, least : Nat]
        BY <3>1 DEF TypeInv
      <3> QED BY <1>7, <3>2 DEF SetTimer, TypeInv
    <2> QED BY <1>7, <2>1, <2>2, <2>3 DEF SetTimer, TypeInv
  <1>8. CASE DrainIdleSession
    <2>1. session' \in SessionRecords
      BY <1>8, <1>a, StoppedType DEF DrainIdleSession, Drained, Reasons
    <2> QED BY <1>8, <2>1 DEF DrainIdleSession, TypeInv
  <1>9. CASE EndPass
    BY <1>9 DEF TypeInv, EndPass, NoEntry, NoPass
  <1>10. CASE Tick
    <2>1. entry' \in [revision : Nat, recorded : Nat, left : Nat]
      <3>1. Minus(entry.left, 1) \in Nat
        BY DEF Minus, TypeInv
      <3> QED BY <1>10, <3>1 DEF Tick, TypeInv
    <2>2. hist' \in [age : Nat, here : Nat, set : BOOLEAN, slip : Nat, least : Nat]
      <3>1. Older(hist.age) \in Nat /\ Older(hist.here) \in Nat
        BY DEF Older, Min, TypeInv
      <3> QED BY <1>10, <3>1 DEF Tick, TypeInv
    <2>3. wall' \in 0 .. MaxWall
      BY <1>10 DEF Tick, TypeInv
    <2>5. swept' \in BOOLEAN
      BY <1>10, Zenon DEF Tick
    <2>4. pass' \in [at : {"none", "expire", "timer", "drain", "end"}, revision : Nat, fresh : BOOLEAN]
      BY <1>10 DEF Tick, TypeInv
    <2> QED BY <1>10, <2>1, <2>2, <2>3, <2>4, <2>5 DEF Tick, TypeInv
  <1>11. CASE SetClock
    BY <1>11 DEF TypeInv, SetClock, Min
  <1>12. CASE Restart
    BY <1>12 DEF TypeInv, Restart, NoEntry, NoPass, Min
  <1>13. CASE UNCHANGED vars
    BY <1>13 DEF TypeInv, vars
  <1> QED BY <1>1, <1>2, <1>3, <1>4, <1>5, <1>6, <1>7, <1>8, <1>9, <1>10, <1>11, <1>12, <1>13 DEF Next

\* Every step keeps the order of revisions and times.
LEMMA StateStep ==
    ASSUME TypeInv, StateInv, [Next]_vars
    PROVE  StateInv'
  <1> USE DEF TypeInv, SessionRecords, Reasons, StateInv
  <1>1. CASE ReserveTurn
    BY <1>1 DEF ReserveTurn, Stopped, Cutoff, NoIdle, Min
  <1>2. CASE CompleteTurn
    BY <1>2 DEF CompleteTurn, Stopped, NoIdle, Min
  <1>3. CASE RequestSessionStop
    BY <1>3 DEF RequestSessionStop, Stopped, NoIdle, Room
  <1>4. CASE CreateSessionChallenge
    BY <1>4 DEF CreateSessionChallenge, Stopped, NoIdle, Room
  <1>5. CASE BeginPass
    BY <1>5 DEF BeginPass, NoPass, Cutoff, Min
  <1>6. CASE ExpireSession
    BY <1>6 DEF ExpireSession, Expired, Stopped, Cutoff, Min, Room
  <1>7. CASE SetTimer
    <2>1. session' = session
      BY <1>7 DEF SetTimer
    <2>2. /\ entry'.revision <= session.revision /\ pass'.revision <= session.revision
          /\ session.state = "idle" => session.deadline <= entry'.recorded
      <3>1. CASE session.state = "idle"
        <4>1. entry' = Remembered(session)
          BY <1>7, <3>1 DEF SetTimer
        <4>2. entry'.revision = session.revision /\ entry'.recorded = session.deadline
          BY <4>1 DEF Remembered
        <4>3. pass'.revision = entry'.revision
          BY <1>7, <3>1 DEF SetTimer
        <4> QED BY <4>2, <4>3
      <3>2. CASE session.state # "idle"
        BY <1>7, <3>2 DEF SetTimer
      <3> QED BY <3>1, <3>2
    <2> QED BY <2>1, <2>2
  <1>8. CASE DrainIdleSession
    BY <1>8 DEF DrainIdleSession, Drained, Stopped, Room
  <1>9. CASE EndPass
    BY <1>9 DEF EndPass, NoEntry, NoPass
  <1>10. CASE Tick
    BY <1>10 DEF Tick, Minus, Older, Min
  <1>11. CASE SetClock
    BY <1>11 DEF SetClock, Min
  <1>12. CASE Restart
    BY <1>12 DEF Restart, NoEntry, NoPass, Min
  <1>13. CASE UNCHANGED vars
    BY <1>13 DEF vars
  <1> QED BY <1>1, <1>2, <1>3, <1>4, <1>5, <1>6, <1>7, <1>8, <1>9, <1>10, <1>11, <1>12, <1>13 DEF Next

\* What SetTimer leaves of an idle period.
LEMMA SetTimerIdle ==
    ASSUME TypeInv, SetTimer, session.state = "idle"
    PROVE  /\ session' = session /\ wall' = wall /\ timeout' = timeout /\ swept' = swept
           /\ entry' = Remembered(session)
           /\ pass'.at = (IF entry'.left = 0 THEN "drain" ELSE "end")
           /\ pass'.revision = entry'.revision /\ pass'.fresh = pass.fresh
           /\ hist'.age = hist.age /\ hist'.here = hist.here /\ hist'.least = hist.least
           /\ hist'.set = hist.set
           /\ hist'.slip = (IF entry' = entry THEN hist.slip ELSE Minus(session.since, wall))
  <1> USE DEF SetTimer
  <1>1. session' = session /\ wall' = wall /\ timeout' = timeout /\ swept' = swept
    BY Zenon
  <1>2. entry' = Remembered(session)
    BY Zenon
  <1>3. pass' = [pass EXCEPT !.at = IF entry'.left = 0 THEN "drain" ELSE "end",
                             !.revision = entry'.revision]
    BY Zenon
  <1>4. hist' = IF entry' = entry THEN hist
                ELSE [hist EXCEPT !.slip = Minus(session.since, wall)]
    BY Zenon
  <1> HIDE DEF SetTimer
  <1>5. pass'.at = (IF entry'.left = 0 THEN "drain" ELSE "end")
        /\ pass'.revision = entry'.revision /\ pass'.fresh = pass.fresh
    BY <1>3 DEF TypeInv
  <1>6. hist'.age = hist.age /\ hist'.here = hist.here /\ hist'.least = hist.least
        /\ hist'.set = hist.set
    BY <1>4 DEF TypeInv
  <1>7. hist'.slip = (IF entry' = entry THEN hist.slip ELSE Minus(session.since, wall))
    BY <1>4 DEF TypeInv
  <1> QED BY <1>1, <1>2, <1>5, <1>6, <1>7

\* Every step keeps what a true clock says.
LEMMA TrueClockStep ==
    ASSUME TypeInv, StateInv, TrueClockInv, [Next]_vars
    PROVE  TrueClockInv'
  <1> USE DEF TypeInv, SessionRecords, Reasons, StateInv, TrueClockInv
  <1>1. CASE ReserveTurn
    BY <1>1 DEF ReserveTurn, Stopped, Cutoff, NoIdle, Min
  <1>2. CASE CompleteTurn
    BY <1>2 DEF CompleteTurn, Stopped, NoIdle, Min
  <1>3. CASE RequestSessionStop
    BY <1>3 DEF RequestSessionStop, Stopped, NoIdle, Room
  <1>4. CASE CreateSessionChallenge
    BY <1>4 DEF CreateSessionChallenge, Stopped, NoIdle, Room
  <1>5. CASE BeginPass
    BY <1>5 DEF BeginPass, NoPass, Cutoff, Min
  <1>6. CASE ExpireSession
    BY <1>6 DEF ExpireSession, Expired, Stopped, Cutoff, Min, Room
  <1>7. CASE SetTimer
    <2>1. CASE session.state = "idle"
      BY <1>7, <2>1, SetTimerIdle DEF Remembered, Minus
    <2>2. CASE session.state # "idle"
      BY <1>7, <2>2 DEF SetTimer
    <2> QED BY <2>1, <2>2
  <1>8. CASE DrainIdleSession
    BY <1>8 DEF DrainIdleSession, Drained, Stopped, Room
  <1>9. CASE EndPass
    BY <1>9 DEF EndPass, NoEntry, NoPass
  <1>10. CASE Tick
    BY <1>10 DEF Tick, Minus, Older, Min
  <1>11. CASE SetClock
    BY <1>11 DEF SetClock, Min
  <1>12. CASE Restart
    BY <1>12 DEF Restart, NoEntry, NoPass, Min
  <1>13. CASE UNCHANGED vars
    BY <1>13 DEF vars
  <1> QED BY <1>1, <1>2, <1>3, <1>4, <1>5, <1>6, <1>7, <1>8, <1>9, <1>10, <1>11, <1>12, <1>13 DEF Next

\* Every step keeps the monotonic bound.
LEMMA BoundStep ==
    ASSUME TypeInv, StateInv, BoundInv, [Next]_vars
    PROVE  BoundInv'
  <1> USE DEF TypeInv, SessionRecords, Reasons, StateInv, BoundInv, Noted, Kept, Min
  <1>1. CASE ReserveTurn
    BY <1>1 DEF ReserveTurn, Stopped, Cutoff, NoIdle, Min
  <1>2. CASE CompleteTurn
    BY <1>2 DEF CompleteTurn, Stopped, NoIdle, Min
  <1>3. CASE RequestSessionStop
    BY <1>3 DEF RequestSessionStop, Stopped, NoIdle, Room
  <1>4. CASE CreateSessionChallenge
    BY <1>4 DEF CreateSessionChallenge, Stopped, NoIdle, Room
  <1>5. CASE BeginPass
    BY <1>5 DEF BeginPass, NoPass, Cutoff, Min
  <1>6. CASE ExpireSession
    <2>1. UNCHANGED <<wall, timeout, entry, swept, hist>> /\ pass'.at = "timer"
          /\ pass'.revision = pass.revision /\ pass'.fresh = pass.fresh
      BY <1>6 DEF ExpireSession
    <2>2. CASE session'.state # "idle"
      BY <2>2
    <2>3. CASE session'.state = "idle"
      <3> DEFINE cutoff == Cutoff(session, timeout)
      <3>1. session' = [[session EXCEPT !.deadline = cutoff] EXCEPT !.observed = wall]
            /\ session.state = "idle"
        BY <1>6, <2>3 DEF ExpireSession, Expired, Stopped
      <3>2. session'.deadline = cutoff /\ session'.since = session.since
            /\ session'.revision = session.revision /\ session'.retention = session.retention
        <4> HIDE DEF cutoff
        <4> QED BY <3>1
      <3>3. cutoff <= session.since + timeout /\ cutoff \in Nat
            /\ (session.deadline <= session.since + timeout => cutoff = session.deadline)
        BY DEF Cutoff, Min
      <3>4. Noted' <=> Noted
        BY <2>1, <3>1, <3>2, <3>3
      <3> QED BY <2>1, <3>1, <3>2, <3>3, <3>4
    <2> QED BY <2>2, <2>3
  <1>7. CASE SetTimer
    <2>1. CASE session.state = "idle"
      <3> USE <1>7, <2>1, SetTimerIdle
      <3>1. entry'.revision = session.revision /\ entry'.recorded = session.deadline
        BY DEF Remembered
      <3>2. Noted' <=> session.deadline <= session.since + timeout
        BY <3>1
      <3>3. Kept' = Kept
        BY DEF Kept, Min
      <3>4. pass.at = "timer"
        BY DEF SetTimer
      <3>5. CASE entry' = entry
        <4>1. Noted' <=> Noted
          BY <3>1, <3>2, <3>5
        <4> QED BY <3>2, <3>3, <3>4, <3>5, <4>1
      <3>6. CASE entry' # entry
        <4>1. ~Noted /\ hist.here <= 1 /\ (hist.here = 1 => ~swept)
          BY <3>6 DEF Remembered
        <4>2. entry'.left = Minus(session.deadline, wall) /\ hist'.slip = Minus(session.since, wall)
          BY <3>6 DEF Remembered
        <4>3. Noted' => entry'.left <= Kept + hist'.slip
          BY <3>2, <4>2 DEF Minus
        <4> QED BY <3>2, <3>3, <3>4, <4>1, <4>2, <4>3 DEF Minus
      <3> QED BY <3>5, <3>6
    <2>3. CASE session.state # "idle"
      BY <1>7, <2>3 DEF SetTimer
    <2> QED BY <2>1, <2>3
  <1>8. CASE DrainIdleSession
    BY <1>8 DEF DrainIdleSession, Drained, Stopped, Room
  <1>9. CASE EndPass
    BY <1>9 DEF EndPass, NoEntry, NoPass
  <1>10. CASE Tick
    BY <1>10 DEF Tick, Minus, Older, Min
  <1>11. CASE SetClock
    BY <1>11 DEF SetClock, Min
  <1>12. CASE Restart
    BY <1>12 DEF Restart, NoEntry, NoPass, Min
  <1>13. CASE UNCHANGED vars
    BY <1>13 DEF vars
  <1> QED BY <1>1, <1>2, <1>3, <1>4, <1>5, <1>6, <1>7, <1>8, <1>9, <1>10, <1>11, <1>12, <1>13 DEF Next

\* Types, order, true clock and bound are an invariant of the specification.
THEOREM ResidencyInvariant == Spec => []ResidencyInv
  <1>1. Init => ResidencyInv
    <2> SUFFICES ASSUME Init PROVE ResidencyInv
      OBVIOUS
    <2> USE DEF Init, NoEntry, NoPass, NoIdle
    <2>1. TypeInv
      <3>1. session \in SessionRecords
        BY DEF SessionRecords, Reasons
      <3>2. hist \in [age : Nat, here : Nat, set : BOOLEAN, slip : Nat, least : Nat]
        OBVIOUS
      <3>3. pass \in [at : {"none", "expire", "timer", "drain", "end"}, revision : Nat,
                      fresh : BOOLEAN]
        OBVIOUS
      <3>4. swept \in BOOLEAN
        BY Zenon
      <3>5. entry \in [revision : Nat, recorded : Nat, left : Nat]
            /\ wall \in 0 .. MaxWall /\ timeout \in Timeouts
        OBVIOUS
      <3> QED BY <3>1, <3>2, <3>3, <3>4, <3>5 DEF TypeInv
    <2>2. StateInv
      BY DEF StateInv
    <2>3. TrueClockInv /\ BoundInv
      BY DEF TrueClockInv, BoundInv
    <2> QED BY <2>1, <2>2, <2>3 DEF ResidencyInv
  <1>2. ResidencyInv /\ [Next]_vars => ResidencyInv'
    BY TypeStep, StateStep, TrueClockStep, BoundStep DEF ResidencyInv
  <1> QED BY <1>1, <1>2, PTL DEF Spec

\* However the wall clock is set, an idle session outlives its retention by no
\* more than the bound (the monotonic deadline of reconcileSession).
THEOREM IdleBounded == Spec => []IdleIsBounded
  <1>1. ResidencyInv => IdleIsBounded
    <2> SUFFICES ASSUME ResidencyInv, session.state = "idle"
                 PROVE  hist.here <= Kept + 1 + hist.slip
      BY DEF IdleIsBounded
    <2> USE DEF ResidencyInv, TypeInv, SessionRecords, BoundInv
    <2>1. Kept \in Nat
      BY DEF Kept, Min
    <2>2. CASE Noted
      BY <2>1, <2>2
    <2>3. CASE ~Noted
      BY <2>1, <2>3
    <2> QED BY <2>2, <2>3
  <1> QED BY <1>1, ResidencyInvariant, PTL

\* While the clock runs true an idle period gets the retention it was granted: no
\* pass over an earlier period and nobody else ends it sooner, and no turn is given
\* the session later, whatever restarts and timeouts came between.
THEOREM RetentionKept == Spec => RetentionIsKept
  <1>1. ResidencyInv /\ [Next]_vars
          => [session.state = "idle" /\ ~hist.set
                => (session'.reason = "idle_expired" => hist.age >= hist.least)]_vars
    <2> SUFFICES ASSUME ResidencyInv, Next, session.state = "idle",
                        session'.reason = "idle_expired", ~hist.set
                 PROVE  hist.age >= hist.least
      BY DEF vars
    <2> USE DEF ResidencyInv, TypeInv, SessionRecords, StateInv, TrueClockInv
    <2>1. CASE ReserveTurn
      BY <2>1 DEF ReserveTurn, Stopped, Cutoff, Min
    <2>2. CASE CompleteTurn
      BY <2>2 DEF CompleteTurn, Stopped
    <2>3. CASE RequestSessionStop
      BY <2>3 DEF RequestSessionStop, Stopped
    <2>4. CASE CreateSessionChallenge
      BY <2>4 DEF CreateSessionChallenge, Stopped
    <2>5. CASE BeginPass
      BY <2>5 DEF BeginPass, NoPass
    <2>6. CASE ExpireSession
      BY <2>6 DEF ExpireSession, Expired, Stopped, Cutoff, Min
    <2>7. CASE SetTimer
      BY <2>7 DEF SetTimer, Remembered
    <2>8. CASE DrainIdleSession
      BY <2>8 DEF DrainIdleSession, Drained, Stopped
    <2>9. CASE EndPass
      BY <2>9 DEF EndPass, NoPass
    <2>10. CASE Tick
      BY <2>10 DEF Tick, Minus
    <2>11. CASE SetClock
      BY <2>11 DEF SetClock, Min
    <2>12. CASE Restart
      BY <2>12 DEF Restart, NoPass
    <2> QED BY <2>1, <2>2, <2>3, <2>4, <2>5, <2>6, <2>7, <2>8, <2>9, <2>10, <2>11, <2>12 DEF Next
  <1>2. ResidencyInv /\ [Next]_vars
          => [session.state = "idle" /\ ~hist.set
                => (session'.state = "busy" => hist.age < Kept)]_vars
    <2> SUFFICES ASSUME ResidencyInv, Next, session.state = "idle",
                        session'.state = "busy", ~hist.set
                 PROVE  hist.age < Kept
      BY DEF vars
    <2> USE DEF ResidencyInv, TypeInv, SessionRecords, StateInv, TrueClockInv
    <2>1. ReserveTurn
      BY DEF Next, CompleteTurn, RequestSessionStop, CreateSessionChallenge, BeginPass,
             ExpireSession, Expired, SetTimer, DrainIdleSession, Drained, EndPass, Tick, SetClock,
             Restart, Stopped
    <2> QED BY <2>1 DEF ReserveTurn, Stopped, Cutoff, Kept, Min
  <1>3. ResidencyInv /\ [Next]_vars
          => [session.state = "idle" /\ ~hist.set =>
                /\ session'.reason = "idle_expired" => hist.age >= hist.least
                /\ session'.state = "busy" => hist.age < Kept]_vars
    BY <1>1, <1>2
  <1> QED BY <1>3, ResidencyInvariant, PTL DEF Spec, RetentionIsKept
=============================================================================
