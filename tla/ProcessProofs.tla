--------------------------- MODULE ProcessProofs ---------------------------
(***************************************************************************)
(* The fences of a worker Pod's supervisor, for any number of processes:   *)
(* a fence that reports its end left no process behind, and the fence of   *)
(* a turn signals no process of the resident desktop, whatever forks,      *)
(* exits or is adopted while /proc is read.                                *)
(***************************************************************************)
EXTENDS TaskProcesses, WellFoundedInduction, TLAPS

USE PidBound

-----------------------------------------------------------------------------
(* The inductive invariant                                                 *)

ProcessStates == {"none", "run", "zombie"}
Phases == {"idle", "check", "list", "observe", "trace", "signal", "reap", "count",
           "stopped", "failed"}
Fences == [mode : {"none", "turn", "all"}, phase : Phases, late : BOOLEAN,
           at : Nat \ {0, 1}, listed : SUBSET Pids, zombies : SUBSET Pids, walk : Nat,
           remaining : BOOLEAN, uncertain : BOOLEAN]

\* The types of the process table and of the fence.
TypeOK ==
    /\ proc \in [Pids -> [state : ProcessStates, parent : 0 .. MaxPid]]
    /\ next \in 5 .. MaxPid + 1
    /\ reaped \subseteq Inits /\ turn \in BOOLEAN /\ launch \in {0} \cup Pids
    /\ fence \in Fences

\* The process table as the kernel keeps it: numbers below next, parents that
\* live, and the two inits children of PID 1.
TableInv ==
    /\ \A p \in Pids : Exists(p) => p < next
    /\ \A p \in Pids : Exists(p) /\ proc[p].parent # 1 =>
          proc[p].parent \in Pids /\ Alive(proc[p].parent)
    /\ \A i \in Inits : Exists(i) => proc[i].parent = 1

Resident(p) == Beneath(p, Desktop)

\* What a fence read is of processes that were there.
FenceInv ==
    /\ \A p \in fence.listed : p < next
    /\ fence.walk # 0 => fence.walk \in Pids /\ fence.walk < next
                         /\ fence.phase = "trace" /\ fence.at \in fence.listed
    /\ fence.phase = "signal" => fence.at \in fence.listed
    /\ fence.phase \in {"observe", "trace", "signal"} => fence.mode = "turn"
    /\ fence.phase = "count" => fence.mode = "all"
    /\ fence.phase # "idle" => fence.mode # "none"

\* A walk answers for the process it began at.
WalkInv ==
    fence.walk # 0 /\ Alive(Desktop) =>
        /\ Resident(fence.at) /\ Exists(fence.walk) => Resident(fence.walk)
        /\ Exists(fence.at) /\ Resident(fence.walk) => Resident(fence.at)

\* The pass will not end clean because of l.
Telling(l) ==
    /\ l \in fence.listed
    /\ fence.phase \in {"trace", "reap"} => l >= fence.at
    /\ IF fence.walk # 0 /\ l = fence.at THEN ~Resident(fence.walk) ELSE ~Resident(l)

Passed(p) == Exists(p) /\ (fence.phase = "list" => p < fence.at)

\* An outsider the listing missed was forked by an outsider that tells, and an
\* entry whose ancestry was traced is of the desktop or gone.
TurnInv ==
    fence.mode = "turn" /\ fence.phase \in {"list", "observe", "trace", "reap"} /\ Alive(Desktop)
    /\ ~fence.remaining /\ ~fence.uncertain =>
        /\ \A p \in Pids \ fence.listed : Passed(p) /\ ~Resident(p) => \E l \in Pids : Telling(l)
        /\ fence.phase \in {"trace", "reap"} =>
              \A l \in fence.listed : l < fence.at /\ Exists(l) => Resident(l)
        /\ fence.phase = "reap" => \A l \in fence.listed : l < fence.at

\* The final stop: no application is launched any more, and whatever is there
\* when the namespace was listed shows in the list.
FinalInv ==
    fence.mode = "all" =>
        /\ launch = 0
        /\ fence.phase \in {"list", "count"} /\ (\E p \in Pids : Passed(p)) => fence.listed # {}

\* What a fence reported stays so.
StoppedInv ==
    fence.phase = "stopped" =>
        \A p \in Pids : Exists(p) => fence.mode = "turn" /\ (Alive(Desktop) => Resident(p))
SignalInv == fence.phase = "signal" /\ Alive(Desktop) => ~Resident(fence.at)

IInv == TypeOK /\ TableInv /\ FenceInv /\ WalkInv /\ TurnInv /\ FinalInv /\ StoppedInv /\ SignalInv
-----------------------------------------------------------------------------
(* Ancestry in any process table                                           *)

Present(t, p) == t[p].state # "none"
Closed(t, root, family) ==
    \A q \in Pids : Present(t, q) /\ (q = root \/ t[q].parent \in family) => q \in family
Under(t, p, root) == \A family \in SUBSET Pids : Closed(t, root, family) => p \in family

\* Ancestry of the processes is ancestry in their table.
LEMMA BeneathIsUnder ==
    ASSUME NEW p, NEW root
    PROVE  Beneath(p, root) <=> Under(proc, p, root)
  BY DEF Beneath, Under, Closed, Present, Exists

\* The same after a step.
LEMMA ResidentIsUnder ==
    ASSUME NEW p
    PROVE  /\ Resident(p) <=> Under(proc, p, Desktop)
           /\ Resident(p)' <=> Under(proc', p, Desktop)
  BY DEF Resident, Beneath, Under, Closed, Present, Exists

\* A set with the root and the children of its members holds the family.
LEMMA UnderLeast ==
    ASSUME NEW t, NEW root, NEW family \in SUBSET Pids, Closed(t, root, family),
           NEW p, Under(t, p, root)
    PROVE  p \in family
  BY DEF Under

\* A process is beneath the root if it is the root or its parent is.
LEMMA UnderStep ==
    ASSUME NEW t, NEW root, NEW p
    PROVE  Under(t, p, root) <=>
             p \in Pids /\ Present(t, p) /\ (p = root \/ Under(t, t[p].parent, root))
  <1>1. ASSUME p \in Pids, Present(t, p), p = root \/ Under(t, t[p].parent, root)
        PROVE  Under(t, p, root)
    BY <1>1 DEF Under, Closed
  <1>2. ASSUME Under(t, p, root)
        PROVE  p \in Pids /\ Present(t, p) /\ (p = root \/ Under(t, t[p].parent, root))
    <2> DEFINE G == {q \in Pids : Present(t, q) /\ (q = root \/ Under(t, t[q].parent, root))}
    <2>1. \A q \in G : Under(t, q, root)
      BY DEF Under, Closed
    <2>2. Closed(t, root, G)
      BY <2>1 DEF Closed
    <2>3. p \in G
      BY <1>2, <2>2, UnderLeast
    <2>4. QED BY <2>3
  <1>3. QED BY <1>1, <1>2

\* A process table as the kernel keeps it.
SoundTable(t) ==
    /\ \A p \in Pids : Present(t, p) /\ t[p].parent # 1 =>
          t[p].parent \in Pids /\ t[t[p].parent].state = "run"
    /\ \A i \in Inits : Present(t, i) => t[i].parent = 1

\* The families of the two inits are disjoint.
LEMMA FamiliesDisjoint ==
    ASSUME NEW t, SoundTable(t), NEW p, Under(t, p, Desktop), Under(t, p, Runner)
    PROVE  FALSE
  <1> DEFINE G == {q \in Pids : Present(t, q) /\ ~Under(t, q, Runner)}
  <1>1. 1 \notin Pids /\ Desktop # Runner /\ Desktop \in Inits /\ Runner \in Inits
    BY DEF Pids, Desktop, Runner, Inits
  <1>2. ASSUME NEW q \in Pids, Present(t, q), q = Desktop \/ t[q].parent \in G
        PROVE  q \in G
    <2>1. q # Runner
      BY <1>1, <1>2 DEF SoundTable
    <2>2. CASE q = Desktop
      <3>1. ~Under(t, 1, Runner) /\ t[q].parent = 1
        BY <1>1, <1>2, <2>2, UnderStep DEF SoundTable
      <3>2. QED BY <1>2, <2>1, <3>1, UnderStep
    <2>3. CASE t[q].parent \in G
      BY <1>2, <2>1, <2>3, UnderStep
    <2>4. QED BY <1>2, <2>2, <2>3
  <1>3. Closed(t, Desktop, G)
    BY <1>2 DEF Closed
  <1>4. p \in G
    BY <1>3, UnderLeast
  <1>5. QED BY <1>4

\* What a step of the kernel makes of parents: a process keeps its parent or is
\* adopted by the desktop's init if it was of the desktop, and by another
\* outsider if it was not; the newborn have no children.
Inherits(t, u) ==
    /\ \A p \in Pids : Present(t, p) /\ Present(u, p) /\ p # Desktop =>
          \/ u[p].parent = t[p].parent
          \/ Under(t, p, Desktop) /\ u[p].parent = Desktop
          \/ ~Under(t, p, Desktop) /\ ~Under(t, u[p].parent, Desktop)
    /\ \A p, q \in Pids : Present(u, p) /\ ~Present(t, p) /\ Present(u, q) => u[q].parent # p

\* Such a step keeps every process on its side of the desktop's fence, and puts
\* the newborn on the side of their parent.
LEMMA InheritsSides ==
    ASSUME NEW t, NEW u, SoundTable(t), SoundTable(u), Inherits(t, u),
           t[Desktop].state = "run", u[Desktop].state = "run"
    PROVE  /\ \A p \in Pids : Present(t, p) /\ Present(u, p) =>
                 (Under(u, p, Desktop) <=> Under(t, p, Desktop))
           /\ \A p \in Pids : Present(u, p) /\ ~Present(t, p) =>
                 (Under(u, p, Desktop) <=> Under(t, u[p].parent, Desktop))
  <1> DEFINE G == {q \in Pids : Present(u, q) /\
                      IF Present(t, q) THEN Under(t, q, Desktop)
                      ELSE Under(t, u[q].parent, Desktop)}
             H == {q \in Pids : Under(t, q, Desktop) /\ (Present(u, q) => Under(u, q, Desktop))}
  <1>1. Desktop \in Pids /\ Present(t, Desktop) /\ Present(u, Desktop) /\ 1 \notin Pids
    BY DEF Pids, Desktop, Present
  <1>2. Under(t, Desktop, Desktop) /\ Under(u, Desktop, Desktop)
    BY <1>1, UnderStep
  <1>3. ASSUME NEW q \in Pids, Present(u, q), q = Desktop \/ u[q].parent \in G
        PROVE  q \in G
    <2>1. CASE q = Desktop
      BY <1>1, <1>2, <2>1
    <2>2. CASE q # Desktop
      <3>1. u[q].parent \in Pids /\ Present(u, u[q].parent) /\ Present(t, u[q].parent)
        BY <1>3, <2>2 DEF Inherits
      <3>2. Under(t, u[q].parent, Desktop)
        BY <1>3, <2>2, <3>1
      <3>3. CASE ~Present(t, q)
        BY <1>3, <3>2, <3>3
      <3>4. CASE Present(t, q)
        <4>1. Under(t, q, Desktop)
          BY <1>3, <2>2, <3>2, <3>4, UnderStep DEF Inherits
        <4>2. QED BY <1>3, <3>4, <4>1
      <3>5. QED BY <3>3, <3>4
    <2>3. QED BY <2>1, <2>2
  <1>4. Closed(u, Desktop, G)
    BY <1>3 DEF Closed
  <1>5. ASSUME NEW q \in Pids, Present(t, q), q = Desktop \/ t[q].parent \in H
        PROVE  q \in H
    <2>1. CASE q = Desktop
      BY <1>2, <2>1
    <2>2. CASE q # Desktop
      <3>1. Under(t, t[q].parent, Desktop) /\ Under(t, q, Desktop)
        BY <1>5, <2>2, UnderStep
      <3>2. ASSUME Present(u, q)
            PROVE  Under(u, q, Desktop)
        <4>1. CASE u[q].parent = t[q].parent
          <5>1. t[q].parent \in Pids /\ t[q].parent # 1
            BY <1>1, <1>5, <2>2
          <5>2. Present(u, u[q].parent)
            BY <3>2, <4>1, <5>1 DEF SoundTable, Present
          <5>3. Under(u, u[q].parent, Desktop)
            BY <1>5, <2>2, <4>1, <5>2
          <5>4. QED BY <3>2, <5>3, UnderStep
        <4>2. CASE u[q].parent = Desktop
          BY <1>2, <3>2, <4>2, UnderStep
        <4>3. QED BY <1>5, <2>2, <3>1, <3>2, <4>1, <4>2 DEF Inherits
      <3>3. QED BY <3>1, <3>2
    <2>3. QED BY <2>1, <2>2
  <1>6. Closed(t, Desktop, H)
    BY <1>5 DEF Closed
  <1>7. ASSUME NEW p \in Pids, Present(u, p), Under(u, p, Desktop)
        PROVE  p \in G
    BY <1>4, <1>7, UnderLeast
  <1>8. ASSUME NEW p \in Pids, Under(t, p, Desktop)
        PROVE  p \in H
    BY <1>6, <1>8, UnderLeast
  <1>9. ASSUME NEW p \in Pids, Present(u, p), ~Present(t, p), Under(t, u[p].parent, Desktop)
        PROVE  Under(u, p, Desktop)
    <2>1. u[p].parent \in H
      BY <1>8, <1>9, UnderStep
    <2>2. u[p].parent # 1 /\ Present(u, u[p].parent)
      BY <1>1, <1>9, <2>1 DEF SoundTable, Present
    <2>3. QED BY <1>9, <2>1, <2>2, UnderStep
  <1>10. QED BY <1>7, <1>8, <1>9
-----------------------------------------------------------------------------
(* What a step makes of the process table                                  *)

Reaped(gone) == [p \in Pids |-> IF p \in gone THEN NoProcess ELSE proc[p]]

Quiet == UNCHANGED <<proc, next>>
Birth(parent) ==
    /\ parent \in Pids /\ Alive(parent) /\ next <= MaxPid
    /\ proc' = Born(parent) /\ next' = next + 1
Death(dead) == (\A d \in dead : Alive(d)) /\ proc' = Die(dead) /\ UNCHANGED next
Removal(gone) ==
    (\A p \in gone : proc[p].state = "zombie") /\ proc' = Reaped(gone) /\ UNCHANGED next

TableStep ==
    \/ Quiet
    \/ \E parent \in Pids : Birth(parent)
    \/ \E dead \in SUBSET Pids : Death(dead)
    \/ \E gone \in SUBSET Pids : Removal(gone)

\* The numbers that have a name, and what numbers are.
LEMMA PidsAre ==
    /\ Desktop \in Pids /\ Runner \in Pids /\ Provider \in Pids
    /\ Inits \subseteq Pids /\ 0 \notin Pids /\ 1 \notin Pids /\ Desktop # Runner
    /\ Pids \subseteq Nat /\ \A p \in Pids : p \in 0 .. MaxPid /\ p >= 2
    /\ Provider \notin Inits /\ Provider + 1 \in 5 .. MaxPid + 1
  BY DEF Pids, Desktop, Runner, Provider, Inits

\* Every step is a birth, the death of live processes, the removal of dead ones,
\* or leaves the table alone.
LEMMA StepsOfTheTable ==
    ASSUME TypeOK, FenceInv, Next
    PROVE  TableStep
  <1> USE PidsAre
  <1>1. ASSUME NEW p \in Pids, Fork(p)
        PROVE  TableStep
    BY <1>1 DEF Fork, TableStep, Birth
  <1>2. ASSUME NEW p \in Pids, Exit(p)
        PROVE  TableStep
    <2>1. Death({p})
      BY <1>2 DEF Exit, Death
    <2>2. QED BY <2>1 DEF TableStep
  <1>3. ASSUME NEW i \in Inits, InitExits(i)
        PROVE  TableStep
    <2>1. Death({i})
      BY <1>3 DEF InitExits, Death
    <2>2. QED BY <2>1 DEF TableStep
  <1>4. ASSUME NEW p \in Pids, proc[p].state = "zombie", proc' = [proc EXCEPT ![p] = NoProcess],
               UNCHANGED next
        PROVE  TableStep
    <2>1. proc' = Reaped({p})
      BY <1>4 DEF TypeOK, Reaped
    <2>2. Removal({p})
      BY <1>4, <2>1 DEF Removal
    <2>3. QED BY <2>2 DEF TableStep
  <1>5. ASSUME ServeLaunch
        PROVE  TableStep
    <2>1. CASE AuthorizeLaunch(launch) /\ next <= MaxPid /\ proc' = Born(Desktop) /\ next' = next + 1
      BY <2>1 DEF AuthorizeLaunch, TableStep, Birth
    <2>2. CASE UNCHANGED <<proc, next>>
      BY <2>2 DEF TableStep, Quiet
    <2>3. QED BY <1>5, <2>1, <2>2 DEF ServeLaunch
  <1>6. ASSUME Signal
        PROVE  TableStep
    <2>1. fence.at \in Pids
      BY <1>6 DEF Signal, FenceStep, FenceInv, TypeOK, Fences
    <2>2. CASE fence.late /\ Alive(fence.at)
      <3>1. Death({fence.at})
        BY <1>6, <2>2 DEF Signal, Death
      <3>2. QED BY <2>1, <3>1 DEF TableStep
    <2>3. CASE ~(fence.late /\ Alive(fence.at))
      BY <1>6, <2>3 DEF Signal, TableStep, Quiet
    <2>4. QED BY <2>2, <2>3
  <1>7. ASSUME KillAll
        PROVE  TableStep
    <2> DEFINE dead == {p \in Pids : Alive(p)}
    <2>1. CASE fence.late
      <3>1. Death(dead)
        BY <1>7, <2>1 DEF KillAll, Death
      <3>2. QED BY <3>1 DEF TableStep
    <2>2. CASE ~fence.late
      BY <1>7, <2>2 DEF KillAll, TableStep, Quiet
    <2>3. QED BY <2>1, <2>2
  <1>8. ASSUME Reap
        PROVE  TableStep
    <2> DEFINE gone == {p \in Pids : p \in fence.zombies /\ Orphaned(p)}
    <2>1. proc' = Reaped(gone)
      BY <1>8 DEF Reap, Reaped
    <2>2. \A p \in gone : proc[p].state = "zombie"
      BY DEF Orphaned
    <2>3. Removal(gone)
      BY <1>8, <2>1, <2>2 DEF Reap, Removal
    <2>4. QED BY <2>3 DEF TableStep
  <1>9. ASSUME ReapAll
        PROVE  TableStep
    <2> DEFINE gone == {p \in Pids : Orphaned(p)}
    <2>1. CASE Inits \subseteq reaped
      <3>1. proc' = Reaped(gone)
        BY <1>9, <2>1 DEF ReapAll, Reaped
      <3>2. \A p \in gone : proc[p].state = "zombie"
        BY DEF Orphaned
      <3>3. Removal(gone)
        BY <1>9, <3>1, <3>2 DEF ReapAll, Removal
      <3>4. QED BY <3>3 DEF TableStep
    <2>2. CASE ~(Inits \subseteq reaped)
      BY <1>9, <2>2 DEF ReapAll, TableStep, Quiet
    <2>3. QED BY <2>1, <2>2
  <1>10. ASSUME \/ \E p \in Pids : LaunchRequest(p)
                \/ StopTaskProcesses \/ CheckDesktop \/ Observe \/ BeginTrace \/ Trace
                \/ StopWriters \/ Count \/ List \/ Deadline \/ FenceFails
         PROVE  TableStep
    BY <1>10 DEF LaunchRequest, StopTaskProcesses, CheckDesktop, Observe, BeginTrace, Trace,
                 StopWriters, Count, List, Deadline, FenceFails, Kernel, TableStep, Quiet
  <1>11. ASSUME NEW p \in Pids, ParentReaps(p)
         PROVE  TableStep
    BY <1>4, <1>11 DEF ParentReaps
  <1>12. ASSUME NEW i \in Inits, CmdWait(i)
         PROVE  TableStep
    BY <1>4, <1>12 DEF CmdWait
  <1>13. QED
    BY <1>1, <1>2, <1>3, <1>5, <1>6, <1>7, <1>8, <1>9, <1>10, <1>11, <1>12
    DEF Next, Processes, StopTask, StopAll

\* What a step of the table does to the processes that were there.
Kin ==
    /\ next <= next' /\ (Alive(Desktop)' => Alive(Desktop))
    /\ \A p \in Pids : Exists(p)' /\ ~Exists(p) =>
          /\ p >= next /\ p < next'
          /\ \E f \in Pids : Exists(f) /\ (Alive(Desktop)' => (Resident(p)' <=> Resident(f)))
    /\ Alive(Desktop)' =>
          \A p \in Pids : Exists(p) /\ Exists(p)' => (Resident(p)' <=> Resident(p))

TableOK ==
    /\ proc \in [Pids -> [state : ProcessStates, parent : 0 .. MaxPid]]
    /\ next \in 5 .. MaxPid + 1

\* The table of the specification is one as the kernel keeps it.
LEMMA TableInvSound ==
    /\ TableInv => SoundTable(proc)
    /\ TableInv' => SoundTable(proc')
  BY DEF TableInv, SoundTable, Present, Exists, Alive

\* If the tables before and after are related as the kernel does, nobody changes
\* sides.
LEMMA KinOf ==
    ASSUME TypeOK, TableInv, TableOK', TableInv', Inherits(proc, proc'), next <= next',
           Alive(Desktop)' => Alive(Desktop),
           \A p \in Pids : Exists(p)' /\ ~Exists(p) =>
              p >= next /\ p < next' /\ proc'[p].parent \in Pids /\ Exists(proc'[p].parent)
    PROVE  Kin
  <1>1. ASSUME Alive(Desktop)'
        PROVE  /\ \A p \in Pids : Exists(p) /\ Exists(p)' => (Resident(p)' <=> Resident(p))
               /\ \A p \in Pids : Exists(p)' /\ ~Exists(p) =>
                     (Resident(p)' <=> Resident(proc'[p].parent))
    <2>1. proc[Desktop].state = "run" /\ proc'[Desktop].state = "run"
      BY <1>1 DEF Alive
    <2>2. SoundTable(proc) /\ SoundTable(proc')
      BY TableInvSound
    <2>3. /\ \A p \in Pids : Present(proc, p) /\ Present(proc', p) =>
                (Under(proc', p, Desktop) <=> Under(proc, p, Desktop))
          /\ \A p \in Pids : Present(proc', p) /\ ~Present(proc, p) =>
                (Under(proc', p, Desktop) <=> Under(proc, proc'[p].parent, Desktop))
      BY <2>1, <2>2, InheritsSides
    <2>4. \A p : /\ Resident(p) <=> Under(proc, p, Desktop)
                 /\ Resident(p)' <=> Under(proc', p, Desktop)
      BY ResidentIsUnder
    <2>5. \A p : /\ Exists(p) <=> Present(proc, p)
                 /\ Exists(p)' <=> Present(proc', p)
      BY DEF Exists, Present
    <2>6. QED BY <2>3, <2>4, <2>5
  <1>2. QED BY <1>1 DEF Kin

\* A step that leaves the table alone changes nobody's side.
LEMMA QuietKin ==
    ASSUME TypeOK, TableInv, Quiet
    PROVE  TableOK' /\ TableInv' /\ Kin
  <1>1. \A p : Resident(p)' <=> Resident(p)
    BY DEF Quiet, Resident, Beneath, Exists
  <1>2. next \in Nat
    BY DEF TypeOK
  <1>3. QED
    BY <1>1, <1>2 DEF Quiet, TypeOK, TableOK, TableInv, Kin, Exists, Alive

\* A fork or a launch adds a leaf to the family of its parent.
LEMMA BirthKin ==
    ASSUME TypeOK, TableInv, NEW f \in Pids, Birth(f)
    PROVE  TableOK' /\ TableInv' /\ Kin
  <1> USE PidsAre
  <1>1. /\ next \in Pids /\ next >= 5 /\ next' = next + 1 /\ next \notin Inits
        /\ ~Exists(next) /\ f # next /\ Exists(f)
    BY DEF Birth, TypeOK, TableInv, Pids, Inits, Desktop, Runner, Exists, Alive
  <1>2. /\ proc'[next] = [state |-> "run", parent |-> f]
        /\ \A p \in Pids : p # next => proc'[p] = proc[p]
    BY <1>1 DEF Birth, Born, TypeOK
  <1>3. TableOK'
    <2>1. proc' \in [Pids -> [state : ProcessStates, parent : 0 .. MaxPid]]
      BY <1>1 DEF Birth, Born, TypeOK, ProcessStates
    <2>2. next' \in 5 .. MaxPid + 1
      BY <1>1 DEF Birth, TypeOK
    <2>3. QED BY <2>1, <2>2 DEF TableOK
  <1>4. TableInv'
    <2>1. \A p \in Pids : Exists(p)' => p < next'
      BY <1>1, <1>2 DEF TableInv, Exists
    <2>2. ASSUME NEW p \in Pids, Exists(p)', proc'[p].parent # 1
          PROVE  proc'[p].parent \in Pids /\ proc'[proc'[p].parent].state = "run"
      <3>1. CASE p = next
        BY <1>1, <1>2, <3>1 DEF Birth, Alive
      <3>2. CASE p # next
        <4>1. proc[p].parent \in Pids /\ Alive(proc[p].parent)
          BY <1>2, <2>2, <3>2 DEF TableInv, Exists
        <4>2. proc[p].parent # next
          BY <1>1, <4>1 DEF Alive, Exists
        <4>3. QED BY <1>2, <3>2, <4>1, <4>2 DEF Alive
      <3>3. QED BY <3>1, <3>2
    <2>3. \A i \in Inits : Exists(i)' => proc'[i].parent = 1
      BY <1>1, <1>2 DEF TableInv, Exists
    <2>4. QED BY <2>1, <2>2, <2>3 DEF TableInv, Alive
  <1>5. \A p \in Pids : Exists(p)' => p = next \/ Exists(p)
    BY <1>2 DEF Exists
  <1>6. Inherits(proc, proc')
    <2>1. \A p \in Pids : Present(proc, p) => p # next
      BY <1>1 DEF Present, Exists
    <2>2. ASSUME NEW q \in Pids, Present(proc', q)
          PROVE  proc'[q].parent # next
      <3>1. CASE q = next
        BY <1>1, <1>2, <3>1
      <3>2. CASE q # next
        BY <1>1, <1>2, <2>2, <3>2 DEF TableInv, Present, Exists, Alive
      <3>3. QED BY <3>1, <3>2
    <2>3. QED BY <1>2, <1>5, <2>1, <2>2 DEF Inherits, Present, Exists
  <1>7. Alive(Desktop)' => Alive(Desktop)
    BY <1>1, <1>2 DEF Alive, Inits
  <1>8. next <= next' /\ next \in Nat
    BY <1>1 DEF TypeOK
  <1>9. \A p \in Pids : Exists(p)' /\ ~Exists(p) =>
           p >= next /\ p < next' /\ proc'[p].parent \in Pids /\ Exists(proc'[p].parent)
    BY <1>1, <1>2, <1>5, <1>8
  <1>10. QED BY <1>3, <1>4, <1>6, <1>7, <1>8, <1>9, KinOf

\* Reaping zombies takes nobody's parent away: zombies have no children.
LEMMA RemovalKin ==
    ASSUME TypeOK, TableInv, NEW gone \in SUBSET Pids, Removal(gone)
    PROVE  TableOK' /\ TableInv' /\ Kin
  <1> USE PidsAre
  <1>1. \A p \in Pids : proc'[p] = IF p \in gone THEN NoProcess ELSE proc[p]
    BY DEF Removal, Reaped
  <1>2. \A p \in Pids : Exists(p)' => p \notin gone /\ Exists(p) /\ proc'[p] = proc[p]
    BY <1>1 DEF Exists, NoProcess
  <1>3. \A p \in Pids : Alive(p) => p \notin gone /\ Alive(p)'
    BY <1>1 DEF Removal, Alive
  <1>4. TableOK'
    BY <1>1 DEF Removal, Reaped, TypeOK, TableOK, ProcessStates, NoProcess
  <1>5. next' = next /\ next \in Nat
    BY DEF Removal, TypeOK
  <1>6. TableInv'
    <2>1. ASSUME NEW p \in Pids, Exists(p)', proc'[p].parent # 1
          PROVE  proc'[p].parent \in Pids /\ proc'[proc'[p].parent].state = "run"
      <3>1. proc'[p].parent \in Pids /\ Alive(proc'[p].parent)
        BY <1>2, <2>1 DEF TableInv
      <3>2. QED BY <1>3, <3>1 DEF Alive
    <2>2. QED BY <1>2, <1>5, <2>1 DEF TableInv, Alive
  <1>7. Inherits(proc, proc')
    BY <1>2 DEF Inherits, Present, Exists
  <1>8. Alive(Desktop)' => Alive(Desktop)
    BY <1>1 DEF Alive, NoProcess
  <1>9. QED BY <1>2, <1>4, <1>5, <1>6, <1>7, <1>8, KinOf

\* The children of the dead go to a live init above them, or to PID 1.
LEMMA Adoption ==
    ASSUME TypeOK, TableInv, NEW dead \in SUBSET Pids, NEW p \in Pids, Exists(p),
           proc[p].parent \in dead
    PROVE  /\ Adopter(p, dead) \in {1} \cup (Inits \ dead)
           /\ Adopter(p, dead) # 1 => Alive(Adopter(p, dead)) /\ Adopter(p, dead) # p
           /\ p # Desktop /\ Desktop \notin dead /\ Alive(Desktop) =>
                 IF Resident(p) THEN Adopter(p, dead) = Desktop
                 ELSE ~Resident(Adopter(p, dead))
  <1> USE PidsAre
  <1> DEFINE near == {i \in Inits \ dead : Alive(i) /\ p # i /\ Beneath(p, i)}
  <1>1. Adopter(p, dead) = IF near # {} THEN Max(near) ELSE 1
    BY DEF Adopter
  <1>2. near \subseteq {2, 3}
    BY DEF Inits, Desktop, Runner
  <1>3. near # {} => Max(near) \in near
    BY <1>2 DEF Max
  <1>4. ASSUME p # Desktop, Desktop \notin dead, Alive(Desktop), Resident(p)
        PROVE  Adopter(p, dead) = Desktop
    <2>1. Desktop \in near
      BY <1>4 DEF Resident, Inits
    <2>2. Runner \notin near
      <3>1. ~Under(proc, p, Runner)
        BY <1>4, FamiliesDisjoint, TableInvSound, ResidentIsUnder
      <3>2. QED BY <3>1, BeneathIsUnder
    <2>3. near = {Desktop}
      BY <2>1, <2>2 DEF Inits
    <2>4. QED BY <1>1, <1>3, <2>3
  <1>5. ASSUME p # Desktop, Desktop \notin dead, Alive(Desktop), ~Resident(p)
        PROVE  ~Resident(Adopter(p, dead))
    <2>1. Desktop \notin near
      BY <1>5 DEF Resident
    <2>2. Adopter(p, dead) \in {1, Runner}
      BY <1>1, <1>3, <2>1 DEF Inits
    <2>3. ~Resident(1)
      BY UnderStep, ResidentIsUnder
    <2>4. ~Resident(Runner)
      <3>1. proc[Runner].parent = 1 \/ ~Present(proc, Runner)
        BY DEF TableInv, Present, Exists, Inits
      <3>2. ~Under(proc, 1, Desktop)
        BY UnderStep
      <3>3. QED BY <3>1, <3>2, UnderStep, ResidentIsUnder
    <2>5. QED BY <2>2, <2>3, <2>4
  <1>6. QED BY <1>1, <1>3, <1>4, <1>5

\* The orphans of the dead stay in a living desktop's family, or outside it.
LEMMA DeathKin ==
    ASSUME TypeOK, TableInv, NEW dead \in SUBSET Pids, Death(dead)
    PROVE  TableOK' /\ TableInv' /\ Kin
  <1> USE PidsAre
  <1>1. \A p \in Pids : ~Exists(p) => proc'[p] = proc[p]
    BY DEF Death, Die
  <1>2. \A p \in Pids : Exists(p) =>
           /\ proc'[p].state = IF p \in dead THEN "zombie" ELSE proc[p].state
           /\ proc'[p].parent = Adopter(p, dead)
    BY DEF Death, Die
  <1>3. \A p \in Pids : Exists(p)' <=> Exists(p)
    BY <1>1, <1>2 DEF Exists
  <1>4. \A p \in Pids : Alive(p)' <=> Alive(p) /\ p \notin dead
    <2>1. \A p \in Pids : Alive(p) => Exists(p)
      BY DEF Alive, Exists
    <2>2. QED BY <1>1, <1>2, <2>1 DEF Alive, Exists
  <1>5. \A p \in Pids : Exists(p) /\ proc[p].parent \notin dead => Adopter(p, dead) = proc[p].parent
    BY DEF Adopter
  <1>6. \A p \in Pids : Exists(p) => Adopter(p, dead) \in 0 .. MaxPid
    <2>1. 1 \in 0 .. MaxPid /\ Inits \subseteq 0 .. MaxPid
      OBVIOUS
    <2>2. \A p \in Pids : proc[p].parent \in 0 .. MaxPid
      BY DEF TypeOK
    <2>3. \A p \in Pids : Exists(p) /\ proc[p].parent \in dead => Adopter(p, dead) \in {1} \cup Inits
      BY Adoption
    <2>4. QED BY <1>5, <2>1, <2>2, <2>3
  <1>7. TableOK'
    <2>1. proc' = Die(dead) /\ next' = next
      BY DEF Death
    <2>2. ASSUME NEW p \in Pids
          PROVE  Die(dead)[p] \in [state : ProcessStates, parent : 0 .. MaxPid]
      <3>1. CASE ~Exists(p)
        BY <3>1 DEF Die, TypeOK
      <3>2. CASE Exists(p)
        BY <1>6, <3>2 DEF Die, TypeOK, ProcessStates
      <3>3. QED BY <3>1, <3>2
    <2>3. Die(dead) \in [Pids -> [state : ProcessStates, parent : 0 .. MaxPid]]
      BY <2>2 DEF Die
    <2>4. QED BY <2>1, <2>3 DEF TableOK, TypeOK
  <1>8. next' = next /\ next \in Nat
    BY DEF Death, TypeOK
  <1>9. TableInv'
    <2>1. ASSUME NEW p \in Pids, Exists(p)', proc'[p].parent # 1
          PROVE  proc'[p].parent \in Pids /\ proc'[proc'[p].parent].state = "run"
      <3>1. Exists(p) /\ proc'[p].parent = Adopter(p, dead)
        BY <1>2, <1>3, <2>1
      <3>2. CASE proc[p].parent \in dead
        <4>1. PICK f \in Pids : f = proc'[p].parent /\ f \notin dead /\ Alive(f)
          BY <2>1, <3>1, <3>2, Adoption
        <4>2. Alive(f)'
          BY <1>4, <4>1
        <4>3. QED BY <4>1, <4>2 DEF Alive
      <3>3. CASE proc[p].parent \notin dead
        BY <1>4, <1>5, <2>1, <3>1, <3>3 DEF TableInv, Alive
      <3>4. QED BY <3>2, <3>3
    <2>2. \A i \in Inits : Exists(i)' => proc'[i].parent = 1
      BY <1>2, <1>3, <1>5 DEF TableInv
    <2>3. QED BY <1>3, <1>8, <2>1, <2>2 DEF TableInv, Alive
  <1>10. Alive(Desktop)' => Alive(Desktop) /\ Desktop \notin dead
    BY <1>4
  <1>11. ASSUME Alive(Desktop)'
         PROVE  Inherits(proc, proc')
    <2>1. ASSUME NEW p \in Pids, Exists(p), p # Desktop
          PROVE  \/ proc'[p].parent = proc[p].parent
                 \/ Resident(p) /\ proc'[p].parent = Desktop
                 \/ ~Resident(p) /\ ~Resident(proc'[p].parent)
      BY <1>2, <1>5, <1>10, <1>11, <2>1, Adoption
    <2>2. QED BY <1>3, <2>1, ResidentIsUnder DEF Inherits, Present, Exists
  <1>12. CASE Alive(Desktop)'
    BY <1>3, <1>7, <1>8, <1>9, <1>10, <1>11, <1>12, KinOf
  <1>13. CASE ~Alive(Desktop)'
    BY <1>3, <1>7, <1>8, <1>9, <1>13 DEF Kin
  <1>14. QED BY <1>12, <1>13

\* Every step keeps the table sound and everybody on their side.
LEMMA TableNext == TypeOK /\ TableInv /\ FenceInv /\ Next => TableOK' /\ TableInv' /\ Kin
  BY StepsOfTheTable, QuietKin, BirthKin, DeathKin, RemovalKin DEF TableStep
-----------------------------------------------------------------------------
(* Types, and what the fence read                                          *)

\* A set of numbers that is not empty has a least one.
LEMMA LeastNumber ==
    ASSUME NEW S, S \subseteq Nat, S # {}
    PROVE  Min(S) \in S /\ \A y \in S : Min(S) <= y
  <1> DEFINE R == OpToRel(<, Nat)
  <1>1. IsWellFoundedOn(R, Nat)
    BY NatLessThanWellFounded
  <1>2. \A x, y \in Nat : y < x => <<y, x>> \in R
    BY DEF OpToRel
  <1> HIDE DEF R
  <1>3. PICK x \in S : \A y \in S : ~ (<<y, x>> \in R)
    BY <1>1, WFMin
  <1>4. \A y \in S : ~(y < x)
    BY <1>2, <1>3
  <1>5. \A y \in S : y \in Nat /\ x \in Nat
    OBVIOUS
  <1>6. \E e \in S : \A y \in S : e <= y
    BY <1>3, <1>4, <1>5
  <1>7. QED BY <1>6 DEF Min

\* The fence goes on with the lowest entry it has not looked at.
LEMMA EntryIsNext ==
    ASSUME TypeOK, Rest # {}
    PROVE  Entry \in fence.listed /\ Entry >= fence.at /\ Entry \in Pids /\ \A l \in Rest : Entry <= l
  <1>1. Rest \subseteq Pids /\ Pids \subseteq Nat
    BY PidsAre DEF Rest, TypeOK, Fences
  <1>2. QED BY <1>1, LeastNumber DEF Rest, Entry

\* A fence as it begins, ends or fails is well typed.
LEMMA FenceIsTyped ==
    ASSUME NEW mode \in {"none", "turn", "all"}, NEW phase \in Phases, NEW late \in BOOLEAN
    PROVE  Fence(mode, phase, late) \in Fences
  BY DEF Fence, Fences

\* What a fence has read after a step, whatever the step.
FenceTyped == fence' \in Fences /\ FenceInv'

\* Every step of a fence keeps its types and reads processes that are there.
LEMMA FenceType ==
    ASSUME TypeOK, TableInv, FenceInv, TableOK', Kin, Next
    PROVE  fence' \in Fences /\ FenceInv'
  <1> USE PidsAre
  <1>1. next <= next' /\ next \in Nat /\ next' \in Nat
    BY DEF Kin, TypeOK, TableOK
  <1>2. ASSUME NEW mode \in {"turn", "all"},
               NEW phase \in {"check", "list", "failed", "stopped"}, NEW late \in BOOLEAN,
               fence' = Fence(mode, phase, late)
        PROVE  FenceTyped
    <2>1. fence' \in Fences
      BY <1>2, FenceIsTyped DEF Phases
    <2>2. FenceInv'
      BY <1>2 DEF Fence, FenceInv
    <2>3. QED BY <2>1, <2>2 DEF FenceTyped
  <1>3. ASSUME UNCHANGED fence
        PROVE  FenceTyped
    BY <1>1, <1>3 DEF FenceTyped, FenceInv, TypeOK, Fences
  <1>4. ASSUME Deadline \/ KillAll
        PROVE  FenceTyped
    <2>1. fence' \in Fences
      BY <1>4 DEF Deadline, KillAll, TypeOK, Fences, Phases
    <2>2. FenceInv'
      BY <1>1, <1>4 DEF Deadline, KillAll, FenceInv, TypeOK, Fences
    <2>3. QED BY <2>1, <2>2 DEF FenceTyped
  <1>5. ASSUME List
        PROVE  FenceTyped
    <2>1. fence \in Fences /\ fence.at + 1 \in Nat \ {0, 1} /\ 2 \in Nat \ {0, 1}
         /\ "observe" \in Phases /\ "count" \in Phases
      BY DEF TypeOK, Fences, Phases
    <2>2. fence.at <= MaxPid => fence.at \in Pids
      BY <2>1 DEF Fences, Pids
    <2>3. fence' \in Fences
      <3>1. CASE fence.at <= MaxPid /\ Exists(fence.at)
        BY <1>5, <2>1, <2>2, <3>1 DEF List, Fences
      <3>2. CASE fence.at <= MaxPid /\ ~Exists(fence.at)
        BY <1>5, <2>1, <3>2 DEF List, Fences
      <3>3. CASE ~(fence.at <= MaxPid)
        BY <1>5, <2>1, <3>3 DEF List, Fences
      <3>4. QED BY <3>1, <3>2, <3>3
    <2>4. FenceInv'
      BY <1>1, <1>5, <2>2 DEF List, FenceInv, TypeOK, Fences, TableInv
    <2>5. QED BY <2>3, <2>4 DEF FenceTyped
  <1>6. ASSUME Observe
        PROVE  FenceTyped
    <2>1. fence \in Fences /\ fence.at + 1 \in Nat \ {0, 1} /\ {"trace", "reap", "signal"} \subseteq Phases
         /\ 2 \in Nat \ {0, 1}
      BY DEF TypeOK, Fences, Phases
    <2>2. fence' \in Fences
      <3>1. CASE Rest = {}
        BY <1>6, <2>1, <3>1 DEF Observe, Fences
      <3>2. CASE Rest # {} /\ ~Exists(Entry)
        BY <1>6, <2>1, <3>2 DEF Observe, Fences
      <3>3. CASE Rest # {} /\ Exists(Entry)
        <4>1. Entry \in Pids /\ Entry + 1 \in Nat \ {0, 1}
          BY <3>3, EntryIsNext DEF Pids
        <4>2. CASE Orphaned(Entry)
          BY <1>6, <2>1, <3>3, <4>1, <4>2 DEF Observe, Fences
        <4>3. CASE ~Orphaned(Entry)
          BY <1>6, <2>1, <3>3, <4>1, <4>3 DEF Observe, Fences
        <4>4. QED BY <4>2, <4>3
      <3>4. QED BY <3>1, <3>2, <3>3
    <2>3. FenceInv'
      BY <1>1, <1>6, EntryIsNext DEF Observe, FenceStep, FenceInv, TypeOK, Fences
    <2>4. QED BY <2>2, <2>3 DEF FenceTyped
  <1>7. ASSUME BeginTrace
        PROVE  FenceTyped
    <2>1. fence' \in Fences
      BY <1>7, EntryIsNext DEF BeginTrace, FenceStep, TypeOK, Fences, Phases
    <2>2. FenceInv'
      BY <1>1, <1>7, EntryIsNext DEF BeginTrace, FenceStep, FenceInv, TypeOK, Fences
    <2>3. QED BY <2>1, <2>2 DEF FenceTyped
  <1>8. ASSUME Trace
        PROVE  FenceTyped
    <2>1. fence \in Fences /\ fence.at + 1 \in Nat \ {0, 1} /\ {"trace", "reap", "signal"} \subseteq Phases
      BY DEF TypeOK, Fences, Phases
    <2>2. fence' \in Fences
      <3>1. fence.walk \in Pids /\ proc[fence.walk].parent \in Nat
        BY <1>8 DEF Trace, FenceInv, TypeOK
      <3>2. CASE ~Exists(fence.walk)
        BY <1>8, <2>1, <3>2 DEF Trace, Fences
      <3>3. CASE Exists(fence.walk) /\ fence.walk = Desktop
        BY <1>8, <2>1, <3>3 DEF Trace, Fences
      <3>4. CASE Exists(fence.walk) /\ fence.walk # Desktop
        BY <1>8, <2>1, <3>1, <3>4 DEF Trace, Fences
      <3>5. QED BY <3>2, <3>3, <3>4
    <2>3. FenceInv'
      BY <1>1, <1>8 DEF Trace, FenceStep, FenceInv, TypeOK, Fences, TableInv, Alive, Exists
    <2>4. QED BY <2>2, <2>3 DEF FenceTyped
  <1>9. ASSUME Signal
        PROVE  FenceTyped
    <2>1. fence \in Fences /\ fence.at + 1 \in Nat \ {0, 1} /\ {"trace", "reap", "signal"} \subseteq Phases
      BY DEF TypeOK, Fences, Phases
    <2>2. fence' \in Fences
      BY <1>9, <2>1 DEF Signal, FenceStep, Fences
    <2>3. FenceInv'
      BY <1>1, <1>9 DEF Signal, FenceStep, FenceInv, TypeOK, Fences
    <2>4. QED BY <2>2, <2>3 DEF FenceTyped
  <1>10. ASSUME StopTaskProcesses \/ CheckDesktop \/ Reap \/ StopWriters \/ ReapAll \/ FenceFails
         PROVE  FenceTyped
    <2>1. fence.late \in BOOLEAN /\ fence.mode \in {"none", "turn", "all"}
          /\ (fence.phase # "idle" => fence.mode # "none")
      BY DEF TypeOK, Fences, FenceInv
    <2>2. \E mode \in {"turn", "all"}, phase \in {"check", "list", "failed", "stopped"},
             late \in BOOLEAN : fence' = Fence(mode, phase, late)
      BY <1>10, <2>1 DEF StopTaskProcesses, CheckDesktop, Reap, StopWriters, ReapAll, FenceFails
    <2>3. QED BY <1>2, <2>2
  <1>11. ASSUME Count
         PROVE  FenceTyped
    BY <1>1, <1>2, <1>11 DEF Count, TypeOK, Fences
  <1>12. ASSUME Processes \/ ServeLaunch
         PROVE  UNCHANGED fence
    BY <1>12 DEF Processes, ServeLaunch, Fork, Exit, ParentReaps, LaunchRequest, InitExits, CmdWait
  <1>13. QED
    BY <1>3, <1>4, <1>5, <1>6, <1>7, <1>8, <1>9, <1>10, <1>11, <1>12
    DEF Next, StopTask, StopAll, FenceTyped

\* Types, the table and what was read of it are kept by every step.
LEMMA TypeStep == TypeOK /\ TableInv /\ FenceInv /\ [Next]_vars => TypeOK' /\ TableInv' /\ FenceInv'
<1>1. TypeOK /\ TableInv /\ FenceInv /\ Next => TypeOK' /\ TableInv' /\ FenceInv'
  <2>1. ASSUME TypeOK, Next
        PROVE  reaped' \subseteq Inits /\ turn' \in BOOLEAN /\ launch' \in {0} \cup Pids
    BY <2>1 DEF TypeOK, Next, Processes, ServeLaunch, Fork, Exit, ParentReaps, LaunchRequest, InitExits,
                CmdWait, StopTask, StopAll, StopTaskProcesses, CheckDesktop, Observe, BeginTrace, Trace,
                Signal, Reap, StopWriters, KillAll, ReapAll, Count, List, Deadline, FenceFails, Kernel
  <2>2. QED BY <2>1, TableNext, FenceType DEF TypeOK, TableOK
<1>2. TypeOK /\ TableInv /\ FenceInv /\ UNCHANGED vars => TypeOK' /\ TableInv' /\ FenceInv'
  BY DEF TypeOK, TableInv, FenceInv, vars, Exists, Alive
<1>3. QED BY <1>1, <1>2
-----------------------------------------------------------------------------
(* What the fence knows survives what the processes do                     *)

\* A process is of the desktop if it is the desktop or its parent is.
LEMMA ResidentStep ==
    ASSUME NEW p
    PROVE  Resident(p) <=> p \in Pids /\ Exists(p) /\ (p = Desktop \/ Resident(proc[p].parent))
  BY UnderStep, ResidentIsUnder DEF Present, Exists

\* Who is of the desktop exists.
LEMMA ResidentExists ==
    ASSUME NEW p
    PROVE  (Resident(p) => Exists(p)) /\ (Resident(p)' => Exists(p)')
  BY UnderStep, ResidentIsUnder DEF Present, Exists

\* Nobody who was there before is on another side after.
LEMMA SidesKept ==
    ASSUME Kin, TypeOK, NEW p \in Pids, p < next
    PROVE  /\ Exists(p)' => Exists(p)
           /\ Alive(Desktop)' => (Resident(p)' => Resident(p))
           /\ Alive(Desktop)' => (Exists(p)' /\ Resident(p) => Resident(p)')
  <1>1. Exists(p)' => Exists(p)
    BY PidsAre DEF Kin, TypeOK
  <1>2. QED BY <1>1, ResidentExists DEF Kin

\* The processes and launches of the Pod leave what the fence knows true.
KnownInv == WalkInv /\ TurnInv /\ FinalInv /\ StoppedInv /\ SignalInv

\* A walk goes on answering for its process whatever the others do.
LEMMA WalkKept ==
    ASSUME TypeOK, FenceInv, Kin, WalkInv, fence' = fence
    PROVE  WalkInv'
  <1> SUFFICES ASSUME fence.walk # 0, Alive(Desktop)'
               PROVE  /\ Resident(fence.at)' /\ Exists(fence.walk)' => Resident(fence.walk)'
                      /\ Exists(fence.at)' /\ Resident(fence.walk)' => Resident(fence.at)'
    BY DEF WalkInv
  <1>1. PICK at \in Pids, walk \in Pids :
           at = fence.at /\ walk = fence.walk /\ at < next /\ walk < next
    BY DEF FenceInv, TypeOK, Fences
  <1>2. Alive(Desktop)
    BY DEF Kin
  <1>3. (Resident(at) /\ Exists(walk) => Resident(walk)) /\ (Exists(at) /\ Resident(walk) => Resident(at))
    BY <1>1, <1>2 DEF WalkInv
  <1>4. /\ Resident(at)' /\ Exists(walk)' => Resident(walk)'
        /\ Exists(at)' /\ Resident(walk)' => Resident(at)'
    BY <1>1, <1>3, SidesKept, ResidentExists
  <1>5. fence'.at = at /\ fence'.walk = walk
    BY <1>1
  <1>6. QED BY <1>1, <1>4, <1>5 DEF Resident, Beneath, Exists

\* Who tells goes on telling: an outsider's side never changes.
LEMMA TellingKept ==
    ASSUME TypeOK, FenceInv, Kin, fence' = fence, Alive(Desktop)', NEW l \in Pids, Telling(l)
    PROVE  Telling(l)'
  <1>1. CASE fence.walk # 0 /\ l = fence.at
    <2>1. PICK walk \in Pids : walk = fence.walk /\ walk < next
      BY <1>1 DEF FenceInv
    <2>2. ~Resident(walk)'
      BY <1>1, <2>1, SidesKept DEF Telling
    <2>3. QED BY <1>1, <2>1, <2>2 DEF Telling, Resident, Beneath, Exists
  <1>2. CASE ~(fence.walk # 0 /\ l = fence.at)
    <2>1. l < next /\ ~Resident(l)
      BY <1>2 DEF Telling, FenceInv
    <2>2. ~Resident(l)'
      BY <2>1, SidesKept
    <2>3. QED BY <1>2, <2>2 DEF Telling
  <1>3. QED BY <1>1, <1>2

\* An outsider the fence passed is unlisted for a reason that tells, or tells.
LEMMA OutsiderTells ==
    ASSUME TypeOK, FenceInv, WalkInv, TurnInv, Alive(Desktop), ~fence.remaining, ~fence.uncertain,
           fence.mode = "turn", fence.phase \in {"list", "observe", "trace", "reap"},
           NEW f \in Pids, Passed(f), ~Resident(f)
    PROVE  \E l \in Pids : Telling(l)
  <1>1. CASE f \notin fence.listed
    BY <1>1 DEF TurnInv
  <1>2. CASE f \in fence.listed
    <2>1. fence.phase \in {"trace", "reap"} => f >= fence.at
      BY <1>2, PidsAre DEF TurnInv, Passed, TypeOK, Fences
    <2>2. fence.walk # 0 /\ f = fence.at => ~Resident(fence.walk)
      BY DEF WalkInv, Passed
    <2>3. Telling(f)
      BY <1>2, <2>1, <2>2 DEF Telling
    <2>4. QED BY <2>3
  <1>3. QED BY <1>1, <1>2

\* A newborn has a parent that was there, on its side of the desktop.
LEMMA NewbornHasParent ==
    ASSUME TypeOK, TableInv, Kin, NEW p \in Pids, Exists(p)', ~Exists(p)
    PROVE  \E f \in Pids : f < p /\ Exists(f) /\ (Alive(Desktop)' => (Resident(p)' <=> Resident(f)))
  BY PidsAre DEF Kin, TableInv, TypeOK

\* An outsider born since its number was passed has an outsider for a parent,
\* which tells or was missed in its turn.
LEMMA TurnKept ==
    ASSUME TypeOK, TableInv, FenceInv, Kin, WalkInv, TurnInv, fence' = fence
    PROVE  TurnInv'
  <1> SUFFICES ASSUME fence.mode = "turn", fence.phase \in {"list", "observe", "trace", "reap"},
                      Alive(Desktop)', ~fence.remaining, ~fence.uncertain
               PROVE  /\ \A p \in Pids \ fence.listed :
                            Passed(p)' /\ ~Resident(p)' => \E l \in Pids : Telling(l)'
                      /\ fence.phase \in {"trace", "reap"} =>
                            \A l \in fence.listed : l < fence.at /\ Exists(l)' => Resident(l)'
                      /\ fence.phase = "reap" => \A l \in fence.listed : l < fence.at
    BY DEF TurnInv
  <1>1. Alive(Desktop) /\ fence.at \in Nat /\ fence.listed \subseteq Pids
    BY DEF Kin, TypeOK, Fences
  <1>2. ASSUME NEW p \in Pids \ fence.listed, Passed(p)', ~Resident(p)'
        PROVE  \E l \in Pids : Telling(l)'
    <2>1. \E f \in Pids : Passed(f) /\ ~Resident(f)
      <3>1. CASE Exists(p)
        BY <1>2, <3>1 DEF Passed, Kin
      <3>2. CASE ~Exists(p)
        <4>1. PICK f \in Pids : f < p /\ Exists(f) /\ (Resident(p)' <=> Resident(f))
          BY <1>2, <3>2, NewbornHasParent DEF Passed
        <4>2. Passed(f)
          BY <1>1, <1>2, <4>1, PidsAre DEF Passed
        <4>3. QED BY <1>2, <4>1, <4>2
      <3>3. QED BY <3>1, <3>2
    <2>2. PICK l \in Pids : Telling(l)
      BY <1>1, <2>1, OutsiderTells
    <2>3. QED BY <2>2, TellingKept
  <1>3. ASSUME fence.phase \in {"trace", "reap"}, NEW l \in fence.listed, l < fence.at, Exists(l)'
        PROVE  Resident(l)'
    <2>1. l \in Pids /\ l < next
      BY <1>1 DEF FenceInv
    <2>2. Exists(l) /\ Resident(l)
      BY <1>1, <1>3, <2>1, SidesKept DEF TurnInv
    <2>3. QED BY <1>3, <2>1, <2>2, SidesKept
  <1>4. fence.phase = "reap" => \A l \in fence.listed : l < fence.at
    BY <1>1 DEF TurnInv
  <1>5. QED BY <1>2, <1>3, <1>4

\* What the fence knows is kept by forks, exits, adoptions, reaping and launches.
LEMMA KnownKept ==
    ASSUME TypeOK, TableInv, FenceInv, Kin, KnownInv, fence' = fence, launch' \in {0, launch} \/ fence.mode # "all"
    PROVE  KnownInv'
  <1>1. WalkInv' /\ TurnInv'
    BY WalkKept, TurnKept DEF KnownInv
  <1>2. FinalInv'
    <2>1. ASSUME fence.mode = "all", fence.phase \in {"list", "count"}, NEW p \in Pids, Passed(p)'
          PROVE  fence.listed # {}
      <3>1. CASE Exists(p)
        BY <2>1, <3>1 DEF KnownInv, FinalInv, Passed
      <3>2. CASE ~Exists(p)
        <4>1. PICK f \in Pids : f < p /\ Exists(f)
          BY <2>1, <3>2, NewbornHasParent DEF Passed
        <4>2. Passed(f)
          BY <2>1, <4>1, PidsAre DEF Passed, TypeOK, Fences
        <4>3. QED BY <2>1, <4>2 DEF KnownInv, FinalInv
      <3>3. QED BY <3>1, <3>2
    <2>2. QED BY <2>1 DEF KnownInv, FinalInv
  <1>3. StoppedInv'
    <2>1. ASSUME fence.phase = "stopped", NEW p \in Pids, Exists(p)'
          PROVE  fence.mode = "turn" /\ (Alive(Desktop)' => Resident(p)')
      <3>1. CASE Exists(p)
        BY <2>1, <3>1 DEF KnownInv, StoppedInv, Kin
      <3>2. CASE ~Exists(p)
        <4>1. PICK f \in Pids : Exists(f) /\ (Alive(Desktop)' => (Resident(p)' <=> Resident(f)))
          BY <2>1, <3>2, NewbornHasParent
        <4>2. QED BY <2>1, <4>1 DEF KnownInv, StoppedInv, Kin
      <3>3. QED BY <3>1, <3>2
    <2>2. QED BY <2>1 DEF StoppedInv
  <1>4. SignalInv'
    <2>1. ASSUME fence.phase = "signal", Alive(Desktop)'
          PROVE  ~Resident(fence.at)'
      <3>1. PICK at \in Pids : at = fence.at /\ at < next
        BY <2>1 DEF FenceInv, TypeOK, Fences
      <3>2. ~Resident(at)'
        BY <2>1, <3>1, SidesKept DEF KnownInv, SignalInv, Kin
      <3>3. QED BY <3>1, <3>2 DEF Resident, Beneath, Exists
    <2>2. QED BY <2>1 DEF SignalInv
  <1>5. QED BY <1>1, <1>2, <1>3, <1>4 DEF KnownInv
-----------------------------------------------------------------------------
(* The steps of the fences                                                 *)

\* Reading changes no process.
LEMMA ReadingChangesNobody ==
    ASSUME UNCHANGED Kernel
    PROVE  \A p : /\ Exists(p)' <=> Exists(p)
                  /\ Alive(p)' <=> Alive(p)
                  /\ Resident(p)' <=> Resident(p)
  BY DEF Kernel, Resident, Beneath, Exists, Alive

\* A pass that begins knows nothing yet.
LEMMA FreshPass ==
    ASSUME NEW mode, NEW phase \in {"check", "list", "failed"}, NEW late,
           fence' = Fence(mode, phase, late), mode = "all" => launch' = 0
    PROVE  KnownInv'
  <1>1. /\ fence'.mode = mode /\ fence'.phase = phase /\ fence'.at = 2 /\ fence'.walk = 0
        /\ fence'.listed = {}
    BY DEF Fence
  <1>2. \A p \in Pids : ~(p < 2)
    BY PidsAre
  <1>3. TurnInv'
    BY <1>1, <1>2 DEF TurnInv, Passed
  <1>4. FinalInv'
    BY <1>1, <1>2 DEF FinalInv, Passed
  <1>5. WalkInv' /\ StoppedInv' /\ SignalInv'
    BY <1>1 DEF WalkInv, StoppedInv, SignalInv
  <1>6. QED BY <1>3, <1>4, <1>5 DEF KnownInv

\* The deadline only makes a fence more doubtful.
LEMMA DeadlineKnown ==
    ASSUME TypeOK, KnownInv, Deadline
    PROVE  KnownInv'
  <1>1. \A p : (Exists(p)' <=> Exists(p)) /\ (Alive(p)' <=> Alive(p)) /\ (Resident(p)' <=> Resident(p))
    BY ReadingChangesNobody DEF Deadline, Kernel
  <1>2. /\ fence'.mode = fence.mode /\ fence'.phase = fence.phase /\ fence'.at = fence.at
        /\ fence'.walk = fence.walk /\ fence'.listed = fence.listed
        /\ fence'.remaining = fence.remaining /\ fence'.uncertain = fence.uncertain
    BY DEF Deadline, TypeOK, Fences
  <1>3. \A p : Passed(p)' <=> Passed(p)
    BY <1>1, <1>2 DEF Passed
  <1>4. Resident(fence.walk)' <=> Resident(fence.walk)
    BY <1>2 DEF Deadline, Resident, Beneath, Exists
  <1>5. Resident(fence.at)' <=> Resident(fence.at)
    BY <1>2 DEF Deadline, Resident, Beneath, Exists
  <1>6. (Exists(fence.at)' <=> Exists(fence.at)) /\ (Exists(fence.walk)' <=> Exists(fence.walk))
    BY <1>2 DEF Deadline, Exists
  <1>7. \A l : Telling(l)' <=> Telling(l)
    BY <1>1, <1>2, <1>4 DEF Telling
  <1>8. WalkInv' /\ SignalInv'
    BY <1>1, <1>2, <1>4, <1>5, <1>6 DEF KnownInv, WalkInv, SignalInv
  <1>9. TurnInv'
    BY <1>1, <1>2, <1>3, <1>7 DEF KnownInv, TurnInv
  <1>10. FinalInv' /\ StoppedInv'
    BY <1>1, <1>2, <1>3 DEF KnownInv, FinalInv, StoppedInv, Deadline
  <1>11. QED BY <1>8, <1>9, <1>10 DEF KnownInv

\* An entry that exists is listed; one that does not cannot be missed.
LEMMA ListKnown ==
    ASSUME TypeOK, FenceInv, KnownInv, List
    PROVE  KnownInv'
  <1>1. \A p : (Exists(p)' <=> Exists(p)) /\ (Alive(p)' <=> Alive(p)) /\ (Resident(p)' <=> Resident(p))
    BY ReadingChangesNobody DEF List
  <1>2. /\ fence'.mode = fence.mode /\ fence'.walk = 0 /\ fence.walk = 0 /\ fence.at \in Nat
        /\ fence'.phase \in {"list", "observe", "count"} /\ launch' = launch /\ fence.phase = "list"
        /\ fence'.remaining = fence.remaining /\ fence'.uncertain = fence.uncertain
        /\ fence.listed \subseteq fence'.listed /\ fence'.listed \subseteq Pids
    <2>1. fence.phase = "list" /\ fence.walk = 0 /\ fence.at \in Nat \ {0, 1} /\ launch' = launch
      BY DEF List, Kernel, FenceInv, TypeOK, Fences
    <2>2. CASE fence.at <= MaxPid /\ Exists(fence.at)
      BY <2>1, <2>2 DEF List, TypeOK, Fences, Pids
    <2>3. CASE fence.at <= MaxPid /\ ~Exists(fence.at)
      BY <2>1, <2>3 DEF List, TypeOK, Fences
    <2>4. CASE ~(fence.at <= MaxPid)
      BY <2>1, <2>4 DEF List, TypeOK, Fences
    <2>5. QED BY <2>2, <2>3, <2>4
  <1>3. ASSUME NEW p \in Pids, Passed(p)', p \notin fence'.listed
        PROVE  Passed(p)
    <2>1. CASE fence.at <= MaxPid
      <3>1. fence'.phase = "list" /\ fence'.at = fence.at + 1
            /\ (Exists(fence.at) => fence.at \in fence'.listed)
        BY <1>2, <2>1 DEF List, TypeOK, Fences
      <3>2. p < fence.at + 1 /\ Exists(p) /\ p # fence.at
        BY <1>1, <1>3, <3>1 DEF Passed
      <3>3. QED BY <1>2, <3>2, PidsAre DEF Passed
    <2>2. CASE ~(fence.at <= MaxPid)
      BY <1>1, <1>2, <1>3, <2>2, PidsAre DEF Passed
    <2>3. QED BY <2>1, <2>2
  <1>4. \A l : Telling(l) => Telling(l)'
    BY <1>1, <1>2 DEF Telling
  <1>5. TurnInv'
    BY <1>1, <1>2, <1>3, <1>4 DEF KnownInv, TurnInv
  <1>6. FinalInv'
    <2>1. ASSUME fence.mode = "all", NEW p \in Pids, Passed(p)'
          PROVE  fence'.listed # {}
      BY <1>2, <1>3, <2>1 DEF KnownInv, FinalInv
    <2>2. QED BY <1>2, <2>1 DEF KnownInv, FinalInv
  <1>7. WalkInv' /\ StoppedInv' /\ SignalInv'
    BY <1>2 DEF WalkInv, StoppedInv, SignalInv
  <1>8. QED BY <1>5, <1>6, <1>7 DEF KnownInv

\* A pass over the list ends with every entry seen, or uncertain.
LEMMA ObserveKnown ==
    ASSUME TypeOK, FenceInv, KnownInv, Observe
    PROVE  KnownInv'
  <1>1. \A p : (Exists(p)' <=> Exists(p)) /\ (Alive(p)' <=> Alive(p)) /\ (Resident(p)' <=> Resident(p))
    BY ReadingChangesNobody DEF Observe
  <1>2. fence.phase = "observe" /\ fence.mode = "turn" /\ fence.walk = 0 /\ fence.listed \subseteq Pids
    BY DEF Observe, FenceStep, FenceInv, TypeOK, Fences
  <1>3. fence'.mode = "turn" /\ fence'.walk = 0 /\ fence'.phase \in {"observe", "trace", "reap"}
    BY <1>2 DEF Observe, TypeOK, Fences
  <1>4. fence'.uncertain = FALSE =>
           /\ fence'.listed = fence.listed /\ fence'.remaining = fence.remaining
           /\ fence.uncertain = FALSE
           /\ fence'.phase \in {"observe", "trace"}
           /\ fence'.phase = "trace" => fence'.at = 2
    BY <1>2 DEF Observe, TypeOK, Fences
  <1>5. \A l : Telling(l) /\ fence'.uncertain = FALSE => Telling(l)'
    BY <1>1, <1>2, <1>3, <1>4, PidsAre DEF Telling
  <1>6. \A p : Passed(p)' => Passed(p)
    BY <1>1, <1>2 DEF Passed
  <1>7. fence'.uncertain \in BOOLEAN
    BY DEF Observe, TypeOK, Fences
  <1>8. TurnInv'
    <2>1. CASE fence'.uncertain
      BY <2>1 DEF TurnInv
    <2>2. CASE ~fence'.uncertain
      <3>1. /\ fence'.listed = fence.listed /\ fence'.remaining = fence.remaining
            /\ ~fence.uncertain /\ fence'.phase \in {"observe", "trace"}
            /\ fence'.phase = "trace" => fence'.at = 2
        BY <1>4, <1>7, <2>2
      <3>2. \A l : Telling(l) => Telling(l)'
        BY <1>5, <1>7, <2>2
      <3>3. \A l \in fence.listed : ~(l < 2)
        BY <1>2 DEF Pids
      <3>4. QED BY <1>1, <1>2, <1>3, <1>6, <3>1, <3>2, <3>3 DEF KnownInv, TurnInv
    <2>3. QED BY <2>1, <2>2
  <1>9. WalkInv' /\ StoppedInv' /\ SignalInv' /\ FinalInv'
    BY <1>3 DEF WalkInv, StoppedInv, SignalInv, FinalInv
  <1>10. QED BY <1>8, <1>9 DEF KnownInv

\* A walk begins at the entry it answers for.
LEMMA BeginTraceKnown ==
    ASSUME TypeOK, FenceInv, KnownInv, BeginTrace
    PROVE  KnownInv'
  <1>1. \A p : (Exists(p)' <=> Exists(p)) /\ (Alive(p)' <=> Alive(p)) /\ (Resident(p)' <=> Resident(p))
    BY ReadingChangesNobody DEF BeginTrace
  <1>2. /\ fence.phase = "trace" /\ fence.mode = "turn" /\ fence.walk = 0 /\ fence.listed \subseteq Pids
        /\ fence.at \in Nat
    BY DEF BeginTrace, FenceStep, FenceInv, TypeOK, Fences
  <1>3. \A p : Passed(p) <=> Exists(p)
    BY <1>2 DEF Passed
  <1>4. CASE Rest = {}
    <2>1. fence' = [fence EXCEPT !.phase = "reap"]
      BY <1>4 DEF BeginTrace
    <2>2. /\ fence'.mode = "turn" /\ fence'.walk = 0 /\ fence'.phase = "reap" /\ fence'.at = fence.at
          /\ fence'.listed = fence.listed /\ fence'.remaining = fence.remaining
          /\ fence'.uncertain = fence.uncertain
      BY <1>2, <2>1 DEF TypeOK, Fences
    <2>3. \A l \in fence.listed : l < fence.at
      <3>1. ASSUME NEW l \in fence.listed
            PROVE  l < fence.at
        <4>1. l \in Nat /\ ~(l >= fence.at)
          BY <1>2, <1>4, PidsAre DEF Rest
        <4>2. QED BY <1>2, <4>1
      <3>2. QED BY <3>1
    <2>4. \A l : Telling(l) => Telling(l)'
      BY <1>1, <1>2, <2>2 DEF Telling
    <2>5. TurnInv'
      BY <1>1, <1>2, <1>3, <2>2, <2>3, <2>4 DEF KnownInv, TurnInv, Passed
    <2>6. WalkInv' /\ StoppedInv' /\ SignalInv' /\ FinalInv'
      BY <2>2 DEF WalkInv, StoppedInv, SignalInv, FinalInv
    <2>7. QED BY <2>5, <2>6 DEF KnownInv
  <1>5. CASE Rest # {} /\ ~Alive(Desktop)
    <2>1. fence'.phase = "failed" /\ fence'.mode = "turn" /\ fence'.walk = 0
      BY <1>2, <1>5 DEF BeginTrace, TypeOK, Fences
    <2>2. QED BY <2>1 DEF KnownInv, WalkInv, TurnInv, StoppedInv, SignalInv, FinalInv
  <1>6. CASE Rest # {} /\ Alive(Desktop)
    <2>1. fence' = [fence EXCEPT !.at = Entry, !.walk = Entry]
      BY <1>6 DEF BeginTrace
    <2>2. /\ fence'.mode = "turn" /\ fence'.phase = "trace" /\ fence'.at = Entry /\ fence'.walk = Entry
          /\ fence'.listed = fence.listed /\ fence'.remaining = fence.remaining
          /\ fence'.uncertain = fence.uncertain
      BY <1>2, <2>1 DEF TypeOK, Fences
    <2>3. Entry \in Pids /\ Entry \in fence.listed /\ Entry >= fence.at /\ \A l \in Rest : Entry <= l
      BY <1>6, EntryIsNext
    <2>4. \A l \in fence.listed : l >= fence.at => l >= Entry
      BY <1>2, <2>3, PidsAre DEF Rest
    <2>5. PICK e \in Pids : e = Entry /\ fence'.at = e /\ fence'.walk = e
      BY <2>2, <2>3
    <2>6. /\ Resident(fence.walk)' <=> Resident(e)
          /\ Resident(fence.at)' <=> Resident(e)
          /\ (Exists(fence.walk)' <=> Exists(e)) /\ (Exists(fence.at)' <=> Exists(e))
      BY <1>1, <2>5 DEF Resident, Beneath, Exists
    <2>7. \A l : Telling(l) => Telling(l)'
      BY <1>1, <1>2, <2>2, <2>4, <2>5, <2>6 DEF Telling
    <2>8. \A l \in fence.listed : l < e => l < fence.at
      <3>1. ASSUME NEW l \in fence.listed, l < e
            PROVE  l < fence.at
        <4>1. l \in Pids /\ l < e
          BY <1>2, <3>1
        <4>2. l \in Nat /\ e \in Nat /\ ~(l >= e)
          BY <4>1, PidsAre
        <4>3. ~(l >= fence.at)
          BY <2>4, <2>5, <3>1, <4>2
        <4>4. QED BY <1>2, <4>2, <4>3
      <3>2. QED BY <3>1
    <2>9. TurnInv'
      BY <1>1, <1>2, <1>3, <2>2, <2>5, <2>7, <2>8 DEF KnownInv, TurnInv, Passed
    <2>10. WalkInv'
      BY <2>6 DEF WalkInv
    <2>11. StoppedInv' /\ SignalInv' /\ FinalInv'
      BY <2>2 DEF StoppedInv, SignalInv, FinalInv
    <2>12. QED BY <2>9, <2>10, <2>11 DEF KnownInv
  <1>7. QED BY <1>4, <1>5, <1>6
\* A hop stays on its side; a walk that reaches the desktop proves where it
\* began, and one that leaves the children of PID 1 proves the contrary.
LEMMA TraceKnown ==
    ASSUME TypeOK, TableInv, FenceInv, KnownInv, Trace
    PROVE  KnownInv'
  <1>1. \A p : (Exists(p)' <=> Exists(p)) /\ (Alive(p)' <=> Alive(p)) /\ (Resident(p)' <=> Resident(p))
    BY ReadingChangesNobody DEF Trace
  <1>2. /\ fence.phase = "trace" /\ fence.mode = "turn" /\ fence.walk # 0 /\ fence.listed \subseteq Pids
        /\ fence.at \in Nat /\ fence.at + 1 \in Nat /\ fence \in Fences
    BY DEF Trace, FenceStep, FenceInv, TypeOK, Fences
  <1>3. PICK at \in Pids, walk \in Pids :
           at = fence.at /\ walk = fence.walk /\ fence.at \in fence.listed
    BY <1>2 DEF FenceInv
  <1>4. \A p : Passed(p) <=> Exists(p)
    BY <1>2 DEF Passed
  <1>5. CASE ~Exists(walk)
    <2>1. ~Exists(fence.walk)
      BY <1>3, <1>5
    <2>2. fence' = [fence EXCEPT !.at = @ + 1, !.walk = 0, !.uncertain = TRUE]
      BY <2>1 DEF Trace
    <2>3. fence'.mode = "turn" /\ fence'.phase = "trace" /\ fence'.walk = 0
      BY <1>2, <2>2 DEF Fences
    <2>4. fence'.uncertain = TRUE
      BY <1>2, <2>2 DEF Fences
    <2>5. QED BY <2>3, <2>4 DEF KnownInv, WalkInv, TurnInv, StoppedInv, SignalInv, FinalInv
  <1>6. CASE Exists(walk) /\ walk = Desktop
    <2>1. fence' = [fence EXCEPT !.at = @ + 1, !.walk = 0]
      BY <1>3, <1>6 DEF Trace
    <2>2. /\ fence'.mode = "turn" /\ fence'.phase = "trace" /\ fence'.at = at + 1 /\ fence'.walk = 0
          /\ fence'.listed = fence.listed /\ fence'.remaining = fence.remaining
          /\ fence'.uncertain = fence.uncertain
      BY <1>2, <1>3, <2>1 DEF Fences
    <2>3. Resident(walk)
      BY <1>6, ResidentStep, PidsAre
    <2>4. ASSUME NEW l \in Pids, Telling(l)
          PROVE  Telling(l)'
      <3>1. l # at /\ l >= at /\ l \in fence.listed /\ ~Resident(l)
        BY <1>2, <1>3, <2>3, <2>4 DEF Telling
      <3>2. l >= at + 1
        BY <3>1, PidsAre
      <3>3. QED BY <1>1, <2>2, <3>1, <3>2 DEF Telling
    <2>5. ASSUME Alive(Desktop), ~fence.remaining, ~fence.uncertain,
                 NEW l \in fence.listed, l < at + 1, Exists(l)
          PROVE  Resident(l)
      <3>1. CASE l = at
        BY <1>2, <1>3, <2>3, <2>5, <3>1 DEF KnownInv, WalkInv
      <3>2. CASE l # at
        <4>1. l \in Pids
          BY <1>2
        <4>2. l < at
          BY <2>5, <3>2, <4>1, PidsAre
        <4>3. QED BY <1>2, <1>3, <2>5, <4>2 DEF KnownInv, TurnInv
      <3>3. QED BY <3>1, <3>2
    <2>6. TurnInv'
      BY <1>1, <1>2, <1>4, <2>2, <2>4, <2>5 DEF KnownInv, TurnInv, Passed
    <2>7. WalkInv' /\ StoppedInv' /\ SignalInv' /\ FinalInv'
      BY <2>2 DEF WalkInv, StoppedInv, SignalInv, FinalInv
    <2>8. QED BY <2>6, <2>7 DEF KnownInv
  <1>7. CASE Exists(walk) /\ walk # Desktop /\ proc[walk].parent = 1
    <2>1. fence' = [fence EXCEPT !.phase = "signal", !.walk = 0]
      BY <1>3, <1>7 DEF Trace
    <2>2. fence'.mode = "turn" /\ fence'.phase = "signal" /\ fence'.at = at /\ fence'.walk = 0
      BY <1>2, <1>3, <2>1 DEF Fences
    <2>3. ~Resident(1)
      BY ResidentStep, PidsAre
    <2>4. ~Resident(walk)
      BY <1>7, <2>3, ResidentStep
    <2>5. Alive(Desktop) => ~Resident(at)
      BY <1>2, <1>3, <1>7, <2>4 DEF KnownInv, WalkInv
    <2>6. SignalInv'
      <3>1. Resident(fence.at)' <=> Resident(at)
        BY <1>1, <2>2 DEF Resident, Beneath, Exists
      <3>2. QED BY <1>1, <2>5, <3>1 DEF SignalInv
    <2>7. WalkInv' /\ TurnInv' /\ StoppedInv' /\ FinalInv'
      BY <2>2 DEF WalkInv, TurnInv, StoppedInv, FinalInv
    <2>8. QED BY <2>6, <2>7 DEF KnownInv
  <1>8. CASE Exists(walk) /\ walk # Desktop /\ proc[walk].parent # 1
    <2>1. PICK up \in Pids : up = proc[walk].parent
      BY <1>3, <1>8 DEF TableInv
    <2>2. fence' = [fence EXCEPT !.walk = up]
      BY <1>3, <1>8, <2>1 DEF Trace
    <2>3. /\ fence'.mode = "turn" /\ fence'.phase = "trace" /\ fence'.at = at /\ fence'.walk = up
          /\ fence'.listed = fence.listed /\ fence'.remaining = fence.remaining
          /\ fence'.uncertain = fence.uncertain
      BY <1>2, <1>3, <2>2 DEF Fences
    <2>4. Resident(walk) <=> Resident(up)
      BY <1>8, <2>1, ResidentStep
    <2>5. /\ Resident(fence.at)' <=> Resident(at)
          /\ Resident(fence.walk)' <=> Resident(up)
          /\ (Exists(fence.at)' <=> Exists(at)) /\ (Exists(fence.walk)' <=> Exists(up))
      BY <1>1, <2>3 DEF Resident, Beneath, Exists
    <2>6. \A l : Telling(l) => Telling(l)'
      BY <1>1, <1>2, <1>3, <2>3, <2>4, <2>5, PidsAre DEF Telling
    <2>7. TurnInv'
      BY <1>1, <1>2, <1>3, <1>4, <2>3, <2>6 DEF KnownInv, TurnInv, Passed
    <2>8. WalkInv'
      BY <1>1, <1>2, <1>3, <1>8, <2>4, <2>5 DEF KnownInv, WalkInv
    <2>9. StoppedInv' /\ SignalInv' /\ FinalInv'
      BY <2>3 DEF StoppedInv, SignalInv, FinalInv
    <2>10. QED BY <2>7, <2>8, <2>9 DEF KnownInv
  <1>9. QED BY <1>5, <1>6, <1>7, <1>8

\* After a signal the pass does not end clean.
LEMMA SignalKnown ==
    ASSUME TypeOK, FenceInv, Signal
    PROVE  KnownInv'
  <1>1. /\ fence'.mode = "turn" /\ fence'.phase = "trace" /\ fence'.walk = 0 /\ fence'.remaining
    BY DEF Signal, FenceStep, FenceInv, TypeOK, Fences
  <1>2. QED BY <1>1 DEF KnownInv, WalkInv, TurnInv, StoppedInv, SignalInv, FinalInv

\* The final stop kills all after the last launch and goes on to reap.
LEMMA KillAllKnown ==
    ASSUME TypeOK, FenceInv, KnownInv, KillAll
    PROVE  KnownInv'
  <1>1. fence'.mode = "all" /\ fence'.phase = "reap" /\ fence'.walk = 0 /\ launch' = 0
    BY DEF KillAll, FenceInv, TypeOK, Fences, KnownInv, FinalInv
  <1>2. QED BY <1>1 DEF KnownInv, WalkInv, TurnInv, StoppedInv, SignalInv, FinalInv

\* A pass that ends clean saw everybody: nobody is outside.
LEMMA CleanPass ==
    ASSUME TypeOK, FenceInv, KnownInv, FenceStep("reap"), ~fence.remaining, ~fence.uncertain,
           Alive(Desktop), NEW p \in Pids, Exists(p)
    PROVE  Resident(p)
  <1>1. SUFFICES ASSUME ~Resident(p)
                 PROVE  FALSE
    OBVIOUS
  <1>2. PICK l \in Pids : Telling(l)
    BY <1>1, OutsiderTells DEF KnownInv, FenceStep, Passed
  <1>3. l \in fence.listed /\ l >= fence.at /\ l < fence.at
    BY <1>2 DEF Telling, FenceStep, KnownInv, TurnInv
  <1>4. QED BY <1>3, PidsAre DEF TypeOK, Fences

\* A pass of the turn's fence ends clean only if nobody tells; or it begins anew.
LEMMA ReapKnown ==
    ASSUME TypeOK, TableInv, FenceInv, KnownInv, Kin, Reap
    PROVE  KnownInv'
  <1>1. CASE ~fence.remaining /\ ~fence.uncertain /\ Runner \in reaped
    <2>1. fence' = Fence("turn", "stopped", fence.late)
      BY <1>1 DEF Reap
    <2>2. fence'.mode = "turn" /\ fence'.phase = "stopped" /\ fence'.walk = 0
      BY <2>1 DEF Fence
    <2>3. ASSUME NEW p \in Pids, Exists(p)', Alive(Desktop)'
          PROVE  Resident(p)'
      <3>1. \A q \in Pids : Exists(q) => Resident(q)
        BY <1>1, <2>3, CleanPass DEF Reap, Kin
      <3>2. QED BY <2>3, <3>1 DEF Kin
    <2>4. StoppedInv'
      BY <2>2, <2>3 DEF StoppedInv
    <2>5. QED BY <2>2, <2>4 DEF KnownInv, WalkInv, TurnInv, SignalInv, FinalInv
  <1>2. CASE ~(~fence.remaining /\ ~fence.uncertain /\ Runner \in reaped)
    BY <1>2, FreshPass DEF Reap
  <1>3. QED BY <1>1, <1>2

\* The final stop ends when the namespace was empty.
LEMMA CountKnown ==
    ASSUME TypeOK, FenceInv, KnownInv, Count
    PROVE  KnownInv'
  <1>1. fence.mode = "all" /\ fence.phase = "count" /\ launch' = 0
    BY DEF Count, FenceInv, KnownInv, FinalInv, Kernel
  <1>2. CASE fence.listed = {} /\ fence.late
    <2>1. fence' = Fence("all", "stopped", TRUE)
      BY <1>2 DEF Count
    <2>2. fence'.mode = "all" /\ fence'.phase = "stopped" /\ fence'.walk = 0
      BY <2>1 DEF Fence
    <2>3. \A p \in Pids : ~Exists(p)
      BY <1>1, <1>2 DEF KnownInv, FinalInv, Passed
    <2>4. \A p \in Pids : ~Exists(p)'
      BY <2>3, ReadingChangesNobody DEF Count
    <2>5. QED BY <1>1, <2>2, <2>4 DEF KnownInv, WalkInv, TurnInv, SignalInv, FinalInv, StoppedInv
  <1>3. CASE ~(fence.listed = {} /\ fence.late)
    BY <1>1, <1>3, FreshPass DEF Count
  <1>4. QED BY <1>2, <1>3

\* Every step keeps what the fence knows.
LEMMA KnownStep ==
    TypeOK /\ TableInv /\ FenceInv /\ KnownInv /\ [Next]_vars => KnownInv'
<1> SUFFICES ASSUME TypeOK, TableInv, FenceInv, KnownInv, [Next]_vars
             PROVE  KnownInv'
  OBVIOUS
<1>1. CASE Next
  <2>1. Kin
    BY <1>1, TableNext
  <2>2. ASSUME Processes \/ ServeLaunch
        PROVE  KnownInv'
    <3>1. fence' = fence /\ (launch' \in {0, launch} \/ fence.mode # "all")
      BY <2>2 DEF Processes, ServeLaunch, Fork, Exit, ParentReaps, LaunchRequest, InitExits, CmdWait
    <3>2. QED BY <2>1, <3>1, KnownKept
  <2>3. ASSUME StopTaskProcesses \/ CheckDesktop \/ FenceFails \/ StopWriters \/ ReapAll
        PROVE  KnownInv'
    <3>1. \E mode \in {"none", "turn", "all"}, phase \in {"check", "list", "failed"}, late \in BOOLEAN :
             fence' = Fence(mode, phase, late) /\ (mode = "all" => launch' = 0)
      BY <2>3 DEF StopTaskProcesses, CheckDesktop, FenceFails, StopWriters, ReapAll, Kernel,
                  KnownInv, FinalInv, TypeOK, Fences
    <3>2. QED BY <3>1, FreshPass
  <2>4. QED
    BY <1>1, <2>1, <2>2, <2>3, DeadlineKnown, ListKnown, ObserveKnown, BeginTraceKnown, TraceKnown,
       SignalKnown, KillAllKnown, ReapKnown, CountKnown DEF Next, StopTask, StopAll
<1>2. CASE UNCHANGED vars
  <2>1. Quiet /\ fence' = fence /\ launch' = launch
    BY <1>2 DEF Quiet, vars
  <2>2. QED BY <2>1, QuietKin, KnownKept
<1>3. QED BY <1>1, <1>2

-----------------------------------------------------------------------------
(* Theorems                                                                *)

\* The Pod as it starts satisfies the invariant.
LEMMA InitHolds == Init => IInv
  <1> USE PidsAre
  <1> SUFFICES ASSUME Init
               PROVE  IInv
    OBVIOUS
  <1>1. fence = Fence("none", "idle", FALSE) /\ next = Provider + 1 /\ launch = 0
    BY DEF Init
  <1>2. TypeOK
    <2>1. fence \in Fences
      BY <1>1, FenceIsTyped DEF Phases
    <2>2. 0 \in 0 .. MaxPid /\ 1 \in 0 .. MaxPid /\ Runner \in 0 .. MaxPid
      OBVIOUS
    <2>3. proc \in [Pids -> [state : ProcessStates, parent : 0 .. MaxPid]]
      BY <2>2 DEF Init, ProcessStates, NoProcess
    <2>4. QED BY <1>1, <2>1, <2>3 DEF Init, TypeOK
  <1>3. TableInv
    BY <1>1 DEF Init, TableInv, Exists, Alive, NoProcess, Inits, Desktop, Runner, Provider, Pids
  <1>4. FenceInv /\ WalkInv /\ TurnInv /\ FinalInv /\ StoppedInv /\ SignalInv
    BY <1>1 DEF Fence, FenceInv, WalkInv, TurnInv, FinalInv, StoppedInv, SignalInv
  <1>5. QED BY <1>2, <1>3, <1>4 DEF IInv

\* The invariant is inductive.
LEMMA ProcessStep == IInv /\ [Next]_vars => IInv'
  BY TypeStep, KnownStep DEF IInv, KnownInv

\* In every behaviour of a Pod's processes and its supervisor's fences the
\* table is sound and the fence knows what it reports (processes_linux.go).
THEOREM ProcessInvariant == Spec => []IInv
  BY InitHolds, ProcessStep, PTL DEF Spec

\* The types of the process table and of the fence.
THEOREM ProcessTypes == Spec => []TypeOK
  BY ProcessInvariant, PTL DEF IInv

\* What a fence reports has happened, for any number of processes
\* (stopTaskProcesses, observeProcessEntries, stopWriters).
THEOREM OutsidersAreGone == Spec => []OutsidersGone
  <1>1. IInv => OutsidersGone
    BY DEF IInv, StoppedInv, OutsidersGone, Resident, Exists, Alive
  <1>2. QED BY <1>1, ProcessInvariant, PTL

\* The turn's fence signals no process of the desktop (traceAncestry, beneath).
THEOREM ResidentsAreSpared == Spec => []ResidentsSpared
  <1>1. IInv => ResidentsSpared
    BY DEF IInv, SignalInv, ResidentsSpared, Resident
  <1>2. QED BY <1>1, ProcessInvariant, PTL
=============================================================================
