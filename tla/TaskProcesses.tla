---------------------------- MODULE TaskProcesses ----------------------------
(***************************************************************************)
(* The processes of a worker Pod (worker/processes_linux, desktop_linux,   *)
(* runner_linux, supervisor_linux, initprocess): at the end of a turn the  *)
(* supervisor, PID 1, ends every process outside the resident desktop, and *)
(* at the end of the session all of them.  It sees them only through /proc,*)
(* entry after entry, while they fork, exit and are handed to new parents; *)
(* meanwhile the desktop launches applications for processes that ask.     *)
(***************************************************************************)
EXTENDS Naturals, FiniteSets, FiniteSetsExt

CONSTANT MaxPid       \* bound: process numbers, given out in ascending order

ASSUME PidBound == MaxPid \in Nat /\ MaxPid >= 4

VARIABLES proc,       \* the process table of the Pod
          next,       \* the next process number
          reaped,     \* children of PID 1 whose Cmd.Wait returned
          turn,       \* the desktop's launch authority names the runner
          launch,     \* serveLaunches: the peer of the connection it serves, or 0
          fence       \* stopTaskProcesses or stopWriters of the supervisor

vars == <<proc, next, reaped, turn, launch, fence>>

Pids == 2 .. MaxPid
Desktop == 2          \* init of the desktop owner
Runner == 3           \* init of the provider runner
Provider == 4         \* the provider, Runner's primary
Inits == {Desktop, Runner}
NoProcess == [state |-> "none", parent |-> 0]
Fence(mode, phase, late) ==
    [mode |-> mode, phase |-> phase, late |-> late, at |-> 2, listed |-> {}, zombies |-> {},
     walk |-> 0, remaining |-> FALSE, uncertain |-> FALSE]

Init ==
    /\ proc = [p \in Pids |-> CASE p \in Inits -> [state |-> "run", parent |-> 1]
                                [] p = Provider -> [state |-> "run", parent |-> Runner]
                                [] OTHER -> NoProcess]
    /\ next = Provider + 1
    /\ reaped = {} /\ turn = TRUE /\ launch = 0
    /\ fence = Fence("none", "idle", FALSE)

-----------------------------------------------------------------------------
(* The kernel: no number is given out twice within the bound, so a number  *)
(* and a start time identify the same process.                             *)

Exists(p) == proc[p].state # "none"
Alive(p) == proc[p].state = "run"

\* Ancestry as it is: p is in every set that has the root and the children of
\* its members.
Beneath(p, root) ==
    \A family \in SUBSET Pids :
        (\A q \in Pids : Exists(q) /\ (q = root \/ proc[q].parent \in family) => q \in family)
        => p \in family

\* Children of the dead go to the nearest subreaper above them.
Adopter(p, dead) ==
    LET near == {i \in Inits \ dead : Alive(i) /\ p # i /\ Beneath(p, i)}
    IN  IF proc[p].parent \notin dead THEN proc[p].parent
        ELSE IF near # {} THEN Max(near) ELSE 1
Die(dead) ==
    [p \in Pids |-> IF ~Exists(p) THEN proc[p]
                    ELSE [state |-> IF p \in dead THEN "zombie" ELSE proc[p].state,
                          parent |-> Adopter(p, dead)]]
Born(parent) == [proc EXCEPT ![next] = [state |-> "run", parent |-> parent]]

Fork(p) ==
    /\ Alive(p) /\ p \notin Inits /\ next <= MaxPid
    /\ proc' = Born(p) /\ next' = next + 1
    /\ UNCHANGED <<reaped, turn, launch, fence>>

\* By itself, on SIGTERM or on an error.
Exit(p) ==
    /\ Alive(p) /\ p \notin Inits
    /\ proc' = Die({p})
    /\ UNCHANGED <<next, reaped, turn, launch, fence>>

\* waitPrimary returns after its primary ended and what could be reaped in a
\* second was; the desktop's init may also fail.
InitExits(i) ==
    /\ Alive(i) /\ (i = Runner => ~Alive(Provider))
    /\ proc' = Die({i})
    /\ UNCHANGED <<next, reaped, turn, launch, fence>>

\* drain of an init, or the wait of any other parent.
ParentReaps(p) ==
    /\ proc[p].state = "zombie" /\ proc[p].parent > 1
    /\ proc' = [proc EXCEPT ![p] = NoProcess]
    /\ UNCHANGED <<next, reaped, turn, launch, fence>>

\* Cmd.Wait of PID 1 owns its two children.
CmdWait(i) ==
    /\ proc[i].state = "zombie"
    /\ proc' = [proc EXCEPT ![i] = NoProcess] /\ reaped' = reaped \cup {i}
    /\ UNCHANGED <<next, turn, launch, fence>>

-----------------------------------------------------------------------------
(* Launches through the desktop                                            *)

\* A connection is accepted and its peer's identity read, without the lock.
LaunchRequest(p) ==
    /\ launch = 0 /\ fence.mode # "all" /\ p \notin Inits /\ Alive(p)
    /\ launch' = p
    /\ UNCHANGED <<proc, next, reaped, turn, fence>>

\* authorizeLaunch, under launchMu.
AuthorizeLaunch(p) ==
    /\ Alive(Desktop) /\ Exists(p)
    /\ Beneath(p, Desktop) \/ (turn /\ Alive(Runner) /\ Beneath(p, Runner))

\* The owner starts the application under the same lock, or refuses.
ServeLaunch ==
    /\ launch # 0 /\ launch' = 0
    /\ \/ /\ AuthorizeLaunch(launch) /\ next <= MaxPid
          /\ proc' = Born(Desktop) /\ next' = next + 1
       \/ UNCHANGED <<proc, next>>
    /\ UNCHANGED <<reaped, turn, fence>>

-----------------------------------------------------------------------------
(* stopTaskProcesses                                                       *)

\* The turn's cleanup revokes the launch authority first, then cancels the
\* runner and looks at the processes again and again.
StopTaskProcesses ==
    /\ fence.phase = "idle"
    /\ turn' = FALSE /\ fence' = Fence("turn", "check", FALSE)
    /\ UNCHANGED <<proc, next, reaped, launch>>

\* The grace period is over: signals become SIGSTOP and SIGKILL.
Deadline ==
    /\ fence.phase \notin {"idle", "stopped", "failed"} /\ ~fence.late
    /\ fence' = [fence EXCEPT !.late = TRUE]
    /\ UNCHANGED <<proc, next, reaped, turn, launch>>

FenceStep(phase) == fence.mode = "turn" /\ fence.phase = phase
Kernel == <<proc, next, reaped, turn, launch>>

CheckDesktop ==
    /\ FenceStep("check")
    /\ fence' = Fence("turn", IF Alive(Desktop) THEN "list" ELSE "failed", fence.late)
    /\ UNCHANGED Kernel

\* ReadDir of /proc: one entry after the other.
List ==
    /\ fence.phase = "list"
    /\ fence' = IF fence.at <= MaxPid
                THEN [fence EXCEPT !.at = @ + 1,
                         !.listed = IF Exists(fence.at) THEN @ \cup {fence.at} ELSE @]
                ELSE [fence EXCEPT !.at = 2, !.phase = IF fence.mode = "turn" THEN "observe" ELSE "count"]
    /\ UNCHANGED Kernel

Rest == {p \in fence.listed : p >= fence.at}
Entry == Min(Rest)
Orphaned(p) == proc[p] = [state |-> "zombie", parent |-> 1] /\ p \notin Inits

\* Mutant: an entry that vanished is left out.
ObserveOthers ==
    /\ FenceStep("observe")
    /\ fence' =
         IF Rest = {} THEN [fence EXCEPT !.at = 2, !.phase = "trace"]
         ELSE IF ~Exists(Entry) THEN [fence EXCEPT !.at = Entry + 1, !.listed = @ \ {Entry}]
         ELSE [fence EXCEPT !.at = Entry + 1,
                  !.zombies = IF Orphaned(Entry) THEN @ \cup {Entry} ELSE @]
    /\ UNCHANGED Kernel
\* observeProcessEntries: an entry that vanished makes the whole list worthless.
Observe ==
    /\ FenceStep("observe")
    /\ fence' =
         IF Rest = {} THEN [fence EXCEPT !.at = 2, !.phase = "trace"]
         ELSE IF ~Exists(Entry)
         THEN [fence EXCEPT !.listed = {}, !.zombies = {}, !.uncertain = TRUE, !.phase = "reap"]
         ELSE [fence EXCEPT !.at = Entry + 1,
                  !.zombies = IF Orphaned(Entry) THEN @ \cup {Entry} ELSE @]
    /\ UNCHANGED Kernel

\* beneath for the next process, which needs a live desktop.
BeginTrace ==
    /\ FenceStep("trace") /\ fence.walk = 0
    /\ fence' = IF Rest = {} THEN [fence EXCEPT !.phase = "reap"]
                ELSE IF ~Alive(Desktop) THEN [fence EXCEPT !.phase = "failed"]
                ELSE [fence EXCEPT !.at = Entry, !.walk = Entry]
    /\ UNCHANGED Kernel

\* Mutant: a parent that vanished ends the walk outside the desktop.
TraceLost ==
    /\ FenceStep("trace") /\ fence.walk # 0
    /\ fence' =
         IF ~Exists(fence.walk) THEN [fence EXCEPT !.phase = "signal", !.walk = 0]
         ELSE IF fence.walk = Desktop THEN [fence EXCEPT !.at = @ + 1, !.walk = 0]
         ELSE IF proc[fence.walk].parent = 1 THEN [fence EXCEPT !.phase = "signal", !.walk = 0]
         ELSE [fence EXCEPT !.walk = proc[fence.walk].parent]
    /\ UNCHANGED Kernel
\* A hop of traceAncestry: the child is read again after its parent, so both
\* existed at once.  Whatever vanished leaves the answer open, also after the
\* retries.
Trace ==
    /\ FenceStep("trace") /\ fence.walk # 0
    /\ fence' =
         IF ~Exists(fence.walk) THEN [fence EXCEPT !.at = @ + 1, !.walk = 0, !.uncertain = TRUE]
         ELSE IF fence.walk = Desktop THEN [fence EXCEPT !.at = @ + 1, !.walk = 0]
         ELSE IF proc[fence.walk].parent = 1 THEN [fence EXCEPT !.phase = "signal", !.walk = 0]
         ELSE [fence EXCEPT !.walk = proc[fence.walk].parent]
    /\ UNCHANGED Kernel

\* signalProcess, through a pidfd of the very process.
Signal ==
    /\ FenceStep("signal")
    /\ proc' = IF fence.late /\ Alive(fence.at) THEN Die({fence.at}) ELSE proc
    /\ fence' = [fence EXCEPT !.phase = "trace", !.at = @ + 1, !.remaining = TRUE]
    /\ UNCHANGED <<next, reaped, turn, launch>>

\* reapUnmanaged, and the verdict on this pass.
Reap ==
    /\ FenceStep("reap")
    /\ proc' = [p \in Pids |-> IF p \in fence.zombies /\ Orphaned(p) THEN NoProcess ELSE proc[p]]
    /\ fence' = IF ~fence.remaining /\ ~fence.uncertain /\ Runner \in reaped
                THEN Fence("turn", "stopped", fence.late)
                ELSE Fence("turn", "check", fence.late)
    /\ UNCHANGED <<next, reaped, turn, launch>>

\* The context of the cleanup ends, or /proc cannot be read.
FenceFails ==
    /\ fence.phase \notin {"idle", "stopped", "failed"}
    /\ fence' = Fence(fence.mode, "failed", fence.late)
    /\ UNCHANGED Kernel

-----------------------------------------------------------------------------
(* stopWriters of the final stop                                           *)

\* closeLaunches joins the launch thread before the namespace is signalled.
StopWriters ==
    /\ fence.mode # "all"
    /\ fence.mode = "none" \/ fence.phase \in {"stopped", "failed"}
    /\ turn' = FALSE /\ launch' = 0
    /\ fence' = Fence("all", "check", FALSE)
    /\ UNCHANGED <<proc, next, reaped>>

\* SIGTERM first, which need not end anything; after the grace SIGKILL to all.
KillAll ==
    /\ fence.mode = "all" /\ fence.phase = "check"
    /\ proc' = IF fence.late THEN Die({p \in Pids : Alive(p)}) ELSE proc
    /\ fence' = [fence EXCEPT !.phase = "reap"]
    /\ UNCHANGED <<next, reaped, turn, launch>>

\* Orphans are reaped once both Cmd.Wait have returned.
ReapAll ==
    /\ fence.mode = "all" /\ fence.phase = "reap"
    /\ IF Inits \subseteq reaped
       THEN /\ proc' = [p \in Pids |-> IF Orphaned(p) THEN NoProcess ELSE proc[p]]
            /\ fence' = Fence("all", "list", fence.late)
       ELSE fence' = Fence("all", "check", fence.late) /\ UNCHANGED proc
    /\ UNCHANGED <<next, reaped, turn, launch>>

\* writerCount; an empty list during the grace period only ends the grace.
Count ==
    /\ fence.phase = "count"
    /\ fence' = IF fence.listed = {} /\ fence.late THEN Fence("all", "stopped", TRUE)
                ELSE Fence("all", "check", fence.late \/ fence.listed = {})
    /\ UNCHANGED Kernel

-----------------------------------------------------------------------------

Processes ==
    \/ \E p \in Pids : Fork(p) \/ Exit(p) \/ ParentReaps(p) \/ LaunchRequest(p)
    \/ \E i \in Inits : InitExits(i) \/ CmdWait(i)

StopTask ==
    \/ StopTaskProcesses \/ CheckDesktop \/ Observe \/ BeginTrace \/ Trace \/ Signal \/ Reap
StopAll == StopWriters \/ KillAll \/ ReapAll \/ Count

Next ==
    \/ Processes \/ ServeLaunch
    \/ StopTask \/ StopAll \/ List \/ Deadline \/ FenceFails

Spec == Init /\ [][Next]_vars

-----------------------------------------------------------------------------
(* Properties                                                              *)

\* What a fence reports has happened: no process is left outside a living
\* desktop at the end of a turn and none at all after the final stop, however
\* the processes forked, exited and changed parents between two entries of
\* /proc (stopTaskProcesses, observeProcessEntries, stopWriters).
OutsidersGone ==
    fence.phase = "stopped" =>
        \A p \in Pids : Alive(p) => fence.mode = "turn" /\ (Alive(Desktop) => Beneath(p, Desktop))

\* The turn's fence signals no process of the desktop, whatever vanishes while
\* its ancestry is walked (traceAncestry, beneath).
ResidentsSpared ==
    fence.phase = "signal" /\ Alive(Desktop) => ~Beneath(fence.at, Desktop)
=============================================================================
