------------------------------- MODULE Session -------------------------------
(***************************************************************************)
(* What a NydusDaemon session promises about the mountpoint (spec 4.4),   *)
(* stated without the poll loop's counters, the config file or the        *)
(* method history of Daemon.  A call either launches nydusd, starts or    *)
(* ends a wait for the mount, detaches the top mount, sends SIGTERM, or   *)
(* raises without touching the processes or the mount table.  A wait     *)
(* ends in one step with an outcome the state justifies: ready only when *)
(* the mountpoint is up, "premature" only when self.p has exited, a      *)
(* timeout at any time.  The nydusd processes behave as in Daemon.        *)
(***************************************************************************)
EXTENDS Integers, Sequences

CONSTANT MaxLaunch

VARIABLES procs, mnts, pc, raised

svars == <<procs, mnts, pc, raised>>

Proc == [st : {"running", "terminating", "exited"}, rc : {0, 1},
         cfg : BOOLEAN, served : BOOLEAN]

Cur == Len(procs)
Top == mnts[Len(mnts)]
Pop(s) == SubSeq(s, 1, Len(s) - 1)
MountUp == mnts # << >> /\ procs[Top].st # "exited"

(* The exceptions a call raises before it changes anything. *)
CallErrors == {"type_error", "assert_umount", "no_process"}

Init ==
    /\ procs = << >>
    /\ mnts = << >>
    /\ pc = "idle"
    /\ raised = "none"

(* A new nydusd, which may or may not find a config to read. *)
Launch(wait) ==
    /\ pc = "idle"
    /\ Len(procs) < MaxLaunch
    /\ \E c \in BOOLEAN :
         procs' = Append(procs, [st |-> "running", rc |-> 0, cfg |-> c, served |-> FALSE])
    /\ pc' = IF wait THEN "waiting" ELSE "idle"
    /\ raised' = "none"
    /\ UNCHANGED mnts

Raise ==
    /\ pc = "idle"
    /\ raised' \in CallErrors
    /\ UNCHANGED <<procs, mnts, pc>>

EnterWait ==
    /\ pc = "idle"
    /\ pc' = "waiting"
    /\ raised' = "none"
    /\ UNCHANGED <<procs, mnts>>

WaitEnds ==
    /\ pc = "waiting"
    /\ pc' = "idle"
    /\ \/ MountUp /\ raised' = "none"
       \/ ~MountUp /\ Cur = 0 /\ raised' = "no_process"
       \/ ~MountUp /\ Cur # 0 /\ procs[Cur].st = "exited" /\ raised' = "premature"
       \/ raised' = "timeout"
    /\ UNCHANGED <<procs, mnts>>

Detach ==
    /\ pc = "idle"
    /\ mnts # << >>
    /\ mnts' = Pop(mnts)
    /\ raised' = "none"
    /\ UNCHANGED <<procs, pc>>

(* Unmount if the mountpoint is up, SIGTERM to self.p, wait for it. *)
Stop ==
    /\ pc = "idle"
    /\ Cur # 0
    /\ mnts' = IF MountUp THEN Pop(mnts) ELSE mnts
    /\ procs' = IF procs[Cur].st = "running"
                  THEN [procs EXCEPT ![Cur].st = "terminating"] ELSE procs
    /\ pc' = "stopping"
    /\ raised' = "none"

StopEnds ==
    /\ pc = "stopping"
    /\ procs[Cur].st = "exited"
    /\ pc' = "idle"
    /\ raised' = IF procs[Cur].rc = 0 THEN "none" ELSE "assert_shutdown"
    /\ UNCHANGED <<procs, mnts>>

ProcMount(i) ==
    /\ procs[i].st = "running" /\ procs[i].cfg /\ ~procs[i].served
    /\ ~(mnts # << >> /\ procs[Top].st = "exited")
    /\ procs' = [procs EXCEPT ![i].served = TRUE]
    /\ mnts' = Append(mnts, i)
    /\ UNCHANGED <<pc, raised>>

ProcCrash(i) ==
    /\ procs[i].st \in {"running", "terminating"}
    /\ procs' = [procs EXCEPT ![i].st = "exited", ![i].rc = 1]
    /\ UNCHANGED <<mnts, pc, raised>>

ProcStop(i) ==
    /\ procs[i].st = "terminating"
    /\ procs' = [procs EXCEPT ![i].st = "exited", ![i].rc = 0]
    /\ mnts' = IF mnts # << >> /\ Top = i THEN Pop(mnts) ELSE mnts
    /\ UNCHANGED <<pc, raised>>

Next ==
    \/ \E wait \in BOOLEAN : Launch(wait)
    \/ Raise \/ EnterWait \/ WaitEnds \/ Detach \/ Stop \/ StopEnds
    \/ \E i \in 1..Len(procs) : ProcMount(i) \/ ProcCrash(i) \/ ProcStop(i)

SafeSpec == Init /\ [][Next]_svars

(* shutdown()'s wait returns once self.p has exited, and nydusd handles *)
(* SIGTERM.                                                             *)
Spec ==
    /\ SafeSpec
    /\ WF_svars(StopEnds)
    /\ \A i \in 1..MaxLaunch : WF_svars(i \in 1..Len(procs) /\ ProcStop(i))

=============================================================================
