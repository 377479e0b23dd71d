------------------------------- MODULE Daemon -------------------------------
(***************************************************************************)
(* The nydusd lifecycle as driven by class NydusDaemon (framework/rafs.py). *)
(*                                                                         *)
(* One test thread (the caller) invokes the methods of one NydusDaemon     *)
(* object in any order: mount(), start(), wait_mount(), umount() and       *)
(* shutdown().  Every launch (utils.run) starts a new nydusd process and   *)
(* overwrites self.p; the processes run concurrently with the caller and   *)
(* may mount the mountpoint, crash, or stop on SIGTERM.  The mount table   *)
(* at the mountpoint is a stack: a later mount covers an earlier one and   *)
(* `umount -l` detaches the top entry.                                     *)
(*                                                                         *)
(* The caller is blocked inside _wait_for_mount (pc = "waiting") and       *)
(* inside shutdown()'s p.wait() (pc = "stopping"); those two blocking      *)
(* points are where the process steps interleave with a method.  The       *)
(* runtime configuration file is abstracted to whether it has been dumped. *)
(***************************************************************************)
EXTENDS Integers, Sequences

CONSTANTS
    Timeout,    \* the 300 of `while elapsed < 300` in _wait_for_mount
    MaxLaunch,  \* bound: number of nydusd processes one test may launch
    MaxPolls    \* bound: iterations of one _wait_for_mount loop

ASSUME TimeoutAssumption == Timeout \in Nat \ {0}
ASSUME MaxLaunchAssumption == MaxLaunch \in Nat \ {0}
ASSUME MaxPollsAssumption == MaxPolls \in Nat

VARIABLES
    procs,    \* procs[i]: the i-th launched nydusd; self.p is procs[Len(procs)]
    mnts,     \* mount stack at the mountpoint: indices of the serving daemons
    confFile, \* TRUE once dump_rafs_conf() has written the config file
    pc,       \* caller location: "idle", "waiting" or "stopping"
    elapsed,  \* the local `elapsed` of _wait_for_mount
    polls,    \* history: loop iterations of the current _wait_for_mount
    op,       \* history: the last method the caller invoked
    raised    \* the outcome of that method: "none" or the exception raised

vars == <<procs, mnts, confFile, pc, elapsed, polls, op, raised>>

ProcStates == {"running", "terminating", "exited"}

(* A launched nydusd: its state, exit status, whether it found a dumped    *)
(* config at startup, and whether it has mounted the mountpoint.           *)
Proc == [st : ProcStates, rc : {0, 1}, cfg : BOOLEAN, served : BOOLEAN]

Ops == {"none", "mount", "start", "wait_mount", "umount", "shutdown"}

Errors == {"none", "timeout", "premature", "assert_umount",
           "assert_shutdown", "no_process", "type_error"}

(* self.p, the handle of the last launched process (0: attribute unset). *)
Cur == Len(procs)

Launched == 1..Len(procs)

Top == mnts[Len(mnts)]

(* Mutation: the mount probe of the unused _costum helper of            *)
(* is_mounted(), a line of /proc/mounts naming the mountpoint, which is   *)
(* there for a dead FUSE mount too.                                        *)
IsMountProcMounts == mnts # << >>

(* os.path.ismount(mountpoint): lstat of a FUSE mount whose daemon has     *)
(* exited fails with ENOTCONN, and ismount() then returns False.           *)
IsMount == mnts # << >> /\ procs[Top].st # "exited"

(* The mountpoint is covered by the mount of a daemon that has exited. *)
DeadMountOnTop == mnts # << >> /\ procs[Top].st = "exited"

Pop(s) == SubSeq(s, 1, Len(s) - 1)

(* utils.run(cmd, ...): a new process that reads the config file now. *)
Launch == procs' = Append(procs, [st |-> "running", rc |-> 0,
                                  cfg |-> confFile, served |-> FALSE])

-----------------------------------------------------------------------------
Init ==
    /\ procs = << >>
    /\ mnts = << >>
    /\ confFile = FALSE
    /\ pc = "idle"
    /\ elapsed = 0
    /\ polls = 0
    /\ op = "none"
    /\ raised = "none"

(* mount(limited_mem, wait_mount, dump_config): dump the config, then with *)
(* a memory limit fail on `str + list` (TypeError) before launching,       *)
(* otherwise launch and, if wait_mount, enter _wait_for_mount.             *)
Mount(limited, wait, dump) ==
    /\ pc = "idle"
    /\ Len(procs) < MaxLaunch
    /\ confFile' = (confFile \/ dump)
    /\ op' = "mount"
    /\ IF limited
         THEN /\ raised' = "type_error"
              /\ UNCHANGED <<procs, pc, elapsed, polls>>
         ELSE /\ procs' = Append(procs, [st |-> "running", rc |-> 0,
                                         cfg |-> confFile', served |-> FALSE])
              /\ raised' = "none"
              /\ pc' = IF wait THEN "waiting" ELSE "idle"
              /\ elapsed' = 0
              /\ polls' = 0
    /\ UNCHANGED mnts

(* start(): launch without dumping the config and without waiting. *)
Start ==
    /\ pc = "idle"
    /\ Len(procs) < MaxLaunch
    /\ Launch
    /\ op' = "start"
    /\ raised' = "none"
    /\ UNCHANGED <<mnts, confFile, pc, elapsed, polls>>

(* wait_mount(): enter _wait_for_mount. *)
WaitMount ==
    /\ pc = "idle"
    /\ pc' = "waiting"
    /\ elapsed' = 0
    /\ polls' = 0
    /\ op' = "wait_mount"
    /\ raised' = "none"
    /\ UNCHANGED <<procs, mnts, confFile>>

(* `elapsed -= 1; time.sleep(0.01)`: one more turn of the loop.  Past    *)
(* MaxPolls turns the loop goes on without a visible change.              *)
Spin ==
    IF polls < MaxPolls
      THEN elapsed' = elapsed - 1 /\ polls' = polls + 1
      ELSE UNCHANGED <<elapsed, polls>>

(* Mutation: the loop without the self.p.poll() check. *)
PollStepNoPoll ==
    /\ pc = "waiting"
    /\ IF elapsed >= Timeout
         THEN /\ pc' = "idle"
              /\ raised' = "timeout"
              /\ UNCHANGED <<elapsed, polls>>
         ELSE \/ /\ IsMount
                 /\ pc' = "idle"
                 /\ UNCHANGED <<elapsed, polls, raised>>
              \/ /\ ~IsMount
                 /\ Spin
                 /\ UNCHANGED <<pc, raised>>
    /\ UNCHANGED <<procs, mnts, confFile, op>>

(* One iteration of the loop of _wait_for_mount: the budget check, the    *)
(* mount probe, the self.p.poll() check (AttributeError when self.p is     *)
(* unset), then `elapsed -= 1`.                                            *)
PollStep ==
    /\ pc = "waiting"
    /\ IF elapsed >= Timeout
         THEN /\ pc' = "idle"
              /\ raised' = "timeout"
              /\ UNCHANGED <<elapsed, polls>>
         ELSE \/ /\ IsMount
                 /\ pc' = "idle"
                 /\ UNCHANGED <<elapsed, polls, raised>>
              \/ /\ ~IsMount
                 /\ Cur = 0
                 /\ pc' = "idle"
                 /\ raised' = "no_process"
                 /\ UNCHANGED <<elapsed, polls>>
              \/ /\ ~IsMount
                 /\ Cur # 0
                 /\ procs[Cur].st = "exited"
                 /\ pc' = "idle"
                 /\ raised' = "premature"
                 /\ UNCHANGED <<elapsed, polls>>
              \/ /\ ~IsMount
                 /\ Cur # 0
                 /\ procs[Cur].st # "exited"
                 /\ Spin
                 /\ UNCHANGED <<pc, raised>>
    /\ UNCHANGED <<procs, mnts, confFile, op>>

(* umount(): `umount -l mountpoint`, then `assert ret`.  The lazy unmount  *)
(* detaches the top entry, live or dead; with nothing mounted it fails.    *)
Umount ==
    /\ pc = "idle"
    /\ op' = "umount"
    /\ IF mnts # << >>
         THEN mnts' = Pop(mnts) /\ raised' = "none"
         ELSE UNCHANGED mnts /\ raised' = "assert_umount"
    /\ UNCHANGED <<procs, confFile, pc, elapsed, polls>>

(* Mutation: shutdown() that forgets self.p.terminate(). *)
ShutdownNoTerminate ==
    /\ pc = "idle"
    /\ op' = "shutdown"
    /\ mnts' = IF IsMount THEN Pop(mnts) ELSE mnts
    /\ IF Cur = 0
         THEN /\ raised' = "no_process"
              /\ UNCHANGED <<procs, pc>>
         ELSE /\ pc' = "stopping"
              /\ raised' = "none"
              /\ UNCHANGED procs
    /\ UNCHANGED <<confFile, elapsed, polls>>

(* Mutation: shutdown() that waits even when no process was launched. *)
ShutdownNoProcessCheck ==
    /\ pc = "idle"
    /\ op' = "shutdown"
    /\ mnts' = IF IsMount THEN Pop(mnts) ELSE mnts
    /\ procs' = IF Cur # 0 /\ procs[Cur].st = "running"
                   THEN [procs EXCEPT ![Cur].st = "terminating"]
                   ELSE procs
    /\ pc' = "stopping"
    /\ raised' = "none"
    /\ UNCHANGED <<confFile, elapsed, polls>>

(* shutdown(): umount() if is_mounted(), then self.p.terminate() (SIGTERM *)
(* to a process that has not exited), then block in self.p.wait().        *)
Shutdown ==
    /\ pc = "idle"
    /\ op' = "shutdown"
    /\ mnts' = IF IsMount THEN Pop(mnts) ELSE mnts
    /\ IF Cur = 0
         THEN /\ raised' = "no_process"
              /\ UNCHANGED <<procs, pc>>
         ELSE /\ procs' = IF procs[Cur].st = "running"
                            THEN [procs EXCEPT ![Cur].st = "terminating"]
                            ELSE procs
              /\ pc' = "stopping"
              /\ raised' = "none"
    /\ UNCHANGED <<confFile, elapsed, polls>>

(* Mutation: shutdown() without `assert self.p.returncode == 0`. *)
ShutdownWaitNoAssert ==
    /\ pc = "stopping"
    /\ procs[Cur].st = "exited"
    /\ pc' = "idle"
    /\ raised' = "none"
    /\ UNCHANGED <<procs, mnts, confFile, elapsed, polls, op>>

(* The return of self.p.wait() in shutdown(), then                        *)
(* `assert self.p.returncode == 0`.                                        *)
ShutdownWait ==
    /\ pc = "stopping"
    /\ procs[Cur].st = "exited"
    /\ pc' = "idle"
    /\ raised' = IF procs[Cur].rc = 0 THEN "none" ELSE "assert_shutdown"
    /\ UNCHANGED <<procs, mnts, confFile, elapsed, polls, op>>

-----------------------------------------------------------------------------
(* The nydusd processes.  A daemon mounts once, if it read a dumped config *)
(* and the mountpoint is not covered by a dead FUSE mount.                 *)
DaemonMount(i) ==
    /\ procs[i].st = "running"
    /\ procs[i].cfg
    /\ ~procs[i].served
    /\ ~DeadMountOnTop
    /\ procs' = [procs EXCEPT ![i].served = TRUE]
    /\ mnts' = Append(mnts, i)
    /\ UNCHANGED <<confFile, pc, elapsed, polls, op, raised>>

(* A daemon dies with a non-zero status; its mount entry stays, dead. *)
DaemonCrash(i) ==
    /\ procs[i].st \in {"running", "terminating"}
    /\ procs' = [procs EXCEPT ![i].st = "exited", ![i].rc = 1]
    /\ UNCHANGED <<mnts, confFile, pc, elapsed, polls, op, raised>>

(* On SIGTERM a daemon unmounts its own mount, if it is on top, and exits *)
(* with status 0.                                                          *)
DaemonStop(i) ==
    /\ procs[i].st = "terminating"
    /\ procs' = [procs EXCEPT ![i].st = "exited", ![i].rc = 0]
    /\ mnts' = IF mnts # << >> /\ Top = i THEN Pop(mnts) ELSE mnts
    /\ UNCHANGED <<confFile, pc, elapsed, polls, op, raised>>

-----------------------------------------------------------------------------
Caller ==
    \/ \E limited, wait, dump \in BOOLEAN : Mount(limited, wait, dump)
    \/ Start
    \/ WaitMount
    \/ PollStep
    \/ Umount
    \/ Shutdown
    \/ ShutdownWait

Daemons ==
    \E i \in Launched : DaemonMount(i) \/ DaemonCrash(i) \/ DaemonStop(i)

Next == Caller \/ Daemons

(* The caller's thread keeps running inside a method it has entered (the  *)
(* poll loop and p.wait()), and nydusd reacts to SIGTERM; the caller need *)
(* not call anything, and a daemon need not ever mount.                   *)
Fairness ==
    /\ WF_vars(PollStep)
    /\ WF_vars(ShutdownWait)
    /\ \A i \in 1..MaxLaunch : WF_vars(i \in Launched /\ DaemonStop(i))

Spec == Init /\ [][Next]_vars /\ Fairness

-----------------------------------------------------------------------------
TypeOK ==
    /\ procs \in Seq(Proc)
    /\ Len(procs) <= MaxLaunch
    /\ mnts \in Seq(1..Len(procs))
    /\ confFile \in BOOLEAN
    /\ pc \in {"idle", "waiting", "stopping"}
    /\ elapsed \in Int
    /\ polls \in 0..MaxPolls
    /\ op \in Ops
    /\ raised \in Errors
    /\ pc = "stopping" => Cur # 0

(* A shutdown() that returns without an exception, on an object that has  *)
(* launched nydusd once, leaves that daemon exited with status 0 and       *)
(* nothing mounted at the mountpoint (spec 8): the is_mounted()/umount()   *)
(* and terminate/wait/assert sequence of shutdown(), racing the daemon's   *)
(* own mount, crash and exit.                                               *)
ShutdownClean ==
    (op = "shutdown" /\ pc = "idle" /\ raised = "none" /\ Cur = 1) =>
        /\ procs[1].st = "exited"
        /\ procs[1].rc = 0
        /\ mnts = << >>

(* The same for any number of launches: after shutdown() returns, nothing *)
(* stays mounted at the mountpoint (spec 8).                               *)
ShutdownLeavesNoMount ==
    (op = "shutdown" /\ pc = "idle" /\ raised = "none") => mnts = << >>

(* Inductive strengthening of ShutdownClean.  With one launch the mount   *)
(* table holds at most that daemon's entry, a daemon that stopped on      *)
(* SIGTERM has removed it, and the caller's blocking points belong to the *)
(* method that entered them.                                               *)
OneDaemonMount ==
    Cur = 1 => (mnts = << >> \/ (mnts = <<1>> /\ procs[1].served))

StoppedUnmounted ==
    (Cur = 1 /\ procs[1].st = "exited" /\ procs[1].rc = 0) => mnts = << >>

BlockedInMethod ==
    /\ pc = "waiting" => op \in {"mount", "wait_mount"}
    /\ pc = "stopping" => op = "shutdown"

IInv ==
    /\ TypeOK
    /\ OneDaemonMount
    /\ StoppedUnmounted
    /\ BlockedInMethod
    /\ ShutdownClean

(* The loop of _wait_for_mount gives up within its budget of Timeout      *)
(* iterations (spec 4.4: a 300-unit timeout budget, then                  *)
(* "mountpoint failed to come up").                                        *)
MountWaitBounded == polls <= Timeout

(* umount() is invoked during teardown "so it can't assert" (its own      *)
(* docstring): it never raises.                                            *)
UmountNeverRaises == raised # "assert_umount"

(* When _wait_for_mount reports the mountpoint up, the mount it saw is    *)
(* served by the daemon just launched (self.p), not by an earlier one.    *)
ReadyMeansOwnMount ==
    [][(pc = "waiting" /\ pc' = "idle" /\ raised' = "none") => Top = Cur]_vars

(* If the daemon dies while the caller waits for the mount, the wait      *)
(* ends: the self.p.poll() check of _wait_for_mount.                       *)
MountWaitEndsWhenDaemonDies ==
    (pc = "waiting" /\ Cur # 0 /\ procs[Cur].st = "exited") ~> (pc = "idle")

(* shutdown() does not block forever in p.wait(): it has sent SIGTERM.    *)
ShutdownReturns == (pc = "stopping") ~> (pc = "idle")

-----------------------------------------------------------------------------
(* The session Daemon implements: the same processes, mount table, caller *)
(* position and outcome, with elapsed, polls, op and confFile hidden.     *)
Abstract == INSTANCE Session

(* NydusDaemon implements the session of spec 4.4: every outcome of      *)
(* _wait_for_mount is one the state justifies (ready only when            *)
(* os.path.ismount holds, "premature" only when self.p has exited), every *)
(* failing call leaves processes and mounts alone, and shutdown() returns *)
(* once nydusd handles SIGTERM.                                           *)
SessionRefined == Abstract!Spec

=============================================================================
