--------------------------- MODULE DaemonRefinement ---------------------------
(***************************************************************************)
(* Proof that NydusDaemon, as modelled by Daemon, implements the safety   *)
(* part of the abstract session Session.  The refinement mapping is the   *)
(* identity on procs, mnts, pc and raised; the poll loop's elapsed and    *)
(* polls, the config file and the method history are hidden.  Every       *)
(* Daemon step is a Session step or leaves those four variables alone.    *)
(***************************************************************************)
EXTENDS DaemonProofs

(* A caller blocked in _wait_for_mount entered it through mount() or    *)
(* wait_mount(), which both cleared the outcome, and the loop sets it    *)
(* only when it exits.                                                    *)
WaitingNoError == pc = "waiting" => raised = "none"

LEMMA WaitingNoErrorInductive ==
    WaitingNoError /\ [Next]_vars => WaitingNoError'
<1> SUFFICES ASSUME WaitingNoError, [Next]_vars PROVE WaitingNoError'
  OBVIOUS
<1>1. ASSUME NEW limited \in BOOLEAN, NEW wait \in BOOLEAN,
             NEW dump \in BOOLEAN, Mount(limited, wait, dump)
      PROVE  WaitingNoError'
  BY <1>1 DEF Mount, WaitingNoError
<1>2. CASE PollStep
  BY <1>2 DEF PollStep, Spin, WaitingNoError
<1>3. CASE Start \/ WaitMount \/ Umount \/ Shutdown \/ ShutdownWait
  BY <1>3 DEF Start, WaitMount, Umount, Shutdown, ShutdownWait, WaitingNoError
<1>4. ASSUME NEW i \in Launched,
             DaemonMount(i) \/ DaemonCrash(i) \/ DaemonStop(i)
      PROVE  WaitingNoError'
  BY <1>4 DEF DaemonMount, DaemonCrash, DaemonStop, WaitingNoError
<1>5. CASE UNCHANGED vars
  BY <1>5 DEF vars, WaitingNoError
<1>6. QED
  BY <1>1, <1>2, <1>3, <1>4, <1>5, NextCases

(* The abstract mount probe is os.path.ismount. *)
LEMMA ProbeIsMount == Abstract!MountUp <=> IsMount
BY DEF Abstract!MountUp, IsMount, Abstract!Top, Top

(* Initial states of NydusDaemon are initial states of the session. *)
LEMMA InitRefines == Init => Abstract!Init
BY DEF Init, Abstract!Init

(* _wait_for_mount: every exit of the loop is an outcome the session     *)
(* allows, and a further iteration changes only elapsed and polls.       *)
LEMMA PollStepRefines ==
    ASSUME TypeOK, WaitingNoError, PollStep
    PROVE  [Abstract!Next]_Abstract!svars
<1>1. CASE elapsed >= Timeout
  <2>1. Abstract!WaitEnds
    BY <1>1 DEF PollStep, Abstract!WaitEnds
  <2>2. QED BY <2>1 DEF Abstract!Next
<1>2. CASE ~(elapsed >= Timeout) /\ IsMount
  <2>1. pc = "waiting" /\ pc' = "idle" /\ raised' = "none"
        /\ procs' = procs /\ mnts' = mnts
    BY <1>2, Zenon DEF PollStep, WaitingNoError
  <2>2. Abstract!WaitEnds
    BY <1>2, <2>1, ProbeIsMount DEF Abstract!WaitEnds
  <2>3. QED BY <2>2 DEF Abstract!Next
<1>3. CASE ~(elapsed >= Timeout) /\ ~IsMount
  <2>1. \/ Cur = 0 /\ pc' = "idle" /\ raised' = "no_process"
        \/ Cur # 0 /\ procs[Cur].st = "exited" /\ pc' = "idle" /\ raised' = "premature"
        \/ Spin /\ UNCHANGED <<pc, raised>>
    BY <1>3 DEF PollStep
  <2>2. pc = "waiting" /\ UNCHANGED <<procs, mnts>>
    BY DEF PollStep
  <2>3. CASE Spin /\ UNCHANGED <<pc, raised>>
    BY <2>2, <2>3 DEF Abstract!svars
  <2>4. CASE ~(Spin /\ UNCHANGED <<pc, raised>>)
    <3>1. Abstract!WaitEnds
      BY <1>3, <2>1, <2>2, <2>4, ProbeIsMount DEF Abstract!WaitEnds, Abstract!Cur, Cur
    <3>2. QED BY <3>1 DEF Abstract!Next
  <2>5. QED BY <2>3, <2>4
<1>4. QED BY <1>1, <1>2, <1>3

(* shutdown(): with self.p unset it raises, and nothing is mounted then; *)
(* otherwise it is the session's Stop.                                   *)
LEMMA ShutdownRefines ==
    ASSUME TypeOK, Shutdown
    PROVE  [Abstract!Next]_Abstract!svars
<1>1. CASE Cur = 0
  <2>1. mnts = << >>
    BY <1>1, NoLaunchNoMount
  <2>2. ~IsMount
    BY <2>1 DEF IsMount
  <2>3. Abstract!Raise
    BY <1>1, <2>2 DEF Shutdown, Abstract!Raise, Abstract!CallErrors
  <2>4. QED BY <2>3 DEF Abstract!Next
<1>2. CASE Cur # 0
  <2>1. Abstract!Stop
    BY <1>2, ProbeIsMount DEF Shutdown, Abstract!Stop, Abstract!Cur, Cur, Abstract!Pop, Pop
  <2>2. QED BY <2>1 DEF Abstract!Next
<1>3. QED BY <1>1, <1>2

(* Each step of NydusDaemon or of a nydusd process is a session step or *)
(* a stutter of the session's variables.                                 *)
LEMMA StepRefines ==
    TypeOK /\ WaitingNoError /\ [Next]_vars => [Abstract!Next]_Abstract!svars
<1> SUFFICES ASSUME TypeOK, WaitingNoError, [Next]_vars PROVE [Abstract!Next]_Abstract!svars
  OBVIOUS
<1>1. ASSUME NEW limited \in BOOLEAN, NEW wait \in BOOLEAN,
             NEW dump \in BOOLEAN, Mount(limited, wait, dump)
      PROVE  [Abstract!Next]_Abstract!svars
  <2>1. CASE limited
    <3>1. Abstract!Raise
      BY <1>1, <2>1 DEF Mount, Abstract!Raise, Abstract!CallErrors
    <3>2. QED BY <3>1 DEF Abstract!Next
  <2>2. CASE ~limited
    <3>1. Abstract!Launch(wait)
      BY <1>1, <2>2 DEF Mount, Abstract!Launch
    <3>2. QED BY <3>1 DEF Abstract!Next
  <2>3. QED BY <2>1, <2>2
<1>2. CASE Start
  <2>0. confFile \in BOOLEAN
    BY DEF TypeOK
  <2>1. Abstract!Launch(FALSE)
    BY <1>2, <2>0 DEF Start, Launch, Abstract!Launch
  <2>2. QED BY <2>1 DEF Abstract!Next
<1>3. CASE WaitMount
  <2>1. Abstract!EnterWait
    BY <1>3 DEF WaitMount, Abstract!EnterWait
  <2>2. QED BY <2>1 DEF Abstract!Next
<1>4. CASE PollStep
  BY <1>4, PollStepRefines
<1>5. CASE Umount
  <2>1. CASE mnts # << >>
    <3>1. Abstract!Detach
      BY <1>5, <2>1 DEF Umount, Abstract!Detach, Abstract!Pop, Pop
    <3>2. QED BY <3>1 DEF Abstract!Next
  <2>2. CASE mnts = << >>
    <3>1. Abstract!Raise
      BY <1>5, <2>2 DEF Umount, Abstract!Raise, Abstract!CallErrors
    <3>2. QED BY <3>1 DEF Abstract!Next
  <2>3. QED BY <2>1, <2>2
<1>6. CASE Shutdown
  BY <1>6, ShutdownRefines
<1>7. CASE ShutdownWait
  <2>1. Abstract!StopEnds
    BY <1>7 DEF ShutdownWait, Abstract!StopEnds, Abstract!Cur, Cur
  <2>2. QED BY <2>1 DEF Abstract!Next
<1>8. ASSUME NEW i \in Launched, DaemonMount(i) PROVE [Abstract!Next]_Abstract!svars
  <2>1. Abstract!ProcMount(i)
    BY <1>8 DEF DaemonMount, DeadMountOnTop, Top, Abstract!ProcMount, Abstract!Top
  <2>2. QED BY <2>1 DEF Abstract!Next, Launched
<1>9. ASSUME NEW i \in Launched, DaemonCrash(i) PROVE [Abstract!Next]_Abstract!svars
  <2>1. Abstract!ProcCrash(i)
    BY <1>9 DEF DaemonCrash, Abstract!ProcCrash
  <2>2. QED BY <2>1 DEF Abstract!Next, Launched
<1>10. ASSUME NEW i \in Launched, DaemonStop(i) PROVE [Abstract!Next]_Abstract!svars
  <2>1. Abstract!ProcStop(i)
    BY <1>10 DEF DaemonStop, Top, Pop, Abstract!ProcStop, Abstract!Top, Abstract!Pop
  <2>2. QED BY <2>1 DEF Abstract!Next, Launched
<1>11. CASE UNCHANGED vars
  BY <1>11 DEF vars, Abstract!svars
<1>12. QED
  BY <1>1, <1>2, <1>3, <1>4, <1>5, <1>6, <1>7, <1>8, <1>9, <1>10, <1>11,
     NextCases

(* NydusDaemon implements the safety part of the session of spec 4.4     *)
(* (SessionRefined without its fairness), for every Timeout, MaxLaunch   *)
(* and MaxPolls: _wait_for_mount reports ready only when the mountpoint  *)
(* is up and "premature" only when self.p has exited, and a failing call *)
(* leaves the processes and the mount table as they were.                *)
THEOREM SessionRefinement == Spec => Abstract!SafeSpec
<1>1. Init => Abstract!Init
  BY InitRefines
<1>2. TypeOK /\ WaitingNoError /\ [Next]_vars => [Abstract!Next]_Abstract!svars
  BY StepRefines
<1>3. Spec => []WaitingNoError
  <2>1. Init => WaitingNoError
    BY DEF Init, WaitingNoError
  <2>2. QED
    BY <2>1, WaitingNoErrorInductive, PTL DEF Spec
<1>4. QED
  BY <1>1, <1>2, <1>3, TypeCorrect, PTL DEF Abstract!SafeSpec, Spec

=============================================================================
