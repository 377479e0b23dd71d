---------------------------- MODULE DaemonProofs ----------------------------
(***************************************************************************)
(* Proofs about the nydusd lifecycle of Daemon, for every Timeout,         *)
(* MaxLaunch and MaxPolls: type correctness, and that a shutdown() which   *)
(* returns on a once-launched NydusDaemon leaves the daemon exited with    *)
(* status 0 and nothing mounted.                                            *)
(***************************************************************************)
EXTENDS Daemon, SequenceTheorems, TLAPS

(* Every way the caller or a daemon can move. *)
LEMMA NextCases ==
    ASSUME [Next]_vars
    PROVE  \/ \E limited, wait, dump \in BOOLEAN : Mount(limited, wait, dump)
           \/ Start \/ WaitMount \/ PollStep \/ Umount \/ Shutdown
           \/ ShutdownWait
           \/ \E i \in Launched : DaemonMount(i)
           \/ \E i \in Launched : DaemonCrash(i)
           \/ \E i \in Launched : DaemonStop(i)
           \/ UNCHANGED vars
BY DEF Next, Caller, Daemons

(* Popping the top of a mount stack keeps it a stack of launched daemons. *)
LEMMA PopType ==
    ASSUME NEW S, NEW s \in Seq(S), s # << >>
    PROVE  Pop(s) \in Seq(S) /\ Len(Pop(s)) = Len(s) - 1
<1>0. Len(s) \in Nat /\ Len(s) # 0
  BY EmptySeq, LenProperties
<1>1. PICK n \in Nat : n = Len(s) - 1
  BY <1>0
<1>2. \A i \in 1..n : s[i] \in S
  BY <1>1, LenProperties
<1>3. SubSeq(s, 1, n) \in Seq(S) /\ Len(SubSeq(s, 1, n)) = n
  BY <1>1, <1>2, SubSeqProperties
<1>4. QED
  BY <1>1, <1>3 DEF Pop

(* Launching appends a daemon record to procs. *)
LEMMA LaunchType ==
    ASSUME NEW p \in Seq(Proc), NEW e \in Proc
    PROVE  /\ Append(p, e) \in Seq(Proc)
           /\ Len(Append(p, e)) = Len(p) + 1
           /\ Append(p, e)[Len(p) + 1] = e
BY AppendProperties

(* A mount stack over the first n daemons is one over the first n + 1. *)
LEMMA MntsWiden ==
    ASSUME NEW n \in Nat, NEW m \in Seq(1..n)
    PROVE  m \in Seq(1..n + 1)
BY SeqMonotonic

(* Setting fields of one launched daemon keeps procs a sequence of Proc  *)
(* of the same length.                                                     *)
LEMMA ProcRecord ==
    ASSUME NEW p \in Seq(Proc), NEW i \in 1..Len(p), NEW r \in Proc
    PROVE  /\ [p EXCEPT ![i] = r] \in Seq(Proc)
           /\ Len([p EXCEPT ![i] = r]) = Len(p)
BY ExceptSeq

LEMMA ProcSetSt ==
    ASSUME NEW p \in Seq(Proc), NEW i \in 1..Len(p), NEW st \in ProcStates
    PROVE  /\ [p EXCEPT ![i].st = st] \in Seq(Proc)
           /\ Len([p EXCEPT ![i].st = st]) = Len(p)
<1>1. p[i] \in Proc
  BY ElementOfSeq
<1>2. [p[i] EXCEPT !.st = st] \in Proc
  BY <1>1 DEF Proc
<1>3. [p EXCEPT ![i].st = st] = [p EXCEPT ![i] = [p[i] EXCEPT !.st = st]]
  OBVIOUS
<1>4. QED
  BY <1>2, <1>3, ProcRecord

LEMMA ProcSetExit ==
    ASSUME NEW p \in Seq(Proc), NEW i \in 1..Len(p), NEW rc \in {0, 1}
    PROVE  /\ [p EXCEPT ![i].st = "exited", ![i].rc = rc] \in Seq(Proc)
           /\ Len([p EXCEPT ![i].st = "exited", ![i].rc = rc]) = Len(p)
<1>1. p[i] \in Proc
  BY ElementOfSeq
<1>2. [p[i] EXCEPT !.st = "exited", !.rc = rc] \in Proc
  BY <1>1 DEF Proc, ProcStates
<1>3. [p EXCEPT ![i].st = "exited", ![i].rc = rc]
        = [p EXCEPT ![i] = [p[i] EXCEPT !.st = "exited", !.rc = rc]]
  OBVIOUS
<1>4. QED
  BY <1>2, <1>3, ProcRecord

LEMMA ProcSetServed ==
    ASSUME NEW p \in Seq(Proc), NEW i \in 1..Len(p)
    PROVE  /\ [p EXCEPT ![i].served = TRUE] \in Seq(Proc)
           /\ Len([p EXCEPT ![i].served = TRUE]) = Len(p)
<1>1. p[i] \in Proc
  BY ElementOfSeq
<1>2. [p[i] EXCEPT !.served = TRUE] \in Proc
  BY <1>1 DEF Proc
<1>3. [p EXCEPT ![i].served = TRUE] = [p EXCEPT ![i] = [p[i] EXCEPT !.served = TRUE]]
  OBVIOUS
<1>4. QED
  BY <1>2, <1>3, ProcRecord

(* TypeOK, split into the parts the provers handle separately: the      *)
(* sequences and their lengths, the strings and Booleans, the integers.  *)
Stacks ==
    /\ procs \in Seq(Proc)
    /\ Len(procs) <= MaxLaunch
    /\ mnts \in Seq(1..Len(procs))

Scalars ==
    /\ confFile \in BOOLEAN
    /\ pc \in {"idle", "waiting", "stopping"}
    /\ op \in Ops
    /\ raised \in Errors

Counters == elapsed \in Int /\ polls \in 0..MaxPolls

StoppingHasProcess == pc = "stopping" => Cur # 0

LEMMA TypeOKParts ==
    TypeOK <=> Stacks /\ Scalars /\ Counters /\ StoppingHasProcess
BY DEF TypeOK, Stacks, Scalars, Counters, StoppingHasProcess

LEMMA TypeOKPartsNext ==
    TypeOK' <=> Stacks' /\ Scalars' /\ Counters' /\ StoppingHasProcess'
BY DEF TypeOK, Stacks, Scalars, Counters, StoppingHasProcess

-----------------------------------------------------------------------------
(* The initial state of a NydusDaemon object is well typed. *)
LEMMA TypeInit == Init => TypeOK
<1> SUFFICES ASSUME Init PROVE TypeOK
  OBVIOUS
<1>1. Stacks
  BY EmptySeq, MaxLaunchAssumption DEF Init, Stacks
<1>2. Scalars BY DEF Init, Scalars, Ops, Errors
<1>3. Counters BY MaxPollsAssumption DEF Init, Counters
<1>4. StoppingHasProcess BY DEF Init, StoppingHasProcess
<1>5. QED BY <1>1, <1>2, <1>3, <1>4, TypeOKParts

(* One step of the caller or of a daemon keeps every variable of Daemon *)
(* in its type.                                                          *)
LEMMA TypeInductive == TypeOK /\ [Next]_vars => TypeOK'
<1> SUFFICES ASSUME TypeOK, [Next]_vars PROVE TypeOK'
  OBVIOUS
<1> USE DEF TypeOK
<1>1. ASSUME NEW limited \in BOOLEAN, NEW wait \in BOOLEAN,
             NEW dump \in BOOLEAN, Mount(limited, wait, dump)
      PROVE  TypeOK'
  <2>1. CASE limited
    <3>1. Stacks' BY <1>1, <2>1 DEF Mount, Stacks
    <3>2. Scalars' BY <1>1, <2>1 DEF Mount, Scalars, Ops, Errors
    <3>3. Counters' BY <1>1, <2>1 DEF Mount, Counters
    <3>4. StoppingHasProcess' BY <1>1, <2>1 DEF Mount, StoppingHasProcess
    <3>5. QED BY <3>1, <3>2, <3>3, <3>4, TypeOKPartsNext
  <2>2. CASE ~limited
    <3>1. procs' \in Seq(Proc) /\ Len(procs') = Len(procs) + 1
      <4>1. [st |-> "running", rc |-> 0, cfg |-> confFile', served |-> FALSE] \in Proc
        BY <1>1 DEF Mount, Proc, ProcStates
      <4>2. QED
        BY <1>1, <2>2, <4>1, LaunchType DEF Mount
    <3>2. Stacks'
      BY <1>1, <3>1, MntsWiden, MaxLaunchAssumption DEF Mount, Stacks
    <3>3. Scalars' BY <1>1, <2>2 DEF Mount, Scalars, Ops, Errors
    <3>4. Counters' BY <1>1, <2>2, MaxPollsAssumption DEF Mount, Counters
    <3>5. StoppingHasProcess' BY <1>1, <2>2, <3>1 DEF Mount, StoppingHasProcess
    <3>6. QED BY <3>2, <3>3, <3>4, <3>5, TypeOKPartsNext
  <2>3. QED
    BY <2>1, <2>2
<1>2. CASE Start
  <2>1. procs' \in Seq(Proc) /\ Len(procs') = Len(procs) + 1
    <3>1. [st |-> "running", rc |-> 0, cfg |-> confFile, served |-> FALSE] \in Proc
      BY DEF Proc, ProcStates
    <3>2. QED
      BY <1>2, <3>1, LaunchType DEF Start, Launch
  <2>2. Stacks'
    <3>1. Len(procs) \in Nat
      BY LenProperties
    <3>2. mnts' \in Seq(1..Len(procs) + 1)
      BY <1>2, <3>1, MntsWiden DEF Start
    <3>3. Len(procs') <= MaxLaunch
      BY <1>2, <2>1, <3>1, MaxLaunchAssumption DEF Start
    <3>4. QED
      BY <2>1, <3>2, <3>3 DEF Stacks
  <2>3. Scalars' BY <1>2 DEF Start, Scalars, Ops, Errors
  <2>4. Counters' BY <1>2 DEF Start, Counters
  <2>5. StoppingHasProcess' BY <1>2 DEF Start, StoppingHasProcess
  <2>6. QED BY <2>2, <2>3, <2>4, <2>5, TypeOKPartsNext
<1>3. CASE WaitMount
  <2>1. Stacks' BY <1>3 DEF WaitMount, Stacks
  <2>2. Scalars' BY <1>3 DEF WaitMount, Scalars, Ops, Errors
  <2>3. Counters' BY <1>3, MaxPollsAssumption DEF WaitMount, Counters
  <2>4. StoppingHasProcess' BY <1>3 DEF WaitMount, StoppingHasProcess
  <2>5. QED BY <2>1, <2>2, <2>3, <2>4, TypeOKPartsNext
<1>4. CASE PollStep
  <2>1. Stacks' BY <1>4 DEF PollStep, Spin, Stacks
  <2>2. Scalars' BY <1>4 DEF PollStep, Spin, Scalars, Errors
  <2>3. Counters'
    <3>1. CASE elapsed >= Timeout
      BY <1>4, <3>1 DEF PollStep, Spin, Counters
    <3>2. CASE ~(elapsed >= Timeout)
      BY <1>4, <3>2, MaxPollsAssumption DEF PollStep, Spin, Counters
    <3>3. QED BY <3>1, <3>2
  <2>4. StoppingHasProcess' BY <1>4 DEF PollStep, Spin, StoppingHasProcess
  <2>5. QED BY <2>1, <2>2, <2>3, <2>4, TypeOKPartsNext
<1>5. CASE Umount
  <2>1. Stacks'
    <3>1. CASE mnts # << >>
      BY <1>5, <3>1, PopType DEF Umount, Stacks
    <3>2. CASE mnts = << >>
      BY <1>5, <3>2 DEF Umount, Stacks
    <3>3. QED BY <3>1, <3>2
  <2>2. Scalars' BY <1>5 DEF Umount, Scalars, Ops, Errors
  <2>3. Counters' BY <1>5 DEF Umount, Counters
  <2>4. StoppingHasProcess' BY <1>5 DEF Umount, StoppingHasProcess
  <2>5. QED BY <2>1, <2>2, <2>3, <2>4, TypeOKPartsNext
<1>6. CASE Shutdown
  <2>1. mnts' \in Seq(1..Len(procs))
    BY <1>6, PopType DEF Shutdown, IsMount
  <2>2. procs' \in Seq(Proc) /\ Len(procs') = Len(procs)
    <3>1. CASE Cur # 0 /\ procs[Cur].st = "running"
      <4>1. Cur \in 1..Len(procs)
        BY <3>1, LenProperties DEF Cur
      <4>2. "terminating" \in ProcStates
        BY DEF ProcStates
      <4>3. QED
        BY <1>6, <3>1, <4>1, <4>2, ProcSetSt DEF Shutdown
    <3>2. CASE ~(Cur # 0 /\ procs[Cur].st = "running")
      BY <1>6, <3>2 DEF Shutdown
    <3>3. QED BY <3>1, <3>2
  <2>3. Stacks' BY <2>1, <2>2 DEF Stacks
  <2>4. Scalars' BY <1>6 DEF Shutdown, Scalars, Ops, Errors
  <2>5. Counters' BY <1>6 DEF Shutdown, Counters
  <2>6. StoppingHasProcess' BY <1>6, <2>2 DEF Shutdown, StoppingHasProcess, Cur
  <2>7. QED BY <2>3, <2>4, <2>5, <2>6, TypeOKPartsNext
<1>7. CASE ShutdownWait
  <2>1. Stacks' BY <1>7 DEF ShutdownWait, Stacks
  <2>2. Scalars' BY <1>7 DEF ShutdownWait, Scalars, Errors
  <2>3. Counters' BY <1>7 DEF ShutdownWait, Counters
  <2>4. StoppingHasProcess' BY <1>7 DEF ShutdownWait, StoppingHasProcess
  <2>5. QED BY <2>1, <2>2, <2>3, <2>4, TypeOKPartsNext
<1>8. ASSUME NEW i \in Launched, DaemonMount(i) PROVE TypeOK'
  <2>1. procs' \in Seq(Proc) /\ Len(procs') = Len(procs)
    <3>1. i \in 1..Len(procs)
      BY DEF Launched
    <3>2. QED
      BY <1>8, <3>1, ProcSetServed DEF DaemonMount
  <2>2. mnts' \in Seq(1..Len(procs))
    BY <1>8, AppendProperties DEF DaemonMount, Launched
  <2>3. Stacks' BY <2>1, <2>2 DEF Stacks
  <2>4. Scalars' BY <1>8 DEF DaemonMount, Scalars
  <2>5. Counters' BY <1>8 DEF DaemonMount, Counters
  <2>6. StoppingHasProcess' BY <1>8, <2>1 DEF DaemonMount, StoppingHasProcess, Cur
  <2>7. QED BY <2>3, <2>4, <2>5, <2>6, TypeOKPartsNext
<1>9. ASSUME NEW i \in Launched, DaemonCrash(i) PROVE TypeOK'
  <2>1. procs' \in Seq(Proc) /\ Len(procs') = Len(procs)
    <3>1. i \in 1..Len(procs)
      BY DEF Launched
    <3>2. QED
      BY <1>9, <3>1, ProcSetExit DEF DaemonCrash
  <2>2. Stacks' BY <1>9, <2>1 DEF DaemonCrash, Stacks
  <2>3. Scalars' BY <1>9 DEF DaemonCrash, Scalars
  <2>4. Counters' BY <1>9 DEF DaemonCrash, Counters
  <2>5. StoppingHasProcess' BY <1>9, <2>1 DEF DaemonCrash, StoppingHasProcess, Cur
  <2>6. QED BY <2>2, <2>3, <2>4, <2>5, TypeOKPartsNext
<1>10. ASSUME NEW i \in Launched, DaemonStop(i) PROVE TypeOK'
  <2>1. procs' \in Seq(Proc) /\ Len(procs') = Len(procs)
    <3>1. i \in 1..Len(procs)
      BY DEF Launched
    <3>2. QED
      BY <1>10, <3>1, ProcSetExit DEF DaemonStop
  <2>2. mnts' \in Seq(1..Len(procs))
    BY <1>10, PopType DEF DaemonStop
  <2>3. Stacks' BY <2>1, <2>2 DEF Stacks
  <2>4. Scalars' BY <1>10 DEF DaemonStop, Scalars
  <2>5. Counters' BY <1>10 DEF DaemonStop, Counters
  <2>6. StoppingHasProcess' BY <1>10, <2>1 DEF DaemonStop, StoppingHasProcess, Cur
  <2>7. QED BY <2>3, <2>4, <2>5, <2>6, TypeOKPartsNext
<1>11. CASE UNCHANGED vars
  BY <1>11 DEF vars, TypeOK, Cur
<1>12. QED
  BY <1>1, <1>2, <1>3, <1>4, <1>5, <1>6, <1>7, <1>8, <1>9, <1>10,
     <1>11, NextCases

(* The caller and the daemons keep every variable of Daemon in its type.  *)
THEOREM TypeCorrect == Spec => []TypeOK
<1>1. Init => TypeOK
  BY TypeInit
<1>2. TypeOK /\ [Next]_vars => TypeOK'
  BY TypeInductive
<1>3. QED
  BY <1>1, <1>2, PTL DEF Spec

-----------------------------------------------------------------------------
(* Before the first launch nothing can be mounted by one of our daemons. *)
LEMMA NoLaunchNoMount ==
    ASSUME TypeOK, Cur = 0
    PROVE  mnts = << >>
<1>1. mnts \in Seq(1..0)
  BY DEF TypeOK, Cur
<1>2. Len(mnts) = 0
  <2>1. Len(mnts) \in Nat
    BY <1>1, LenProperties
  <2>2. SUFFICES ASSUME Len(mnts) # 0 PROVE FALSE
    BY <2>1
  <2>3. mnts[1] \in 1..0
    BY <1>1, <2>1, <2>2, ElementOfSeq
  <2>4. QED
    BY <2>3
<1>3. QED
  BY <1>1, <1>2, EmptySeq

(* Unmounting the only entry of a stack empties it. *)
LEMMA PopOne == Pop(<<1>>) = << >>
<1>1. <<1>> \in Seq(Nat) /\ Len(<<1>>) = 1
  OBVIOUS
<1>2. <<1>> # << >>
  BY <1>1, EmptySeq
<1>3. Pop(<<1>>) \in Seq(Nat) /\ Len(Pop(<<1>>)) = Len(<<1>>) - 1
  BY <1>1, <1>2, PopType
<1>4. Len(Pop(<<1>>)) = 0
  BY <1>1, <1>3
<1>5. QED
  BY <1>3, <1>4, EmptySeq

(* With one launch, the strengthening fixes the mount table to the two   *)
(* shapes of OneDaemonMount.                                              *)
LEMMA OneLaunchShapes ==
    ASSUME TypeOK, OneDaemonMount, Cur = 1
    PROVE  /\ procs[1] \in Proc
           /\ mnts = << >> \/ mnts = <<1>>
           /\ Launched = {1}
BY ElementOfSeq DEF OneDaemonMount, Cur, Launched, TypeOK

(* A launch adds one daemon after the others. *)
LEMMA LaunchLen ==
    ASSUME NEW s \in Seq(Proc), NEW e
    PROVE  /\ Len(Append(s, e)) = Len(s) + 1
           /\ Append(s, e)[Len(s) + 1] = e
<1>1. s \in Seq(Proc \cup {e})
  BY SeqMonotonic
<1>2. QED
  BY <1>1, AppendProperties

(* The parts of the strengthening other than TypeOK. *)
Rest == OneDaemonMount /\ StoppedUnmounted /\ BlockedInMethod /\ ShutdownClean

(* A step that launches a daemon: a mount table that a single launched    *)
(* daemon could own is still empty, and the caller is not back from a    *)
(* shutdown().                                                            *)
LEMMA LaunchKeepsRest ==
    ASSUME TypeOK, Rest, pc = "idle",
           procs' = Append(procs, [st |-> "running", rc |-> 0,
                                   cfg |-> confFile', served |-> FALSE]),
           mnts' = mnts, op' \in {"mount", "start"},
           pc' = "waiting" => op' = "mount",
           pc' \in {"idle", "waiting"}
    PROVE  Rest'
<1>1. Cur' = Cur + 1
  BY LaunchLen DEF TypeOK, Cur
<1>2. Cur' = 1 => mnts' = << >>
  <2>1. Cur \in Nat
    BY LenProperties DEF TypeOK, Cur
  <2>2. Cur' = 1 => Cur = 0
    BY <1>1, <2>1
  <2>3. QED
    BY <2>2, NoLaunchNoMount
<1>3. OneDaemonMount' /\ StoppedUnmounted'
  BY <1>2 DEF OneDaemonMount, StoppedUnmounted
<1>4. BlockedInMethod' /\ ShutdownClean'
  BY DEF BlockedInMethod, ShutdownClean
<1>5. QED
  BY <1>3, <1>4 DEF Rest

(* The steps of the caller that block or return from a blocking point   *)
(* touch neither procs nor mnts.                                          *)
LEMMA FrameKeepsMounts ==
    ASSUME OneDaemonMount, StoppedUnmounted, UNCHANGED <<procs, mnts>>
    PROVE  OneDaemonMount' /\ StoppedUnmounted'
BY DEF OneDaemonMount, StoppedUnmounted, Cur

(* Setting the state of one daemon leaves the record of that daemon     *)
(* otherwise as it was.                                                  *)
LEMMA SetStAt ==
    ASSUME NEW p \in Seq(Proc), NEW i \in 1..Len(p), NEW v
    PROVE  [p EXCEPT ![i].st = v][i] = [p[i] EXCEPT !.st = v]
<1>1. DOMAIN p = 1..Len(p)
  OBVIOUS
<1>2. QED
  BY <1>1

(* A daemon that has not exited cannot move once shutdown() has returned *)
(* cleanly: that return saw it exited.                                    *)
LEMMA DaemonKeepsShutdownClean ==
    ASSUME ShutdownClean, Cur = 1 => procs[1].st # "exited",
           UNCHANGED <<op, pc, raised>>, Len(procs') = Len(procs)
    PROVE  ShutdownClean'
BY DEF ShutdownClean, Cur

(* The strengthening is preserved by every step of the caller and of the *)
(* daemons.                                                               *)
LEMMA RestInductive ==
    ASSUME TypeOK, Rest, [Next]_vars
    PROVE  Rest'
<1> USE DEF Rest
<1>1. ASSUME NEW limited \in BOOLEAN, NEW wait \in BOOLEAN,
             NEW dump \in BOOLEAN, Mount(limited, wait, dump)
      PROVE  Rest'
  <2>1. CASE limited
    <3>1. OneDaemonMount' /\ StoppedUnmounted'
      BY <1>1, <2>1, FrameKeepsMounts DEF Mount
    <3>2. BlockedInMethod' /\ ShutdownClean'
      BY <1>1, <2>1 DEF Mount, BlockedInMethod, ShutdownClean
    <3>3. QED BY <3>1, <3>2
  <2>2. CASE ~limited
    BY <1>1, <2>2, LaunchKeepsRest DEF Mount
  <2>3. QED BY <2>1, <2>2
<1>2. CASE Start
  BY <1>2, LaunchKeepsRest DEF Start, Launch
<1>3. CASE WaitMount
  <2>1. OneDaemonMount' /\ StoppedUnmounted'
    BY <1>3, FrameKeepsMounts DEF WaitMount
  <2>2. BlockedInMethod' /\ ShutdownClean'
    BY <1>3 DEF WaitMount, BlockedInMethod, ShutdownClean
  <2>3. QED BY <2>1, <2>2
<1>4. CASE PollStep
  <2>1. OneDaemonMount' /\ StoppedUnmounted'
    BY <1>4, FrameKeepsMounts DEF PollStep, Spin
  <2>2. op \in {"mount", "wait_mount"} /\ op' = op
    BY <1>4 DEF PollStep, Spin, BlockedInMethod
  <2>3. pc' \in {"idle", "waiting"}
    BY <1>4 DEF PollStep, Spin
  <2>4. BlockedInMethod' /\ ShutdownClean'
    BY <2>2, <2>3 DEF BlockedInMethod, ShutdownClean
  <2>5. QED BY <2>1, <2>4
<1>5. CASE Umount
  <2>1. OneDaemonMount'
    <3>1. SUFFICES ASSUME Cur' = 1 PROVE OneDaemonMount'
      BY DEF OneDaemonMount
    <3>2. Cur = 1 /\ procs' = procs
      BY <1>5, <3>1 DEF Umount, Cur
    <3>3. mnts = << >> \/ mnts = <<1>>
      BY <3>2, OneLaunchShapes
    <3>4. mnts' = << >> \/ (mnts' = mnts /\ mnts = <<1>>)
      BY <1>5, <3>3, PopOne DEF Umount
    <3>5. QED
      BY <3>2, <3>4 DEF OneDaemonMount, Cur
  <2>2. StoppedUnmounted'
    BY <1>5 DEF Umount, StoppedUnmounted, Cur
  <2>3. BlockedInMethod' /\ ShutdownClean'
    BY <1>5 DEF Umount, BlockedInMethod, ShutdownClean
  <2>4. QED BY <2>1, <2>2, <2>3
<1>6. CASE ShutdownWait
  <2>1. OneDaemonMount' /\ StoppedUnmounted'
    BY <1>6, FrameKeepsMounts DEF ShutdownWait
  <2>2. BlockedInMethod'
    BY <1>6 DEF ShutdownWait, BlockedInMethod
  <2>3. ShutdownClean'
    <3>1. SUFFICES ASSUME op' = "shutdown", pc' = "idle", raised' = "none",
                          Cur' = 1
                   PROVE  procs'[1].st = "exited" /\ procs'[1].rc = 0
                          /\ mnts' = << >>
      BY DEF ShutdownClean
    <3>2. Cur = 1 /\ procs' = procs /\ mnts' = mnts
      BY <1>6, <3>1 DEF ShutdownWait, Cur
    <3>3. procs[1].st = "exited" /\ procs[1].rc = 0
      BY <1>6, <3>1, <3>2 DEF ShutdownWait
    <3>4. QED
      BY <3>2, <3>3 DEF StoppedUnmounted
  <2>4. QED BY <2>1, <2>2, <2>3
<1>7. CASE Shutdown
  <2>1. CASE Cur = 0
    <3>1. mnts = << >>
      BY <2>1, NoLaunchNoMount
    <3>2. UNCHANGED <<procs, mnts>> /\ pc' = "idle" /\ raised' = "no_process"
      BY <1>7, <2>1, <3>1 DEF Shutdown, IsMount
    <3>3. OneDaemonMount' /\ StoppedUnmounted'
      BY <3>2, FrameKeepsMounts
    <3>4. BlockedInMethod' /\ ShutdownClean'
      BY <3>2 DEF BlockedInMethod, ShutdownClean
    <3>5. QED BY <3>3, <3>4
  <2>2. CASE Cur # 0
    <3>1. Cur \in 1..Len(procs) /\ "terminating" \in ProcStates
      BY <2>2, LenProperties DEF Cur, ProcStates
    <3>2. Len(procs') = Len(procs)
      BY <1>7, <2>2, <3>1, ProcSetSt DEF Shutdown
    <3>3. pc' = "stopping" /\ op' = "shutdown"
      BY <1>7, <2>2 DEF Shutdown
    <3>4. BlockedInMethod' /\ ShutdownClean'
      BY <3>3 DEF BlockedInMethod, ShutdownClean
    <3>5. CASE Cur # 1
      BY <3>2, <3>4, <3>5 DEF OneDaemonMount, StoppedUnmounted, Cur
    <3>6. CASE Cur = 1
      <4>1. procs[1] \in Proc /\ (mnts = << >> \/ mnts = <<1>>)
        BY <3>6, OneLaunchShapes
      <4>2. /\ procs'[1].served = procs[1].served
            /\ procs'[1].rc = procs[1].rc
            /\ procs'[1].st = "exited" => procs[1].st = "exited"
        <5>1. CASE procs[1].st = "running"
          <6>1. procs' = [procs EXCEPT ![1].st = "terminating"]
            BY <1>7, <3>6, <5>1 DEF Shutdown, Cur
          <6>2. procs'[1] = [procs[1] EXCEPT !.st = "terminating"]
            BY <3>1, <3>6, <6>1, SetStAt DEF Cur
          <6>3. QED
            BY <4>1, <6>2 DEF Proc
        <5>2. CASE procs[1].st # "running"
          BY <1>7, <3>6, <5>2 DEF Shutdown, Cur
        <5>3. QED BY <5>1, <5>2
      <4>3. mnts' = << >> \/ mnts' = mnts
        <5>1. CASE mnts = << >>
          BY <1>7, <5>1 DEF Shutdown, IsMount
        <5>2. CASE mnts = <<1>>
          BY <1>7, <5>2, PopOne DEF Shutdown
        <5>3. QED BY <4>1, <5>1, <5>2
      <4>4. OneDaemonMount'
        BY <3>2, <3>6, <4>2, <4>3 DEF OneDaemonMount, Cur
      <4>5. StoppedUnmounted'
        BY <3>2, <3>6, <4>2, <4>3 DEF StoppedUnmounted, Cur
      <4>6. QED BY <3>4, <4>4, <4>5
    <3>7. QED BY <3>5, <3>6
  <2>3. QED BY <2>1, <2>2
<1>8. ASSUME NEW i \in Launched, DaemonMount(i) PROVE Rest'
  <2>1. i \in 1..Len(procs)
    BY DEF Launched
  <2>2. Len(procs') = Len(procs)
    BY <1>8, <2>1, ProcSetServed DEF DaemonMount
  <2>3. BlockedInMethod'
    BY <1>8 DEF DaemonMount, BlockedInMethod
  <2>4. CASE Cur # 1
    <3>1. ShutdownClean'
      BY <1>8, <2>2, <2>4, DaemonKeepsShutdownClean DEF DaemonMount
    <3>2. QED
      BY <2>2, <2>3, <2>4, <3>1 DEF OneDaemonMount, StoppedUnmounted, Cur
  <2>5. CASE Cur = 1
    <3>1. i = 1 /\ procs[1] \in Proc
      BY <2>5, OneLaunchShapes
    <3>2. procs[1].st = "running" /\ ~procs[1].served
      BY <1>8, <3>1 DEF DaemonMount
    <3>3. mnts = << >>
      BY <2>5, <3>2 DEF OneDaemonMount
    <3>4. mnts' = <<1>>
      BY <1>8, <3>1, <3>3 DEF DaemonMount
    <3>5. procs'[1].served = TRUE /\ procs'[1].st = "running"
      BY <1>8, <2>1, <3>1, <3>2 DEF DaemonMount
    <3>6. OneDaemonMount' /\ StoppedUnmounted'
      BY <2>2, <2>5, <3>4, <3>5 DEF OneDaemonMount, StoppedUnmounted, Cur
    <3>7. ShutdownClean'
      BY <1>8, <2>2, <3>2, DaemonKeepsShutdownClean DEF DaemonMount
    <3>8. QED BY <2>3, <3>6, <3>7
  <2>6. QED BY <2>4, <2>5
<1>9. ASSUME NEW i \in Launched, DaemonCrash(i) PROVE Rest'
  <2>1. i \in 1..Len(procs)
    BY DEF Launched
  <2>2. Len(procs') = Len(procs)
    BY <1>9, <2>1, ProcSetExit DEF DaemonCrash
  <2>3. BlockedInMethod'
    BY <1>9 DEF DaemonCrash, BlockedInMethod
  <2>4. ShutdownClean'
    <3>1. Cur = 1 => procs[1].st # "exited"
      BY <1>9, OneLaunchShapes DEF DaemonCrash
    <3>2. QED
      BY <1>9, <2>2, <3>1, DaemonKeepsShutdownClean DEF DaemonCrash
  <2>5. CASE Cur # 1
    BY <2>2, <2>3, <2>4, <2>5 DEF OneDaemonMount, StoppedUnmounted, Cur
  <2>6. CASE Cur = 1
    <3>1. i = 1 /\ procs[1] \in Proc
      BY <2>6, OneLaunchShapes
    <3>2. procs'[1] = [procs[1] EXCEPT !.st = "exited", !.rc = 1]
      <4>1. procs' = [procs EXCEPT ![1].st = "exited", ![1].rc = 1]
        BY <1>9, <3>1 DEF DaemonCrash
      <4>2. procs \in Seq(Proc) /\ 1 \in 1..Len(procs)
        BY <2>1, <3>1 DEF TypeOK
      <4>3. 1 \in DOMAIN procs
        BY <4>2
      <4>4. QED
        BY <4>1, <4>3
    <3>3. procs'[1].served = procs[1].served /\ procs'[1].rc = 1
      BY <3>1, <3>2 DEF Proc
    <3>4. OneDaemonMount' /\ StoppedUnmounted'
      BY <1>9, <2>2, <2>6, <3>3 DEF DaemonCrash, OneDaemonMount,
         StoppedUnmounted, Cur
    <3>5. QED BY <2>3, <2>4, <3>4
  <2>7. QED BY <2>3, <2>4, <2>5, <2>6
<1>10. ASSUME NEW i \in Launched, DaemonStop(i) PROVE Rest'
  <2>1. i \in 1..Len(procs)
    BY DEF Launched
  <2>2. Len(procs') = Len(procs)
    BY <1>10, <2>1, ProcSetExit DEF DaemonStop
  <2>3. BlockedInMethod'
    BY <1>10 DEF DaemonStop, BlockedInMethod
  <2>4. ShutdownClean'
    <3>1. Cur = 1 => procs[1].st # "exited"
      BY <1>10, OneLaunchShapes DEF DaemonStop
    <3>2. QED
      BY <1>10, <2>2, <3>1, DaemonKeepsShutdownClean DEF DaemonStop
  <2>5. CASE Cur # 1
    BY <2>2, <2>3, <2>4, <2>5 DEF OneDaemonMount, StoppedUnmounted, Cur
  <2>6. CASE Cur = 1
    <3>1. i = 1 /\ (mnts = << >> \/ mnts = <<1>>)
      BY <2>6, OneLaunchShapes
    <3>2. mnts' = << >>
      <4>1. CASE mnts = << >>
        BY <1>10, <4>1 DEF DaemonStop
      <4>2. CASE mnts = <<1>>
        BY <1>10, <3>1, <4>2, PopOne DEF DaemonStop, Top
      <4>3. QED BY <3>1, <4>1, <4>2
    <3>3. QED
      BY <2>3, <2>4, <3>2 DEF OneDaemonMount, StoppedUnmounted
  <2>7. QED BY <2>3, <2>4, <2>5, <2>6
<1>11. CASE UNCHANGED vars
  BY <1>11 DEF vars, OneDaemonMount, StoppedUnmounted, BlockedInMethod,
     ShutdownClean, Cur
<1>12. QED
  BY <1>1, <1>2, <1>3, <1>4, <1>5, <1>6, <1>7, <1>8, <1>9, <1>10, <1>11,
     NextCases

(* IInv holds initially and is preserved by every step. *)
LEMMA IInvInit == Init => IInv
<1> SUFFICES ASSUME Init PROVE IInv
  OBVIOUS
<1>1. TypeOK
  BY TypeInit
<1>2. Rest
  BY DEF Init, Rest, OneDaemonMount, StoppedUnmounted, BlockedInMethod,
     ShutdownClean, Cur
<1>3. QED
  BY <1>1, <1>2 DEF IInv, Rest

LEMMA IInvInductive == IInv /\ [Next]_vars => IInv'
<1> SUFFICES ASSUME IInv, [Next]_vars PROVE IInv'
  OBVIOUS
<1>1. TypeOK /\ Rest
  BY DEF IInv, Rest
<1>2. TypeOK' /\ Rest'
  BY <1>1, TypeInductive, RestInductive
<1>3. QED
  BY <1>2 DEF IInv, Rest

(* The theorem behind run daemon_lifecycle: on a NydusDaemon that has     *)
(* launched nydusd once, a shutdown() that returns without an exception   *)
(* has seen the daemon exit with status 0 and leaves nothing mounted, for *)
(* every Timeout, MaxLaunch and MaxPolls, whatever the daemon's mount,    *)
(* crash and exit steps in between.                                       *)
THEOREM ShutdownCleanCorrect == Spec => []ShutdownClean
<1>1. Init => IInv
  BY IInvInit
<1>2. IInv /\ [Next]_vars => IInv'
  BY IInvInductive
<1>3. IInv => ShutdownClean
  BY DEF IInv
<1>4. QED
  BY <1>1, <1>2, <1>3, PTL DEF Spec

(* The strengthening itself is an invariant of Daemon. *)
THEOREM IInvCorrect == Spec => []IInv
BY IInvInit, IInvInductive, PTL DEF Spec

=============================================================================
