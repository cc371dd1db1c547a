-------------------------- MODULE ProcessTheorems ---------------------------
(***************************************************************************)
(* The theorems about Process: the lemmas of ProcessProofs about the       *)
(* inductive invariant and those of ProcessActions about the steps, put    *)
(* together.                                                               *)
(***************************************************************************)
EXTENDS ProcessProofs, ProcessActions, WellFoundedInduction

(* The time a leaf may take: SMT first, then Zenon. *)
USE SMTT(20), ZenonT(20)

(* The natural numbers are well ordered, so the pids are. *)
LEMMA PidsOrdered == Ordered
<1> SUFFICES ASSUME NEW S \in SUBSET Nat, S # {}
             PROVE  Least(S) \in S /\ \A q \in S : Least(S) <= q
  BY Zenon DEF Ordered
<1> DEFINE R == {ss \in Nat \X Nat : ss[1] < ss[2]}
<1>1. IsWellFoundedOn(R, Nat)
  BY NatLessThanWellFounded, Zenon DEF OpToRel
<1>2. PICK x \in S : \A y \in S : ~(<<y, x>> \in R)
  BY <1>1, WFMin, Zenon
<1>3. \A y \in S : x <= y
  <2>1. TAKE y \in S
  <2>2. ~(<<y, x>> \in R)
    BY <1>2, Zenon
  <2>3. x \in Nat /\ y \in Nat
    BY Zenon
  <2>4. ~(y < x)
    BY <2>2, <2>3, Zenon
  <2> QED
    BY <2>3, <2>4
<1> QED
  BY <1>3, Zenon DEF Least

(* Every reachable state of the kernel satisfies the inductive invariant,  *)
(* for any number of processes, any mailbox size, any time slice.          *)
THEOREM Inductive == Spec => []IInv
<1>1. Init => IInv
  BY InitOK, Zenon
<1>2. IInv /\ [Next]_vars => IInv'
  BY PidsOrdered, StepOK, Zenon
<1> QED
  BY <1>1, <1>2, PTL DEF Spec

(* Process descriptors and kernel globals keep their types (TypeOK): in    *)
(* particular preempt_countdown never leaves 1 .. Timeslice.               *)
THEOREM Types == Spec => []TypeOK
<1>1. IInv => TypeOK
  BY InvariantGives, Zenon
<1> QED
  BY <1>1, Inductive, PTL

(* schedule(), the direct switches of process_exit() and the unconditional *)
(* wakeups of mailbox_send() leave exactly current_process RUNNING         *)
(* (OneRunning).                                                           *)
THEOREM OneCpu == Spec => []OneRunning
<1>1. IInv => OneRunning
  BY InvariantGives, Zenon
<1> QED
  BY <1>1, Inductive, PTL

(* A process blocked in process_wait() always has a matching child that    *)
(* has not terminated (WaiterHasLiveChild): no order of exits, kills,      *)
(* reaping and Ctrl+C loses the wakeup.                                    *)
THEOREM NoOrphanedWait == Spec => []WaiterHasLiveChild
<1>1. IInv => WaiterHasLiveChild
  BY InvariantGives, Zenon
<1> QED
  BY <1>1, Inductive, PTL

(* A process blocked in mailbox_recv() has an empty mailbox and is its     *)
(* waiter, and a waiter is always inside mailbox_recv() (NoLostMail).      *)
THEOREM NoLostWakeup == Spec => []NoLostMail
<1>1. IInv => NoLostMail
  BY InvariantGives, Zenon
<1> QED
  BY <1>1, Inductive, PTL

(* The pids that netd, soundd and the window manager are registered under  *)
(* belong to processes that can still run (ServicesAlive).                 *)
THEOREM ServicesStayAlive == Spec => []ServicesAlive
<1>1. IInv => ServicesAlive
  BY InvariantGives, Zenon
<1> QED
  BY <1>1, Inductive, PTL

(* kernel.c starts with an idle process that has no alarm. *)
LEMMA InitTame == ASSUME Init PROVE Tame(proc)
<1>1. IInv
  BY InitOK, Zenon
<1>2. proc[Idle] = NewProc(Idle, FALSE)
  BY ProcessAssumption DEF Init, Pid, Idle
<1>3. Lively(proc[Idle])
  BY <1>2 DEF Lively, Halted, NewProc
<1> QED
  BY <1>1, <1>3, Zenon DEF Tame, IInv, Sound, Sane, Proper

(* The idle process has not ended, is not stopped and has no alarm. *)
IdleLives == Lively(proc[Idle])

(* IdleLives always holds: neither SYS_KILL nor Ctrl+C nor the timer       *)
(* reaches the idle process, so schedule() always finds a process to fall  *)
(* back on.                                                                *)
THEOREM IdleStaysAlive == Spec => []IdleLives
<1>1. Init => IInv /\ Tame(proc)
  BY InitOK, InitTame, Zenon
<1>2. IInv /\ Tame(proc) /\ [Next]_vars => Tame(proc)'
  BY PidsOrdered, StepSpares, Zenon DEF Tame, Typed, Lively, Halted
<1>3. Tame(proc) => IdleLives
  BY Zenon DEF Tame, IdleLives
<1> QED
  BY <1>1, <1>2, <1>3, Inductive, PTL DEF Spec

(* A process that has ended is never made to run again, unless it died as  *)
(* the waiter of its mailbox: not by the timer's scan, an alarm, a signal, *)
(* Ctrl+C, the wakeup of a wait, a new process or a switch                 *)
(* (DeadWithoutMail).                                                      *)
THEOREM TheDeadStayDead == Spec => DeadWithoutMail
<1> DEFINE StaysDead == \A p \in Pid : proc[p].state = "TERMINATED" /\ ~proc[p].waiter
                                         => Ended(proc'[p])
<1>1. Init => IInv /\ Tame(proc)
  BY InitOK, InitTame, Zenon
<1>2. IInv /\ Tame(proc) /\ [Next]_vars => Tame(proc)'
  BY PidsOrdered, StepSpares, Zenon DEF Tame, Typed, Lively, Halted
<1>3. IInv /\ Tame(proc) /\ [Next]_vars => [StaysDead]_vars
  <2> SUFFICES ASSUME IInv, Tame(proc), [Next]_vars, NEW p \in Pid,
                      proc[p].state = "TERMINATED", ~proc[p].waiter
               PROVE  Ended(proc'[p])
    BY Zenon
  <2>1. Spared(p)
    BY PidsOrdered, StepSpares, ListedBelow, Zenon
  <2> QED
    BY <2>1, Zenon DEF Spared, Rests, Halted, Ended
<1> QED
  BY <1>1, <1>2, <1>3, Inductive, PTL DEF Spec, DeadWithoutMail

(* A process stopped by SIGSTOP runs again only after SIGCONT: until then  *)
(* no deadline, handler, child or switch moves it, it can only die         *)
(* (StoppedUntilCont).                                                     *)
THEOREM TheStoppedStayStopped == Spec => StoppedUntilCont
<1> DEFINE StaysStopped ==
              \A p \in Pid : proc[p].state = "STOPPED" /\ ~proc[p].waiter =>
                  \/ proc'[p].state = "STOPPED" \/ Ended(proc'[p])
                  \/ \E q \in Pid : InUser(q, "kill") /\ KillCont(q, p)
<1>1. Init => IInv /\ Tame(proc)
  BY InitOK, InitTame, Zenon
<1>2. IInv /\ Tame(proc) /\ [Next]_vars => Tame(proc)'
  BY PidsOrdered, StepSpares, Zenon DEF Tame, Typed, Lively, Halted
<1>3. IInv /\ Tame(proc) /\ [Next]_vars => [StaysStopped]_vars
  <2> SUFFICES ASSUME IInv, Tame(proc), [Next]_vars, NEW p \in Pid,
                      proc[p].state = "STOPPED", ~proc[p].waiter
               PROVE  \/ proc'[p].state = "STOPPED" \/ Ended(proc'[p])
                      \/ \E q \in Pid : InUser(q, "kill") /\ KillCont(q, p)
    BY Zenon
  <2>1. Spared(p)
    BY PidsOrdered, StepSpares, ListedBelow, Zenon
  <2> QED
    BY <2>1, Zenon DEF Spared, Rests, Halted, Ended
<1> QED
  BY <1>1, <1>2, <1>3, Inductive, PTL DEF Spec, StoppedUntilCont

=============================================================================
