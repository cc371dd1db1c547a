---------------------------- MODULE DriverProofs ----------------------------
(***************************************************************************)
(* The invariants of module Driver for any number of processes, devices,   *)
(* lines and claims.                                                       *)
(***************************************************************************)
EXTENDS Driver, TLAPS, WellFoundedInduction

(* The time a leaf may take: SMT first, then Zenon. *)
USE SMTT(60), ZenonT(60)

(* What makes NoLostInterrupt inductive: a blocked process is in some      *)
(* driver_irq_wait(), and a line that has a waiter has nothing pending,    *)
(* because driver_irq_notify() counts and clears the waiter in one step.   *)
IInv ==
    /\ TypeOK
    /\ ClaimsExclusive
    /\ NoLostInterrupt
    /\ \A p \in Pid : state[p] = "blocked" => inWait[p] # None
    /\ \A l \in Line : irq[l].waiter # None => irq[l].pending = 0

(* A non-empty set of numbers has a least member, and Least finds it: the  *)
(* first free slot, the first device of a kind, the next process.          *)
LEMMA LeastIn ==
    ASSUME NEW S \in SUBSET Nat, S # {}
    PROVE  Least(S) \in S
<1> DEFINE R == {ss \in Nat \X Nat : ss[1] < ss[2]}
<1>1. IsWellFoundedOn(R, Nat)
  BY NatLessThanWellFounded, Zenon DEF OpToRel
<1>2. PICK x \in S : \A y \in S : ~(<<y, x>> \in R)
  BY <1>1, WFMin, Zenon
<1>3. \A y \in S : x <= y
  <2>1. TAKE y \in S
  <2>2. ~(<<y, x>> \in R)
    BY <1>2
  <2>3. x \in Nat /\ y \in Nat
    OBVIOUS
  <2> QED
    BY <2>2, <2>3
<1> QED
  BY <1>3, Zenon DEF Least

(* None is neither a process nor a device nor a line. *)
LEMMA NoneIsNone ==
    /\ None \notin Pid /\ None \notin Device /\ None \notin Line
    /\ Pid \subseteq Nat /\ Device \subseteq Nat /\ Slot \subseteq Nat
    /\ NoClaim.owner = None /\ NoClaim.dev = None
BY DriverAssumption DEF None, Pid, Device, Line, Slot, NoClaim

(* driver_init() *)
LEMMA InitOK == Init => IInv
BY NoneIsNone, DriverAssumption
DEF Init, IInv, TypeOK, ClaimsExclusive, NoLostInterrupt, NoIrq, None, NoClaim

(* driver_claim_device(): the slot was free and the device in no slot. *)
LEMMA ClaimOK == ASSUME IInv, NEW p \in Pid, ClaimDevice(p) PROVE IInv'
<1>1. PICK kind \in Kind :
          /\ Unclaimed(p, kind) # {} /\ {s \in Slot : claim[s] = NoClaim} # {}
          /\ claim' = [claim EXCEPT ![Least({s \in Slot : claim[s] = NoClaim})] =
                          [owner |-> p, dev |-> Least(Unclaimed(p, kind))]]
  BY DEF ClaimDevice
<1> DEFINE s == Least({t \in Slot : claim[t] = NoClaim})
           d == Least(Unclaimed(p, kind))
<1>2. s \in Slot /\ d \in Unclaimed(p, kind)
  BY <1>1, LeastIn, NoneIsNone DEF Unclaimed
<1>3. d \in Device /\ \A t \in Slot : claim[t].dev # d
  BY <1>2 DEF Unclaimed
<1> HIDE DEF s, d
<1>4. claim' = [claim EXCEPT ![s] = [owner |-> p, dev |-> d]]
  BY <1>1 DEF s, d
<1>5. TypeOK'
  BY <1>2, <1>3, <1>4 DEF IInv, TypeOK, ClaimDevice
<1>6. ClaimsExclusive'
  BY <1>2, <1>3, <1>4, NoneIsNone
  DEF IInv, TypeOK, ClaimsExclusive, ClaimDevice, InUser
<1> QED
  BY <1>5, <1>6 DEF IInv, NoLostInterrupt, ClaimDevice

(* driver_release_device() *)
LEMMA ReleaseOK == ASSUME IInv, NEW p \in Pid, ReleaseDevice(p) PROVE IInv'
<1>1. PICK s \in Slot : claim[s].owner = p /\ claim' = [claim EXCEPT ![s] = NoClaim]
  BY Zenon DEF ReleaseDevice
<1>2. TypeOK'
  BY <1>1 DEF IInv, TypeOK, ReleaseDevice
<1>3. ClaimsExclusive'
  BY <1>1, NoneIsNone DEF IInv, TypeOK, ClaimsExclusive, ReleaseDevice
<1> QED
  BY <1>2, <1>3 DEF IInv, NoLostInterrupt, ReleaseDevice

(* driver_irq_register(): nobody waits on a line that is free or the       *)
(* caller's own, as the caller is not waiting.                             *)
LEMMA RegisterOK == ASSUME IInv, NEW p \in Pid, IrqRegister(p) PROVE IInv'
<1> DEFINE mine == [owner |-> p, pending |-> 0, waiter |-> None]
<1>0. [NoIrq EXCEPT !.owner = p] = mine
  BY DEF NoIrq
<1>1. PICK l \in Line : MayRegister(p, l) /\ irq' = [irq EXCEPT ![l] = mine]
  BY <1>0, Zenon DEF IrqRegister
<1>2. irq' = [irq EXCEPT ![l] = [owner |-> p, pending |-> 0, waiter |-> None]]
  BY <1>1
<1>3. TypeOK'
  <2>1. 0 \in 0 .. MaxPending
    BY DriverAssumption
  <2>2. mine \in [owner : Pid \cup {None}, pending : 0 .. MaxPending, waiter : Pid \cup {None}]
    BY <2>1
  <2> QED
    BY <1>1, <2>2 DEF IInv, TypeOK, IrqRegister
<1>4. NoLostInterrupt'
  BY <1>1, <1>2, NoneIsNone
  DEF IInv, TypeOK, NoLostInterrupt, IrqRegister, MayRegister, InUser
<1>5. (\A k \in Line : irq[k].waiter # None => irq[k].pending = 0)'
  BY <1>2 DEF IInv, TypeOK
<1> QED
  BY <1>3, <1>4, <1>5 DEF IInv, ClaimsExclusive, IrqRegister

(* One round of driver_irq_wait(), by a process that is READY and, if it   *)
(* is inside the call already, inside that of the same line.               *)
LEMMA RoundOK ==
    ASSUME IInv, NEW p \in Pid, NEW l \in Line, WaitRound(p, l), UNCHANGED claim,
           state[p] = "ready", inWait[p] \in {None, l}
    PROVE  IInv'
<1>1. CASE irq[l].owner # p /\ inWait' = [inWait EXCEPT ![p] = None] /\ UNCHANGED <<state, irq>>
  BY <1>1, NoneIsNone DEF IInv, TypeOK, ClaimsExclusive, NoLostInterrupt
<1>2. CASE /\ irq[l].owner = p /\ irq[l].pending > 0
           /\ irq' = [irq EXCEPT ![l].pending = @ - 1]
           /\ inWait' = [inWait EXCEPT ![p] = None]
           /\ UNCHANGED state
  <2>1. /\ irq'[l].owner = p /\ irq'[l].waiter = irq[l].waiter
        /\ irq'[l].pending = irq[l].pending - 1
        /\ \A k \in Line \ {l} : irq'[k] = irq[k]
    BY <1>2 DEF IInv, TypeOK
  <2>2. irq[l].waiter = None
    BY <1>2, NoneIsNone DEF IInv, TypeOK
  <2>3. TypeOK'
    <3>1. irq[l].pending - 1 \in 0 .. MaxPending
      BY <1>2, DriverAssumption DEF IInv, TypeOK
    <3> QED
      BY <1>2, <3>1 DEF IInv, TypeOK
  <2>4. NoLostInterrupt'
    BY <1>2, <2>1, <2>2, NoneIsNone DEF IInv, TypeOK, NoLostInterrupt
  <2> QED
    BY <1>2, <2>1, <2>2, <2>3, <2>4 DEF IInv, TypeOK, ClaimsExclusive
<1>3. CASE /\ irq[l].owner = p /\ irq[l].pending = 0
           /\ irq' = [irq EXCEPT ![l].waiter = p]
           /\ inWait' = [inWait EXCEPT ![p] = l]
           /\ state' = [state EXCEPT ![p] = "blocked"]
  <2>1. /\ irq'[l].owner = p /\ irq'[l].waiter = p /\ irq'[l].pending = 0
        /\ \A k \in Line \ {l} : irq'[k] = irq[k]
    BY <1>3 DEF IInv, TypeOK
  <2>2. TypeOK'
    BY <1>3 DEF IInv, TypeOK
  <2>3. NoLostInterrupt'
    BY <1>3, <2>1, NoneIsNone DEF IInv, TypeOK, NoLostInterrupt
  <2>4. ClaimsExclusive'
    BY <1>3 DEF IInv, TypeOK, ClaimsExclusive
  <2> QED
    BY <1>3, <2>1, <2>2, <2>3, <2>4, NoneIsNone DEF IInv, TypeOK
<1> QED
  BY <1>1, <1>2, <1>3 DEF WaitRound

LEMMA WaitOK == ASSUME IInv, NEW p \in Pid, IrqWait(p) \/ Resume(p) PROVE IInv'
<1>1. CASE IrqWait(p)
  BY <1>1, RoundOK DEF IrqWait, InUser
<1>2. CASE Resume(p)
  BY <1>2, RoundOK DEF Resume, IInv, TypeOK
<1> QED
  BY <1>1, <1>2

(* driver_irq_notify(): whoever was blocked on the line was its waiter,    *)
(* and is woken.                                                           *)
LEMMA InterruptOK == ASSUME IInv, NEW l \in Line, Interrupt(l) PROVE IInv'
<1>1. CASE UNCHANGED <<state, irq>>
  BY <1>1 DEF IInv, TypeOK, ClaimsExclusive, NoLostInterrupt, Interrupt
<1>2. CASE /\ irq[l].pending < MaxPending
           /\ irq' = [irq EXCEPT ![l].pending = @ + 1, ![l].waiter = None]
           /\ state' = Woken(state, l)
  <2>1. irq[l].pending + 1 \in 0 .. MaxPending /\ irq[l].pending + 1 # 0
    BY <1>2, DriverAssumption DEF IInv, TypeOK
  <2>2. /\ irq'[l].owner = irq[l].owner /\ irq'[l].waiter = None
        /\ irq'[l].pending = irq[l].pending + 1
        /\ \A k \in Line \ {l} : irq'[k] = irq[k]
    BY <1>2 DEF IInv, TypeOK
  <2>3. TypeOK'
    BY <1>2, <2>1, ZenonT(120) DEF IInv, TypeOK, Interrupt, Woken
  <2>4. \A p \in Pid : /\ state'[p] = IF p = irq[l].waiter THEN "ready" ELSE state[p]
                       /\ inWait'[p] = inWait[p]
    BY <1>2, NoneIsNone DEF IInv, TypeOK, Woken, Interrupt
  <2>5. NoLostInterrupt'
    <3>1. ASSUME NEW p \in Pid, state'[p] = "blocked"
          PROVE  /\ irq'[inWait'[p]].owner = p /\ irq'[inWait'[p]].waiter = p
                 /\ irq'[inWait'[p]].pending = 0
      <4>1. state[p] = "blocked" /\ inWait[p] \in Line /\ p # irq[l].waiter
        BY <2>4, <3>1 DEF IInv, TypeOK
      <4> QED
        BY <2>2, <2>4, <4>1 DEF IInv, NoLostInterrupt
    <3>2. ASSUME NEW k \in Line, irq'[k].waiter # None
          PROVE  /\ irq'[k].waiter = irq'[k].owner
                 /\ state'[irq'[k].waiter] \notin {"none", "dead"}
                 /\ inWait'[irq'[k].waiter] = k
      <4>1. k # l /\ irq'[k] = irq[k] /\ irq[k].waiter \in Pid
        BY <2>2, <3>2 DEF IInv, TypeOK
      <4> QED
        BY <2>4, <3>2, <4>1 DEF IInv, NoLostInterrupt
    <3> QED
      BY <3>1, <3>2 DEF NoLostInterrupt
  <2>6. ClaimsExclusive'
    <3>1. claim' = claim /\ \A s \in Slot : claim[s] # NoClaim => claim[s].owner \in Pid
      BY DEF Interrupt, IInv, TypeOK
    <3> QED
      BY <2>4, <3>1 DEF IInv, ClaimsExclusive
  <2> QED
    BY <2>2, <2>3, <2>4, <2>5, <2>6 DEF IInv
<1> QED
  BY <1>1, <1>2 DEF Interrupt

(* process_create() *)
LEMMA StartOK == ASSUME IInv, Start PROVE IInv'
<1> DEFINE new == {p \in Pid : state[p] = "none"}
<1>1. Least(new) \in Pid /\ state[Least(new)] = "none"
  BY LeastIn, NoneIsNone DEF Start
<1>2. PICK p \in Pid : state[p] = "none" /\ state' = [state EXCEPT ![p] = "ready"]
  BY <1>1, Zenon DEF Start
<1> QED
  BY <1>2 DEF IInv, TypeOK, ClaimsExclusive, NoLostInterrupt, Start

(* process_signal() *)
LEMMA SignalOK == ASSUME IInv, NEW p \in Pid, Signal(p) PROVE IInv'
<1>1. PICK st \in {"ready", "stopped"} : state' = [state EXCEPT ![p] = st]
  BY DEF Signal
<1>2. state[p] \notin {"none", "dead"}
  BY DEF Signal
<1> QED
  BY <1>1, <1>2 DEF IInv, TypeOK, ClaimsExclusive, NoLostInterrupt, Signal

(* driver_release_process(): the waiter of a line is its owner, so nothing *)
(* names the dead process any more.                                        *)
LEMMA DieOK == ASSUME IInv, NEW p \in Pid, Die(p) PROVE IInv'
<1>1. \A l \in Line : irq'[l] = IF irq[l].owner = p THEN NoIrq ELSE irq[l]
  BY DEF Die, LinesReleased
<1>2. TypeOK'
  <2>1. NoIrq \in [owner : Pid \cup {None}, pending : 0 .. MaxPending, waiter : Pid \cup {None}]
    BY DriverAssumption DEF NoIrq
  <2> QED
    BY <2>1 DEF IInv, TypeOK, Die, LinesReleased
<1>3. ClaimsExclusive'
  BY NoneIsNone DEF IInv, TypeOK, ClaimsExclusive, Die
<1>4. NoLostInterrupt'
  BY <1>1, NoneIsNone DEF IInv, TypeOK, NoLostInterrupt, Die, NoIrq
<1>5. /\ \A q \in Pid : state'[q] = "blocked" => inWait'[q] # None
      /\ \A l \in Line : irq'[l].waiter # None => irq'[l].pending = 0
  BY <1>1 DEF IInv, TypeOK, Die, NoIrq
<1> QED
  BY <1>2, <1>3, <1>4, <1>5 DEF IInv

(* Claims and interrupt lines are in order in every reachable state, for   *)
(* any number of processes, devices, lines and slots.                      *)
THEOREM Inductive == Spec => []IInv
<1>1. IInv /\ [Next]_vars => IInv'
  <2> SUFFICES ASSUME IInv, [Next]_vars PROVE IInv'
    OBVIOUS
  <2>1. CASE UNCHANGED vars
    BY <2>1 DEF vars, IInv, TypeOK, ClaimsExclusive, NoLostInterrupt
  <2> QED
    BY <2>1, ClaimOK, ReleaseOK, RegisterOK, WaitOK, SignalOK, DieOK, InterruptOK, StartOK
    DEF Next
<1> QED
  BY <1>1, InitOK, PTL DEF Spec

(* A device belongs to one process at a time, and that process is alive    *)
(* (ClaimsExclusive), whatever the order of claims, releases and deaths.   *)
THEOREM ClaimsStayExclusive == Spec => []ClaimsExclusive
<1>1. IInv => ClaimsExclusive
  BY DEF IInv
<1> QED
  BY <1>1, Inductive, PTL

(* No interrupt is slept through and none wakes a process that is dead or  *)
(* past its wait (NoLostInterrupt).                                        *)
THEOREM InterruptsReachWaiters == Spec => []NoLostInterrupt
<1>1. IInv => NoLostInterrupt
  BY DEF IInv
<1> QED
  BY <1>1, Inductive, PTL

=============================================================================
