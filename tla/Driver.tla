------------------------------- MODULE Driver -------------------------------
(***************************************************************************)
(* Drivers in user space: claims of PCI devices and waits for interrupts,  *)
(* kernel/system/driver/driver.c with its system calls in syscall.c.       *)
(*                                                                         *)
(* A process claims the first free device of a kind (its vendor and device *)
(* number, or its class), registers the interrupt line of a device it      *)
(* owns, and waits for interrupts, which are counted while nobody waits.   *)
(***************************************************************************)
EXTENDS Integers, FiniteSets

CONSTANTS
    MaxPid,       \* bound on the processes, whose pids are not used again
    NDevices,     \* devices, in the order of the PCI scan
    KindOf,       \* what a device is claimed by
    LineOf,       \* interrupt_line of a device
    MaxClaims,    \* MAX_DRIVER_CLAIMS
    MaxPending    \* bound on the interrupts that are not yet waited for

ASSUME DriverAssumption ==
    /\ {MaxPid, NDevices, MaxClaims, MaxPending} \subseteq Nat \ {0}
    /\ DOMAIN KindOf = 1 .. NDevices /\ DOMAIN LineOf = 1 .. NDevices
    /\ \A d \in 1 .. NDevices : LineOf[d] # 0    \* line 0 is the timer's

Pid == 1 .. MaxPid
Device == 1 .. NDevices
Slot == 1 .. MaxClaims
Line == {LineOf[d] : d \in Device}
Kind == {KindOf[d] : d \in Device}
None == 0

VARIABLES
    state,    \* of each process: "none", "ready", "blocked", "stopped", "dead"
    inWait,   \* the line whose driver_irq_wait() a process is in
    claim,    \* g_claims
    irq       \* g_user_irq

vars == <<state, inWait, claim, irq>>

NoClaim == [owner |-> None, dev |-> None]
NoIrq == [owner |-> None, pending |-> 0, waiter |-> None]

Least(S) == CHOOSE x \in S : \A y \in S : x <= y

-----------------------------------------------------------------------------
(* Claims *)

Owns(p, d) == \E s \in Slot : claim[s] = [owner |-> p, dev |-> d]

(* Fault: only the caller's own claims are looked at. *)
UnclaimedByCaller(p, kind) == {d \in Device : KindOf[d] = kind /\ ~Owns(p, d)}

(* The devices of a kind that find_claim_slot() does not find *)
Unclaimed(p, kind) ==
    {d \in Device : KindOf[d] = kind /\ \A s \in Slot : claim[s].dev # d}

InUser(p) == state[p] = "ready" /\ inWait[p] = None

(* driver_claim_device() and driver_claim_device_by_class() *)
ClaimDevice(p) ==
    /\ InUser(p)
    /\ \E kind \in Kind :
          LET found == Unclaimed(p, kind)
              free == {s \in Slot : claim[s] = NoClaim}
          IN  /\ found # {} /\ free # {}
              /\ claim' = [claim EXCEPT ![Least(free)] =
                              [owner |-> p, dev |-> Least(found)]]
    /\ UNCHANGED <<state, inWait, irq>>

(* driver_release_device(): the interrupt line stays registered *)
ReleaseDevice(p) ==
    /\ InUser(p)
    /\ \E s \in Slot :
          /\ claim[s].owner = p
          /\ claim' = [claim EXCEPT ![s] = NoClaim]
    /\ UNCHANGED <<state, inWait, irq>>

-----------------------------------------------------------------------------
(* Interrupts *)

MayRegister(p, l) ==
    /\ \E d \in Device : LineOf[d] = l /\ Owns(p, d)
    /\ irq[l].owner \in {None, p}

(* sys_irq_register() *)
IrqRegister(p) ==
    /\ InUser(p)
    /\ \E l \in Line :
          /\ MayRegister(p, l)
          /\ irq' = [irq EXCEPT ![l] = [NoIrq EXCEPT !.owner = p]]
    /\ UNCHANGED <<state, inWait, claim>>

(* Fault: the loop goes on where it should return. *)
WaitRoundAgain(p, l) ==
    \/ /\ irq[l].owner # p
       /\ inWait' = [inWait EXCEPT ![p] = None]
       /\ UNCHANGED <<state, irq>>
    \/ /\ irq[l].owner = p /\ irq[l].pending > 0
       /\ inWait' = [inWait EXCEPT ![p] = l]
       /\ UNCHANGED <<state, irq>>
    \/ /\ irq[l].owner = p /\ irq[l].pending = 0
       /\ irq' = [irq EXCEPT ![l].waiter = p]
       /\ inWait' = [inWait EXCEPT ![p] = l]
       /\ state' = [state EXCEPT ![p] = "blocked"]

(* One round of the loop of driver_irq_wait() *)
WaitRound(p, l) ==
    \/ /\ irq[l].owner # p
       /\ inWait' = [inWait EXCEPT ![p] = None]
       /\ UNCHANGED <<state, irq>>
    \/ /\ irq[l].owner = p /\ irq[l].pending > 0
       /\ irq' = [irq EXCEPT ![l].pending = @ - 1]
       /\ inWait' = [inWait EXCEPT ![p] = None]
       /\ UNCHANGED state
    \/ /\ irq[l].owner = p /\ irq[l].pending = 0
       /\ irq' = [irq EXCEPT ![l].waiter = p]
       /\ inWait' = [inWait EXCEPT ![p] = l]
       /\ state' = [state EXCEPT ![p] = "blocked"]

IrqWait(p) ==
    /\ InUser(p)
    /\ \E l \in Line : WaitRound(p, l)
    /\ UNCHANGED claim

Resume(p) ==
    /\ state[p] = "ready" /\ inWait[p] # None
    /\ WaitRound(p, inWait[p])
    /\ UNCHANGED claim

(* Fault: the interrupt is counted and nobody is woken. *)
Counted(s, l) == s

(* The waiter becomes READY, whatever its state is. *)
Woken(s, l) ==
    IF irq[l].waiter = None THEN s ELSE [s EXCEPT ![irq[l].waiter] = "ready"]

(* driver_irq_notify(), from irq_handler() *)
Interrupt(l) ==
    /\ IF irq[l].owner = None THEN UNCHANGED <<state, irq>>
       ELSE /\ irq[l].pending < MaxPending
            /\ irq' = [irq EXCEPT ![l].pending = @ + 1, ![l].waiter = None]
            /\ state' = Woken(state, l)
    /\ UNCHANGED <<inWait, claim>>

-----------------------------------------------------------------------------
(* Processes *)

Start ==
    /\ \E p \in Pid : state[p] = "none"
    /\ state' = [state EXCEPT ![Least({p \in Pid : state[p] = "none"})] = "ready"]
    /\ UNCHANGED <<inWait, claim, irq>>

(* process_signal(): a caught signal, SIGSTOP and SIGCONT *)
Signal(p) ==
    /\ \/ state[p] = "blocked" /\ state' = [state EXCEPT ![p] = "ready"]
       \/ /\ state[p] \in {"ready", "blocked"}
          /\ state' = [state EXCEPT ![p] = "stopped"]
       \/ state[p] = "stopped" /\ state' = [state EXCEPT ![p] = "ready"]
    /\ UNCHANGED <<inWait, claim, irq>>

(* The second half of driver_release_process() *)
LinesReleased(p) ==
    [l \in Line |-> IF irq[l].owner = p THEN NoIrq ELSE irq[l]]

(* process_exit() and terminate_process_by_signal(), which call            *)
(* driver_release_process()                                                *)
Die(p) ==
    /\ state[p] \in {"ready", "blocked", "stopped"}
    /\ state' = [state EXCEPT ![p] = "dead"]
    /\ claim' = [s \in Slot |-> IF claim[s].owner = p THEN NoClaim ELSE claim[s]]
    /\ irq' = LinesReleased(p)
    /\ UNCHANGED inWait

Init ==
    /\ state = [p \in Pid |-> "none"]
    /\ inWait = [p \in Pid |-> None]
    /\ claim = [s \in Slot |-> NoClaim]
    /\ irq = [l \in Line |-> NoIrq]

Next ==
    \/ \E p \in Pid : \/ ClaimDevice(p) \/ ReleaseDevice(p) \/ IrqRegister(p)
                      \/ IrqWait(p) \/ Resume(p) \/ Signal(p) \/ Die(p)
    \/ \E l \in Line : Interrupt(l)
    \/ Start

Spec == Init /\ [][Next]_vars

(***************************************************************************)
(* schedule() comes to every process that stays READY (ReadyRuns of module *)
(* Process), so a call that was woken goes on.                             *)
(***************************************************************************)
FairSpec == Spec /\ \A p \in Pid : WF_vars(Resume(p))

-----------------------------------------------------------------------------
(* Types: claims and lines name processes and devices. *)
TypeOK ==
    /\ state \in [Pid -> {"none", "ready", "blocked", "stopped", "dead"}]
    /\ inWait \in [Pid -> Line \cup {None}]
    /\ claim \in [Slot -> [owner : Pid, dev : Device] \cup {NoClaim}]
    /\ irq \in [Line -> [owner : Pid \cup {None}, pending : 0 .. MaxPending,
                         waiter : Pid \cup {None}]]

(* driver.h: a device belongs to one process at a time.  It is claimed in  *)
(* one slot at most, and its owner is alive, so that the next start of a   *)
(* daemon finds the device free again.                                     *)
ClaimsExclusive ==
    \A s \in Slot :
        claim[s] # NoClaim =>
            /\ state[claim[s].owner] \notin {"none", "dead"}
            /\ \A t \in Slot \ {s} : claim[t].dev # claim[s].dev

(* No interrupt is slept through: a process blocked in driver_irq_wait()   *)
(* owns the line, is its waiter, and there is nothing pending.  And        *)
(* driver_irq_notify() never writes to a process that is dead or past its  *)
(* wait: the waiter of a line owns it, lives, and is inside                *)
(* driver_irq_wait() of that line.                                         *)
NoLostInterrupt ==
    /\ \A p \in Pid :
          state[p] = "blocked" =>
              /\ irq[inWait[p]].owner = p /\ irq[inWait[p]].waiter = p
              /\ irq[inWait[p]].pending = 0
    /\ \A l \in Line :
          irq[l].waiter # None =>
              /\ irq[l].waiter = irq[l].owner
              /\ state[irq[l].waiter] \notin {"none", "dead"}
              /\ inWait[irq[l].waiter] = l

(* A wait for a line that has fired comes to its end, unless the process   *)
(* is stopped or killed first.                                             *)
InterruptServed ==
    \A p \in Pid, l \in Line :
        (inWait[p] = l /\ irq[l].owner = p /\ irq[l].pending > 0)
            ~> (inWait[p] = None \/ state[p] \in {"stopped", "dead"})
=============================================================================
