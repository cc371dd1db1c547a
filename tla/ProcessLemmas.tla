--------------------------- MODULE ProcessLemmas ----------------------------
(***************************************************************************)
(* The inductive invariant of Process, and what the pieces of its handlers *)
(* do to a process table.  Each lemma is about one operator of Process and *)
(* about any table pr that is sound, so the later proofs only put them     *)
(* together.                                                               *)
(***************************************************************************)
EXTENDS Process, TLAPS

(* The time a leaf may take: SMT first, then Zenon. *)
USE SMTT(20), ZenonT(20)

(* The table is a table of process descriptors. *)
Typed(pr) == pr \in [Pid -> ProcType]

(* process_wait(): a process blocked there has a child that matches and    *)
(* can still wake it. The idle process is left out: nothing ever wakes it, *)
(* see find_waiting_parent().                                              *)
Waits(pr) ==
    \A p \in Pid \ {Idle} :
        pr[p].state = "BLOCKED" /\ pr[p].pc \in {"wait", "ctrlc"} =>
            \E c \in Pid : /\ pr[c].ppid = p
                           /\ pr[p].waitFor \in {c, Any}
                           /\ pr[c].state \notin {"FREE", "TERMINATED"}

(* mailbox_recv(): a waiter is inside mailbox_recv() with an empty         *)
(* mailbox, and whoever is blocked there is a waiter.                      *)
Mail(pr) ==
    \A p \in Pid :
        /\ pr[p].waiter => pr[p].pc \in {"recv", "rpc"} /\ pr[p].mbox = << >>
        /\ pr[p].state = "BLOCKED" /\ pr[p].pc \in {"recv", "rpc"} => pr[p].waiter

(* A process inside process_wait() remembers a pid or WAIT_ANY_PID. *)
Targets(pr) ==
    \A p \in Pid : pr[p].pc \in {"wait", "ctrlc"} => pr[p].arg \in Pid \cup {Any}

(* No pid from next_pid on is in the list. *)
Fresh(pr, n) == \A p \in Pid : p >= n => pr[p].state = "FREE"

(* What one step of a handler keeps even while a parent is not told yet. *)
Proper(pr, n) == Typed(pr) /\ Mail(pr) /\ Targets(pr) /\ Fresh(pr, n)

(* What holds of the process table whenever no handler is half way. *)
Sane(pr, n) == Proper(pr, n) /\ Waits(pr)

(* The table after Mark is sane but for the parent of the process that died. *)
Orphaned(pr, p) ==
    \A q \in Pid \ {Idle} :
        /\ pr[q].state = "BLOCKED" /\ pr[q].pc \in {"wait", "ctrlc"}
        /\ ~WaitsFor(pr, q, p)
        => \E c \in Pid : /\ pr[c].ppid = q
                          /\ pr[q].waitFor \in {c, Any}
                          /\ pr[c].state \notin {"FREE", "TERMINATED"}

(* Only c is RUNNING. *)
Single(pr, c) == \A p \in Pid : pr[p].state = "RUNNING" => p = c

(* What a wakeup may do to a bystander q: it moves neither its place nor   *)
(* its parent, registers no new waiter, makes nobody RUNNING, keeps a      *)
(* running process running and a live one alive.                           *)
Gentle(pr, new, q) ==
    /\ new[q].pc = pr[q].pc /\ new[q].arg = pr[q].arg
    /\ new[q].ppid = pr[q].ppid
    /\ new[q].waiter => pr[q].waiter
    /\ new[q].state = "RUNNING" => pr[q].state = "RUNNING"
    /\ pr[q].state = "RUNNING" /\ ~pr[q].waiter => new[q].state = "RUNNING"
    /\ pr[q].state \notin {"FREE", "TERMINATED"} =>
          new[q].state \notin {"FREE", "TERMINATED"}

(* The outcomes of respawn_shell_if_needed(). *)
Outcome == {"none", "shell", "stillborn"}
(* next_pid after process_exit(). *)

PidsAfter(r) == IF r = "none" THEN nextPid ELSE nextPid + 1

(* The registered services are processes that can still run. *)
Alive(pr, sv) ==
    \A s \in Service : sv[s] # 0 => pr[sv[s]].state \notin {"FREE", "TERMINATED"}

(* The invariant of the process table pr, running process c, next pid n    *)
(* and registered services sv.                                             *)
Sound(pr, c, n, sv) ==
    /\ c \in Pid /\ n \in Nat \ {0} /\ sv \in [Service -> Pid]
    /\ Sane(pr, n) /\ Single(pr, c) /\ Alive(pr, sv)

(* c holds the CPU. *)
Runs(pr, c) == c # Idle => pr[c].state = "RUNNING"
(* c calls schedule(): it is not READY, unless it is the idle process. *)

Leaves(pr, c) == c # Idle => pr[c].state # "READY"

(* The kernel globals outside the process table. *)
Globals ==
    /\ nextPid \in 1 .. MaxPid + 1
    /\ foreground \in Pid
    /\ ctrlc \in BOOLEAN
    /\ slice \in 1 .. Timeslice
    /\ scan \in Pid \cup {NoScan, MaxPid + 1, EndOfScan}

(* The inductive invariant: a sound process table, a running process that  *)
(* holds the CPU, and a timer handler that has interrupted ring-3 code or  *)
(* the idle loop, never the middle of a system call.                       *)
IInv ==
    /\ Sound(proc, current, nextPid, services)
    /\ Runs(proc, current)
    /\ Globals
    /\ scan # NoScan => proc[current].pc = "user"

(* The order of the pids: a walk along the process list has a first match,  *)
(* which Least finds. It follows from the order of the numbers, see         *)
(* PidsOrdered in ProcessTheorems.                                          *)
Ordered ==
    \A S \in SUBSET Nat : S # {} => Least(S) \in S /\ \A q \in S : Least(S) <= q

(* A non-empty set of pids has a least member: the first match of a walk   *)
(* along the process list.                                                 *)
LEMMA LeastIn ==
    ASSUME Ordered, NEW S \in SUBSET Nat, S # {}
    PROVE  Least(S) \in S /\ \A q \in S : Least(S) <= q
BY Zenon DEF Ordered

(* A change of the table keeps the waits satisfied when nobody starts to   *)
(* wait and every live process stays alive, with the same parent.          *)
LEMMA WaitsKept ==
    ASSUME NEW pr, NEW new, Waits(pr),
           \A p \in Pid : new[p].state = "BLOCKED" /\ new[p].pc \in {"wait", "ctrlc"} =>
                            /\ pr[p].state = "BLOCKED" /\ pr[p].pc \in {"wait", "ctrlc"}
                            /\ new[p].waitFor = pr[p].waitFor,
           \A q \in Pid : pr[q].state \notin {"FREE", "TERMINATED"} =>
                            /\ new[q].state \notin {"FREE", "TERMINATED"}
                            /\ new[q].ppid = pr[q].ppid
    PROVE  Waits(new)
<1> SUFFICES ASSUME NEW p \in Pid \ {Idle}, new[p].state = "BLOCKED",
                    new[p].pc \in {"wait", "ctrlc"}
             PROVE  \E c \in Pid : /\ new[c].ppid = p
                                   /\ new[p].waitFor \in {c, Any}
                                   /\ new[c].state \notin {"FREE", "TERMINATED"}
  BY Zenon DEF Waits
<1>1. /\ pr[p].state = "BLOCKED" /\ pr[p].pc \in {"wait", "ctrlc"}
      /\ new[p].waitFor = pr[p].waitFor
  BY Zenon
<1>2. PICK c \in Pid : /\ pr[c].ppid = p
                       /\ pr[p].waitFor \in {c, Any}
                       /\ pr[c].state \notin {"FREE", "TERMINATED"}
  BY <1>1, Zenon DEF Waits
<1>3. new[c].ppid = pr[c].ppid /\ new[c].state \notin {"FREE", "TERMINATED"}
  BY <1>2, Zenon
<1> QED
  BY <1>1, <1>2, <1>3, Zenon

(* The return to ring 3 of p leaves it the descriptor rec. *)
Returned(pr, p, rec) ==
    /\ Return(pr, p) = [pr EXCEPT ![p] = rec]
    /\ rec.pc = "user" /\ rec.arg = 0
    /\ rec.state = pr[p].state /\ rec.ppid = pr[p].ppid
    /\ rec.mbox = pr[p].mbox /\ rec.waiter = pr[p].waiter
    /\ rec.alarm = pr[p].alarm

(* process_deliver_pending_signal() and the return to ring 3 change the    *)
(* place of a process and its signals, nothing else.                       *)
LEMMA ReturnIs ==
    ASSUME NEW pr, Typed(pr), NEW p \in Pid
    PROVE  \E rec \in ProcType : Returned(pr, p, rec)
<1> DEFINE r == pr[p]
           deliver == r.pending \in r.handlers /\ ~r.inHandler
           pend == IF deliver THEN 0 ELSE r.pending
           inside == IF deliver THEN TRUE ELSE r.inHandler
           rec == [r EXCEPT !.pc = "user", !.arg = 0, !.pending = pend,
                            !.inHandler = inside]
<1>1. r \in ProcType
  BY Zenon DEF Typed
<1>2. 0 \in Pid /\ "user" \in Place
  BY ProcessAssumption DEF Pid, Place
<1>3. pend \in Catchable \cup {0} /\ inside \in BOOLEAN
  BY <1>1, Zenon DEF ProcType
<1>4. Return(pr, p) = [pr EXCEPT ![p] = rec]
  BY Zenon DEF Return
<1> HIDE DEF r, pend, inside
<1>5. rec \in ProcType
  BY <1>1, <1>2, <1>3, Zenon DEF ProcType
<1>6. /\ rec.pc = "user" /\ rec.arg = 0
      /\ rec.state = r.state /\ rec.ppid = r.ppid
      /\ rec.mbox = r.mbox /\ rec.waiter = r.waiter /\ rec.alarm = r.alarm
  BY <1>1, Zenon DEF ProcType
<1> HIDE DEF rec
<1>7. Returned(pr, p, rec)
  BY <1>4, <1>6, Zenon DEF Returned, r
<1> QED
  BY <1>5, <1>7, Zenon

(* Changing the state of a descriptor changes nothing else of it. *)
LEMMA SetState ==
    ASSUME NEW r \in ProcType, NEW st \in State
    PROVE  LET q == [r EXCEPT !.state = st]
           IN  /\ q \in ProcType
               /\ q.state = st
               /\ q.ppid = r.ppid /\ q.waitFor = r.waitFor
               /\ q.pc = r.pc /\ q.arg = r.arg
               /\ q.waiter = r.waiter /\ q.mbox = r.mbox
               /\ q.alarm = r.alarm
BY Zenon DEF ProcType

(* What mailbox_send() writes into a descriptor has the right type. *)
LEMMA SetMail ==
    ASSUME NEW r \in ProcType, NEW st \in State, NEW box \in Seq(Pid), NEW w \in BOOLEAN
    PROVE  [r EXCEPT !.mbox = box, !.waiter = w, !.state = st] \in ProcType
BY Zenon DEF ProcType

(* schedule() chooses a READY process, the running one, or the idle one. *)
LEMMA PickNextIn ==
    ASSUME Ordered, NEW pr, Typed(pr), NEW c \in Pid
    PROVE  /\ PickNext(pr, c) \in Pid
           /\ \/ pr[PickNext(pr, c)].state = "READY"
              \/ PickNext(pr, c) = c /\ pr[c].state = "RUNNING"
              \/ PickNext(pr, c) = Idle
<1> DEFINE ready == {p \in Pid \ {Idle} : pr[p].state = "READY"}
<1>1. Idle \in Pid /\ MaxPid \in Nat /\ Pid \subseteq Nat
  BY ProcessAssumption DEF Idle, Pid
<1>2. CASE ready = {}
  BY <1>1, <1>2, Zenon DEF PickNext
<1>3. CASE ready # {}
  <2> DEFINE D == {Distance(c, p) : p \in ready}
  <2>1. D \in SUBSET Nat /\ D # {}
    BY <1>1, <1>3 DEF Distance, Pid
  <2>2. Least(D) \in D /\ \A d \in D : Least(D) <= d
    <3> HIDE DEF D
    <3> QED
      BY <2>1, LeastIn, Zenon
  <2>3. PICK p \in ready : Distance(c, p) = Least(D)
    BY <2>2, Zenon
  <2>4. \A q \in ready : Distance(c, p) <= Distance(c, q)
    BY <2>2, <2>3, Zenon
  <2> QED
    BY <1>3, <2>3, <2>4, Zenon DEF PickNext
<1> QED
  BY <1>2, <1>3, Zenon

(* mailbox_send() keeps what is kept, and is gentle to every process: that *)
(* its waiter is inside mailbox_recv() is what makes the unconditional     *)
(* wakeup harmless.                                                        *)
LEMMA SendSane ==
    ASSUME NEW pr, NEW n \in Nat \ {0}, Proper(pr, n),
           NEW dest \in Pid, NEW from \in Pid
    PROVE  /\ Proper(Send(pr, dest, from), n)
           /\ Waits(pr) => Waits(Send(pr, dest, from))
           /\ \A p \in Pid : Orphaned(pr, p) => Orphaned(Send(pr, dest, from), p)
           /\ \A q \in Pid : Gentle(pr, Send(pr, dest, from), q)
<1> DEFINE new == Send(pr, dest, from)
           st  == IF pr[dest].waiter THEN "READY" ELSE pr[dest].state
<1>1. CASE ~CanSend(pr, dest)
  BY <1>1, Zenon DEF Send, Gentle
<1>2. CASE CanSend(pr, dest)
  <2>1. /\ pr[dest] \in ProcType /\ st \in State
        /\ Append(pr[dest].mbox, from) \in Seq(Pid)
        /\ Append(pr[dest].mbox, from) # << >>
    <3>1. pr[dest] \in ProcType
      BY Zenon DEF Proper, Typed
    <3>2. pr[dest].state \in State /\ pr[dest].mbox \in Seq(Pid)
      BY <3>1, Zenon DEF ProcType
    <3>3. st \in State
      BY <3>2, Zenon DEF State
    <3>4. \A m \in Seq(Pid) : Append(m, from) \in Seq(Pid) /\ Append(m, from) # << >>
      OBVIOUS
    <3> QED
      BY <3>1, <3>2, <3>3, <3>4, Zenon
  <2>2. new = [pr EXCEPT ![dest] =
                  [pr[dest] EXCEPT !.mbox = Append(pr[dest].mbox, from),
                                   !.waiter = FALSE, !.state = st]]
    BY <1>2, Zenon DEF Send
  <2>3. Typed(new)
    <3>1. [pr[dest] EXCEPT !.mbox = Append(pr[dest].mbox, from),
                           !.waiter = FALSE, !.state = st] \in ProcType
      <4> HIDE DEF st
      <4> QED BY <2>1, SetMail, Zenon
    <3> QED BY <2>2, <3>1, Zenon DEF Proper, Typed
  <2>4. /\ \A q \in Pid \ {dest} : new[q] = pr[q]
        /\ new[dest].pc = pr[dest].pc /\ new[dest].arg = pr[dest].arg
        /\ new[dest].ppid = pr[dest].ppid /\ new[dest].waitFor = pr[dest].waitFor
        /\ ~new[dest].waiter
        /\ new[dest].state = st
    <3> HIDE DEF st
    <3> QED BY <2>1, <2>2 DEF Proper, Typed, ProcType
  <2> HIDE DEF new
  <2>5. \A q \in Pid : Gentle(pr, new, q)
    BY <2>4, Zenon DEF Gentle
  <2>6. Waits(pr) => Waits(new)
    BY <2>4 DEF Waits
  <2>9. ASSUME NEW p \in Pid, Orphaned(pr, p)
        PROVE  Orphaned(new, p)
    BY <2>4, <2>9 DEF Orphaned, WaitsFor
  <2>7. Mail(new)
    BY <2>4 DEF Proper, Mail
  <2>8. Targets(new) /\ Fresh(new, n)
    BY <1>2, <2>4, Zenon DEF Proper, Targets, Fresh, CanSend
  <2> QED
    BY <2>3, <2>4, <2>5, <2>6, <2>7, <2>8, <2>9, Zenon DEF Proper, new
<1> QED
  BY <1>1, <1>2, Zenon

(* wake_waiting_parent() repairs the one wait that the death of p left     *)
(* without a child.                                                        *)
LEMMA WakeSane ==
    ASSUME NEW pr, NEW n \in Nat \ {0}, NEW p \in Pid, Proper(pr, n), Orphaned(pr, p),
           pr[p].state = "TERMINATED"
    PROVE  /\ Sane(WakeWaitingParent(pr, p), n)
           /\ \A q \in Pid : Gentle(pr, WakeWaitingParent(pr, p), q)
           /\ WakeWaitingParent(pr, p)[p].state = "TERMINATED"
           /\ WaitsFor(pr, pr[p].ppid, p) =>
                 /\ pr[p].ppid \in Pid \ {Idle, p}
                 /\ WakeWaitingParent(pr, p)[pr[p].ppid].state = "READY"
<1> DEFINE new == WakeWaitingParent(pr, p)
           par == pr[p].ppid
<1>1. CASE ~WaitsFor(pr, par, p)
  <2>1. new = pr
    BY <1>1, Zenon DEF WakeWaitingParent
  <2>2. Waits(pr)
    BY <1>1, Zenon DEF Waits, Orphaned, WaitsFor
  <2> QED
    BY <1>1, <2>1, <2>2, Zenon DEF Sane, Gentle
<1>2. CASE WaitsFor(pr, par, p)
  <2>1. /\ par \in Pid /\ pr[par] \in ProcType /\ par # Idle
        /\ pr[par].state = "BLOCKED" /\ par # p
    BY <1>2, Zenon DEF Proper, Typed, ProcType, WaitsFor
  <2>2. new = [pr EXCEPT ![par] = [pr[par] EXCEPT !.waitFor = 0, !.state = "READY"]]
    BY <1>2, Zenon DEF WakeWaitingParent
  <2>3. "READY" \in State /\ 0 \in Pid
    BY ProcessAssumption DEF State, Pid
  <2> HIDE DEF par, new
  <2>4. Typed(new)
    BY <2>1, <2>2, <2>3, Zenon DEF Proper, Typed, ProcType
  <2>5. /\ \A q \in Pid \ {par} : new[q] = pr[q]
        /\ new[par].state = "READY" /\ new[par].ppid = pr[par].ppid
        /\ new[par].pc = pr[par].pc /\ new[par].arg = pr[par].arg
        /\ new[par].mbox = pr[par].mbox /\ new[par].waiter = pr[par].waiter
    BY <2>1, <2>2, Zenon DEF Proper, Typed, ProcType
  <2>6. Mail(new) /\ Targets(new)
    BY <2>5 DEF Proper, Mail, Targets
  <2>7. Fresh(new, n)
    BY <2>1, <2>5, Zenon DEF Proper, Fresh
  <2>8. Waits(new)
    <3> SUFFICES ASSUME NEW q \in Pid \ {Idle}, new[q].state = "BLOCKED",
                        new[q].pc \in {"wait", "ctrlc"}
                 PROVE  \E ch \in Pid : /\ new[ch].ppid = q
                                        /\ new[q].waitFor \in {ch, Any}
                                        /\ new[ch].state \notin {"FREE", "TERMINATED"}
      BY Zenon DEF Waits
    <3>1. q # par /\ new[q] = pr[q]
      BY <2>5, Zenon
    <3>2. ~WaitsFor(pr, q, p)
      BY <3>1, Zenon DEF WaitsFor, par
    <3>3. PICK ch \in Pid : /\ pr[ch].ppid = q
                            /\ pr[q].waitFor \in {ch, Any}
                            /\ pr[ch].state \notin {"FREE", "TERMINATED"}
      BY <3>1, <3>2, Zenon DEF Orphaned
    <3>4. new[ch].ppid = pr[ch].ppid /\ new[ch].state \notin {"FREE", "TERMINATED"}
      BY <2>5, <3>3, Zenon
    <3> QED
      BY <3>1, <3>3, <3>4, Zenon
  <2>9. \A q \in Pid : Gentle(pr, new, q)
    BY <2>1, <2>5, Zenon DEF Gentle
  <2> QED
    BY <2>1, <2>4, <2>5, <2>6, <2>7, <2>8, <2>9, Zenon DEF Sane, Proper, new, par
<1> QED
  BY <1>1, <1>2, Zenon

(* The descriptors of process_create() and of a free slot are descriptors. *)
LEMMA NewProcTyped ==
    ASSUME NEW parent \in Pid, NEW shell \in BOOLEAN
    PROVE  /\ NewProc(parent, shell) \in ProcType
           /\ [NewProc(parent, shell) EXCEPT !.state = "TERMINATED"] \in ProcType
           /\ FreeProc \in ProcType
<1>1. 0 \in Pid /\ 0 \in 0 .. MaxTicks /\ Off \in Off .. MaxTicks /\ Idle \in Pid
  BY ProcessAssumption DEF Pid, Off, Idle
<1>2. << >> \in Seq(Pid)
  OBVIOUS
<1>3. {} \in SUBSET Catchable
  BY Zenon
<1>4. {"READY", "TERMINATED", "FREE"} \subseteq State /\ "user" \in Place
  BY Zenon DEF State, Place
<1> QED
  BY <1>1, <1>2, <1>3, <1>4, Zenon DEF NewProc, FreeProc, ProcType

(* process_exit() and terminate_process_by_signal() up to the switch: p is *)
(* dead, the window manager told, a shell replaced, the waiting parent     *)
(* READY, and the table sane again.                                        *)
LEMMA BurySane ==
    ASSUME NEW pr, NEW p \in Pid, NEW r \in Outcome,
           nextPid \in Nat \ {0}, Sane(pr, nextPid), pr[p].state # "FREE",
           r # "none" => nextPid \in Pid,
           current \in Pid, services["wm"] \in Pid
    PROVE  /\ Sane(Bury(pr, p, r), PidsAfter(r))
           /\ Bury(pr, p, r)[p].state = "TERMINATED"
           /\ \A q \in Pid \ {p} : q < nextPid => Gentle(pr, Bury(pr, p, r), q)
           /\ \A q \in Pid \ {p} : q >= nextPid => Bury(pr, p, r)[q].state # "RUNNING"
           /\ WaitsFor(Mark(pr, p, r), pr[p].ppid, p) =>
                 /\ pr[p].ppid \in Pid \ {Idle, p}
                 /\ Bury(pr, p, r)[pr[p].ppid].state = "READY"
<1> DEFINE dead == [pr EXCEPT ![p] = [pr[p] EXCEPT !.state = "TERMINATED"]]
           told == IF services["wm"] \in {0, p} THEN dead
                   ELSE Send(dead, services["wm"], Kernel)
           made == Mark(pr, p, r)
           new  == Bury(pr, p, r)
<1>1. /\ Proper(dead, nextPid) /\ Orphaned(dead, p)
      /\ \A q \in Pid : dead[q].ppid = pr[q].ppid
      /\ \A q \in Pid \ {p} : dead[q] = pr[q]
      /\ dead[p].state = "TERMINATED"
  <2>1. pr[p] \in ProcType /\ "TERMINATED" \in State
    BY Zenon DEF Sane, Proper, Typed, State
  <2>2. Typed(dead)
    BY <2>1, SetState, Zenon DEF Sane, Proper, Typed
  <2>3. /\ \A q \in Pid \ {p} : dead[q] = pr[q]
        /\ dead[p].state = "TERMINATED" /\ dead[p].ppid = pr[p].ppid
        /\ dead[p].pc = pr[p].pc /\ dead[p].arg = pr[p].arg
        /\ dead[p].mbox = pr[p].mbox /\ dead[p].waiter = pr[p].waiter
    BY <2>1, SetState DEF Sane, Proper, Typed
  <2> HIDE DEF dead
  <2>4. Mail(dead) /\ Targets(dead)
    BY <2>3 DEF Sane, Proper, Mail, Targets
  <2>5. Fresh(dead, nextPid)
    BY <2>3, Zenon DEF Sane, Proper, Fresh
  <2>6. Orphaned(dead, p)
    BY <2>3 DEF Sane, Waits, Orphaned, WaitsFor
  <2> QED
    BY <2>2, <2>3, <2>4, <2>5, <2>6, Zenon DEF Proper
<1> HIDE DEF dead
<1>2. /\ Proper(told, nextPid) /\ Orphaned(told, p)
      /\ \A q \in Pid : told[q].ppid = pr[q].ppid
      /\ \A q \in Pid \ {p} : Gentle(pr, told, q)
      /\ told[p].state = "TERMINATED"
  <2>1. CASE services["wm"] \in {0, p}
    BY <1>1, <2>1, Zenon DEF Gentle
  <2>2. CASE services["wm"] \notin {0, p}
    <3>1. Kernel \in Pid
      BY ProcessAssumption DEF Kernel, Pid
    <3>2. told[p] = dead[p]
      BY <1>1, <2>2, Zenon DEF Send, Proper, Typed
    <3>3. told = Send(dead, services["wm"], Kernel)
      BY <2>2, Zenon
    <3> HIDE DEF told
    <3>4. /\ Proper(told, nextPid) /\ Orphaned(told, p)
          /\ \A q \in Pid : Gentle(dead, told, q)
      BY <1>1, <3>1, <3>3, SendSane, Zenon
    <3>5. \A q \in Pid \ {p} : Gentle(pr, told, q)
      BY <1>1, <3>4 DEF Gentle
    <3> QED
      BY <1>1, <3>2, <3>4, <3>5 DEF Gentle
  <2> QED
    BY <2>1, <2>2, Zenon
<1>3. /\ made \in [Pid -> ProcType]
      /\ \A q \in Pid : q # nextPid \/ r = "none" => made[q] = told[q]
      /\ r # "none" => /\ made[nextPid].state \in {"READY", "TERMINATED"}
                       /\ made[nextPid].pc = "user"
                       /\ ~made[nextPid].waiter
  <2>1. told \in [Pid -> ProcType] /\ TRUE \in BOOLEAN /\ FALSE \in BOOLEAN
    BY <1>2, Zenon DEF Proper, Typed
  <2>2. CASE r = "none"
    <3>1. made = told
      BY <2>2, Zenon DEF Mark, told, dead
    <3> QED BY <2>1, <2>2, <3>1, Zenon
  <2>3. CASE r = "shell"
    <3>1. made = [told EXCEPT ![nextPid] = NewProc(current, TRUE)]
      BY <2>3, Zenon DEF Mark, told, dead
    <3>2. /\ NewProc(current, TRUE) \in ProcType
          /\ NewProc(current, TRUE).state = "READY"
          /\ NewProc(current, TRUE).pc = "user"
          /\ ~NewProc(current, TRUE).waiter
      BY <2>1, NewProcTyped, Zenon DEF NewProc
    <3> QED BY <2>1, <2>3, <3>1, <3>2, Zenon
  <2>4. CASE r = "stillborn"
    <3> DEFINE z == [NewProc(current, FALSE) EXCEPT !.state = "TERMINATED"]
    <3>1. made = [told EXCEPT ![nextPid] = z]
      BY <2>4, Zenon DEF Mark, told, dead
    <3>2. z \in ProcType /\ z.state = "TERMINATED" /\ z.pc = "user" /\ ~z.waiter
      BY <2>1, NewProcTyped, Zenon DEF NewProc
    <3> QED BY <2>1, <2>4, <3>1, <3>2, ZenonT(60)
  <2> QED
    BY <2>2, <2>3, <2>4, Zenon DEF Outcome
<1> HIDE DEF told
<1>4. p # nextPid /\ p < nextPid /\ Pid \subseteq Nat
  BY ProcessAssumption DEF Sane, Proper, Fresh, Pid
<1>5. Mail(made) /\ Targets(made)
  BY <1>2, <1>3 DEF Proper, Mail, Targets
<1>6. Fresh(made, PidsAfter(r))
  BY <1>2, <1>3, <1>4 DEF Proper, Fresh, PidsAfter
<1>7. Orphaned(made, p)
  BY <1>2, <1>3, <1>4 DEF Orphaned, WaitsFor, Proper, Fresh
<1>8. /\ made[p].state = "TERMINATED"
      /\ \A q \in Pid \ {p} : q < nextPid => Gentle(pr, made, q)
  BY <1>2, <1>3, <1>4 DEF Gentle
<1>9. \A q \in Pid \ {p} : q >= nextPid => made[q].state # "RUNNING"
  BY <1>2, <1>3, Zenon DEF Proper, Fresh
<1>10. new = WakeWaitingParent(made, p)
  BY Zenon DEF Bury
<1> HIDE DEF made, new
<1>11. Proper(made, PidsAfter(r)) /\ PidsAfter(r) \in Nat \ {0}
  BY <1>3, <1>5, <1>6 DEF Proper, Typed, PidsAfter
<1>12. /\ Sane(new, PidsAfter(r)) /\ new[p].state = "TERMINATED"
       /\ \A q \in Pid : Gentle(made, new, q)
  BY <1>7, <1>8, <1>10, <1>11, WakeSane
<1>13. \A q \in Pid \ {p} : q < nextPid => Gentle(pr, new, q)
  BY <1>8, <1>12 DEF Gentle
<1>14. \A q \in Pid \ {p} : q >= nextPid => new[q].state # "RUNNING"
  BY <1>9, <1>12, Zenon DEF Gentle
<1>15. WaitsFor(made, pr[p].ppid, p) =>
         /\ pr[p].ppid \in Pid \ {Idle, p}
         /\ new[pr[p].ppid].state = "READY"
  <2>1. made[p].ppid = pr[p].ppid
    BY <1>2, <1>3, <1>4, Zenon
  <2> QED
    BY <1>7, <1>8, <1>10, <1>11, <2>1, WakeSane
<1> QED
  BY <1>12, <1>13, <1>14, <1>15, Zenon DEF new, made

(* The process that holds the CPU is in the list. *)
LEMMA CurrentBelow ==
    ASSUME NEW pr, NEW c, NEW n, NEW sv, Sound(pr, c, n, sv), Runs(pr, c)
    PROVE  c < n /\ c \in Nat
BY ProcessAssumption DEF Sound, Runs, Sane, Proper, Fresh, Pid, Idle

(* A death keeps the table sound, registrations included. *)
LEMMA BurySound ==
    ASSUME NEW pr, NEW p \in Pid, NEW r \in Outcome,
           Sound(pr, current, nextPid, services), pr[p].state # "FREE",
           r # "none" => nextPid \in Pid, Unregister(p, r)
    PROVE  /\ Sound(Bury(pr, p, r), current, nextPid', services')
           /\ Bury(pr, p, r)[p].state = "TERMINATED"
           /\ p # current /\ current < nextPid => Gentle(pr, Bury(pr, p, r), current)
           /\ WaitsFor(Mark(pr, p, r), pr[p].ppid, p) =>
                 /\ pr[p].ppid \in Pid \ {Idle, p}
                 /\ Bury(pr, p, r)[pr[p].ppid].state = "READY"
<1> DEFINE buried == Bury(pr, p, r)
<1>1. /\ Sane(buried, nextPid') /\ nextPid' = PidsAfter(r)
      /\ buried[p].state = "TERMINATED"
      /\ \A q \in Pid \ {p} : q < nextPid => Gentle(pr, buried, q)
      /\ \A q \in Pid \ {p} : q >= nextPid => buried[q].state # "RUNNING"
  BY BurySane, ProcessAssumption DEF Sound, Unregister, PidsAfter
<1>2. services' = [s \in Service |-> IF services[s] = p THEN 0 ELSE services[s]]
  BY Zenon DEF Unregister
<1>3. nextPid' \in Nat \ {0} /\ 0 \in Pid /\ Pid \subseteq Nat
  BY <1>1, ProcessAssumption DEF Sound, PidsAfter, Pid
<1>4. Sound(buried, current, nextPid', services')
  <2> HIDE DEF buried
  <2>1. services' \in [Service -> Pid]
    BY <1>2, <1>3, Zenon DEF Sound
  <2>2. Single(buried, current)
    BY <1>1, <1>3 DEF Sound, Single, Gentle
  <2>3. Alive(buried, services')
    <3>1. SUFFICES ASSUME NEW s \in Service, services'[s] # 0
                   PROVE  buried[services'[s]].state \notin {"FREE", "TERMINATED"}
      BY Zenon DEF Alive
    <3>2. services'[s] = services[s] /\ services[s] # p /\ services[s] \in Pid
      BY <1>2, <3>1, Zenon DEF Sound
    <3>3. pr[services[s]].state \notin {"FREE", "TERMINATED"}
      BY <3>1, <3>2, Zenon DEF Sound, Alive
    <3>4. services[s] < nextPid
      <4>1. services[s] \in Nat /\ nextPid \in Nat
        BY <1>3, <3>2, Zenon DEF Sound
      <4>2. ~(services[s] >= nextPid)
        BY <3>2, <3>3, Zenon DEF Sound, Sane, Proper, Fresh
      <4> QED
        BY <4>1, <4>2
    <3> QED
      BY <1>1, <3>2, <3>3, <3>4, Zenon DEF Gentle
  <2> QED
    BY <1>1, <1>3, <2>1, <2>2, <2>3, Zenon DEF Sound
<1>5. WaitsFor(Mark(pr, p, r), pr[p].ppid, p) =>
                 /\ pr[p].ppid \in Pid \ {Idle, p}
                 /\ buried[pr[p].ppid].state = "READY"
  BY BurySane, ProcessAssumption DEF Sound
<1> QED
  BY <1>1, <1>4, <1>5, Zenon DEF Sound

(* Rewriting one descriptor keeps the table sound if it keeps the parent,  *)
(* kills nobody, makes nobody else RUNNING and leaves the process in a     *)
(* place where something can wake it.                                      *)
LEMMA UpdateSound ==
    ASSUME NEW pr, NEW c, NEW n, NEW sv, Sound(pr, c, n, sv),
           NEW q \in Pid, NEW rec \in ProcType, q < n,
           rec.ppid = pr[q].ppid,
           pr[q].state \notin {"FREE", "TERMINATED"} =>
               rec.state \notin {"FREE", "TERMINATED"},
           rec.state = "RUNNING" => q = c,
           rec.waiter => rec.pc \in {"recv", "rpc"} /\ rec.mbox = << >>,
           rec.state = "BLOCKED" /\ rec.pc \in {"recv", "rpc"} => rec.waiter,
           rec.pc \in {"wait", "ctrlc"} => rec.arg \in Pid \cup {Any},
           rec.state = "BLOCKED" /\ rec.pc \in {"wait", "ctrlc"} /\ q # Idle =>
               \E ch \in Pid : /\ pr[ch].ppid = q
                               /\ rec.waitFor \in {ch, Any}
                               /\ pr[ch].state \notin {"FREE", "TERMINATED"}
    PROVE  Sound([pr EXCEPT ![q] = rec], c, n, sv)
<1> DEFINE new == [pr EXCEPT ![q] = rec]
<1>1. Typed(new) /\ new[q] = rec /\ \A p \in Pid \ {q} : new[p] = pr[p]
  BY Zenon DEF Sound, Sane, Proper, Typed
<1> HIDE DEF new
<1>2. Mail(new) /\ Targets(new)
  BY <1>1 DEF Sound, Sane, Proper, Mail, Targets
<1>3. Fresh(new, n) /\ Single(new, c)
  BY <1>1, ProcessAssumption DEF Sound, Sane, Proper, Fresh, Single, Pid
<1>4. Waits(new)
  BY <1>1 DEF Sound, Sane, Waits
<1>5. Alive(new, sv)
  BY <1>1, Zenon DEF Sound, Alive
<1> QED
  BY <1>1, <1>2, <1>3, <1>4, <1>5, Zenon DEF Sound, Sane, Proper, new

(* What holds of the running process while it is in user code. *)
LEMMA UserFacts ==
    ASSUME IInv, proc[current].pc = "user"
    PROVE  /\ ~proc[current].waiter /\ proc[current] \in ProcType
           /\ current \in Pid /\ current < nextPid
           /\ current # Idle => proc[current].state = "RUNNING"
BY CurrentBelow, Zenon DEF IInv, Sound, Sane, Proper, Mail, Typed, Runs

(* respawn_shell_if_needed() uses a pid only if one is left. *)
LEMMA RespawnIn ==
    ASSUME Globals, NEW pr, NEW p, NEW r \in Respawn(pr, p)
    PROVE  r \in Outcome /\ (r # "none" => nextPid \in Pid)
BY ProcessAssumption DEF Respawn, Outcome, Globals, Pid

(* The registrations a death clears stay in their ranges. *)
LEMMA UnregisterOK ==
    ASSUME Globals, NEW p, NEW r \in Outcome, r # "none" => nextPid \in Pid,
           Unregister(p, r)
    PROVE  nextPid' \in 1 .. MaxPid + 1 /\ foreground' \in Pid
BY ProcessAssumption DEF Unregister, Globals, Pid

(* A process that is in the list has a pid below next_pid. *)
LEMMA LiveBelow ==
    ASSUME NEW pr, NEW c, NEW n, NEW sv, Sound(pr, c, n, sv),
           NEW t \in Pid, pr[t].state # "FREE"
    PROVE  t < n
BY ProcessAssumption DEF Sound, Sane, Proper, Fresh, Pid

(* The table after the wakeup of one round of the timer's scan. *)
Woken(p) ==
    [proc EXCEPT ![p] = [proc[p] EXCEPT !.state = IF Asleep(p) THEN "READY" ELSE @,
                                        !.alarm = IF @ = 0 THEN Off ELSE @]]

(* A wakeup of the scan disturbs neither the table nor the running process. *)
LEMMA WokenSound ==
    ASSUME IInv, scan \notin {NoScan, EndOfScan}, NEW p \in Pid, proc[p].state # "FREE"
    PROVE  /\ Sound(Woken(p), current, nextPid, services)
           /\ Runs(Woken(p), current) /\ Woken(p)[current].pc = "user"
           /\ ~Woken(p)[current].waiter /\ Woken(p)[p].state # "FREE"
<1> DEFINE st == IF Asleep(p) THEN "READY" ELSE proc[p].state
           al == IF proc[p].alarm = 0 THEN Off ELSE proc[p].alarm
           rec == [proc[p] EXCEPT !.state = st, !.alarm = al]
           woken == [proc EXCEPT ![p] = rec]
<1>1. proc[current].pc = "user"
  BY Zenon DEF IInv
<1>2. Woken(p) = woken
  BY Zenon DEF Woken
<1>3. proc[p] \in ProcType /\ proc \in [Pid -> ProcType] /\ p < nextPid
  BY LiveBelow, Zenon DEF IInv, Sound, Sane, Proper, Typed
<1>4. /\ st \in State /\ al \in Off .. MaxTicks /\ st # "FREE"
      /\ proc[p].state \notin {"FREE", "TERMINATED"} => st # "TERMINATED"
      /\ st = "RUNNING" <=> proc[p].state = "RUNNING"
      /\ st = "BLOCKED" => proc[p].state = "BLOCKED"
  <2>1. "READY" \in State /\ proc[p].state \in State
    BY <1>3, Zenon DEF State, ProcType
  <2>2. Off \in Off .. MaxTicks /\ proc[p].alarm \in Off .. MaxTicks
    BY <1>3, ProcessAssumption DEF ProcType, Off
  <2> QED
    BY <2>1, <2>2, Zenon DEF Asleep
<1> HIDE DEF st, al
<1>5. /\ rec \in ProcType /\ rec.state = st
      /\ rec.ppid = proc[p].ppid /\ rec.pc = proc[p].pc /\ rec.arg = proc[p].arg
      /\ rec.waiter = proc[p].waiter /\ rec.mbox = proc[p].mbox
      /\ rec.waitFor = proc[p].waitFor
  BY <1>3, <1>4, Zenon DEF ProcType
<1>6. /\ proc[p].waiter => proc[p].pc \in {"recv", "rpc"} /\ proc[p].mbox = << >>
      /\ proc[p].state = "BLOCKED" /\ proc[p].pc \in {"recv", "rpc"} => proc[p].waiter
      /\ proc[p].pc \in {"wait", "ctrlc"} => proc[p].arg \in Pid \cup {Any}
      /\ proc[p].state = "RUNNING" => p = current
      /\ proc[p].state = "BLOCKED" /\ proc[p].pc \in {"wait", "ctrlc"} /\ p # Idle =>
            \E ch \in Pid : /\ proc[ch].ppid = p
                            /\ proc[p].waitFor \in {ch, Any}
                            /\ proc[ch].state \notin {"FREE", "TERMINATED"}
  BY Zenon DEF IInv, Sound, Sane, Proper, Mail, Targets, Single, Waits
<1> HIDE DEF rec
<1>7. Sound(woken, current, nextPid, services)
  <2>1. Sound(proc, current, nextPid, services)
    BY Zenon DEF IInv
  <2> QED
    BY <1>3, <1>4, <1>5, <1>6, <2>1, UpdateSound, ZenonT(60)
<1>8. /\ current \in Pid /\ current < nextPid /\ ~proc[current].waiter
      /\ current # Idle => proc[current].state = "RUNNING"
  BY <1>1, UserFacts, Zenon
<1>9. /\ Runs(woken, current) /\ woken[current].pc = "user"
      /\ ~woken[current].waiter /\ woken[p].state # "FREE"
  BY <1>1, <1>3, <1>4, <1>5, <1>8, Zenon DEF Runs
<1> QED
  BY <1>2, <1>7, <1>9, Zenon

(* The properties that the runs of Process check follow from the           *)
(* inductive invariant.                                                    *)
LEMMA InvariantGives ==
    ASSUME IInv
    PROVE  TypeOK /\ OneRunning /\ WaiterHasLiveChild /\ NoLostMail /\ ServicesAlive
<1>1. TypeOK
  BY Zenon DEF IInv, TypeOK, Sound, Sane, Proper, Typed, Globals
<1>2. OneRunning
  BY Zenon DEF IInv, OneRunning, Sound, Single, Runs
<1>3. WaiterHasLiveChild
  BY DEF IInv, WaiterHasLiveChild, Sound, Sane, Waits, Children, Live
<1>4. NoLostMail
  BY Zenon DEF IInv, NoLostMail, Sound, Sane, Proper, Mail
<1>5. ServicesAlive
  BY Zenon DEF IInv, ServicesAlive, Sound, Alive
<1> QED
  BY <1>1, <1>2, <1>3, <1>4, <1>5, Zenon

=============================================================================
