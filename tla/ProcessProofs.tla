--------------------------- MODULE ProcessProofs ----------------------------
(***************************************************************************)
(* The inductive invariant of Process is preserved, one lemma per action.  *)
(***************************************************************************)
EXTENDS ProcessRounds

(* The time a leaf may take: SMT first, then Zenon. *)
USE SMTT(20), ZenonT(20)

(* The state kernel.c starts from satisfies the invariant. *)
LEMMA InitOK == Init => IInv
<1> SUFFICES ASSUME Init PROVE IInv
  BY Zenon
<1>1. /\ Pid \subseteq Nat /\ 0 \in Pid /\ 1 \in Pid /\ MaxPid \in Nat \ {0}
      /\ Timeslice \in Nat \ {0}
  BY ProcessAssumption DEF Pid
<1>2. /\ proc[0] = NewProc(0, FALSE) /\ proc[1] = NewProc(0, TRUE)
      /\ \A p \in Pid \ {0, 1} : proc[p] = FreeProc
  <2>1. 1 # 0
    OBVIOUS
  <2>2. proc = [p \in Pid |-> IF p = Idle THEN NewProc(Idle, FALSE)
                              ELSE IF p = 1 THEN NewProc(Idle, TRUE)
                              ELSE FreeProc]
    BY Zenon DEF Init
  <2> QED
    BY <1>1, <2>1, <2>2, Zenon DEF Idle
<1>3. Typed(proc)
  BY <1>1, NewProcTyped, Zenon DEF Init, Typed, Idle
<1>4. \A p \in Pid : /\ proc[p].state \in {"READY", "FREE"} /\ proc[p].pc = "user"
                     /\ ~proc[p].waiter
                     /\ p >= 2 => proc[p].state = "FREE"
  <2>1. /\ NewProc(0, FALSE).state = "READY" /\ NewProc(0, FALSE).pc = "user"
        /\ ~NewProc(0, FALSE).waiter
    BY Zenon DEF NewProc
  <2>2. /\ NewProc(0, TRUE).state = "READY" /\ NewProc(0, TRUE).pc = "user"
        /\ ~NewProc(0, TRUE).waiter
    BY Zenon DEF NewProc
  <2>3. FreeProc.state = "FREE" /\ FreeProc.pc = "user" /\ ~FreeProc.waiter
    BY Zenon DEF NewProc, FreeProc
  <2> TAKE p \in Pid
  <2>4. p >= 2 => p \notin {0, 1}
    BY <1>1
  <2>5. proc[p] = FreeProc \/ (p \in {0, 1} /\ proc[p] = NewProc(0, FALSE))
                          \/ (p \in {0, 1} /\ proc[p] = NewProc(0, TRUE))
    BY <1>2, Zenon
  <2> QED
    BY <2>1, <2>2, <2>3, <2>4, <2>5, Zenon
<1>5. Sound(proc, current, nextPid, services)
  <2>1. Proper(proc, 2)
    BY <1>3, <1>4, Zenon DEF Proper, Mail, Targets, Fresh
  <2>2. Waits(proc) /\ Single(proc, 0)
    BY <1>4, Zenon DEF Waits, Single
  <2>3. services \in [Service -> Pid] /\ Alive(proc, services)
    BY <1>1, Zenon DEF Init, Alive
  <2> QED
    BY <2>1, <2>2, <2>3, <1>1 DEF Init, Sound, Sane, Idle
<1>6. Runs(proc, current) /\ scan = NoScan
  BY Zenon DEF Init, Runs
<1>7. Globals
  <2>1. nextPid \in 1 .. MaxPid + 1 /\ slice \in 1 .. Timeslice
    BY <1>1 DEF Init
  <2>2. foreground \in Pid /\ ctrlc \in BOOLEAN /\ scan = NoScan
    BY <1>1, Zenon DEF Init
  <2> QED
    BY <2>1, <2>2, Zenon DEF Globals
<1> QED
  BY <1>5, <1>6, <1>7, Zenon DEF IInv

(* SYS_FORK preserves the invariant, also when memory runs out half way. *)
LEMMA ForkOK == ASSUME IInv, NEW p \in Pid, SysFork(p) PROVE IInv'
<1> DEFINE rec == [NewProc(p, FALSE) EXCEPT !.handlers = proc[p].handlers]
           tab == [proc EXCEPT ![nextPid] = rec]
<1>1. /\ p = current /\ p # Idle /\ proc[current].pc = "user" /\ scan = NoScan
      /\ current' = current /\ services' = services /\ foreground' = foreground
      /\ ctrlc' = ctrlc /\ slice' = slice /\ scan' = scan
  BY Zenon DEF SysFork, InUser, timer
<1>2. /\ ~proc[current].waiter /\ proc[current] \in ProcType
      /\ current \in Pid /\ current < nextPid
  BY <1>1, UserFacts, Zenon
<1>3. CASE nextPid <= MaxPid /\ proc' = Return(tab, p) /\ nextPid' = nextPid + 1
  <2>1. nextPid \in Pid /\ nextPid # current
    BY <1>2, <1>3, ProcessAssumption DEF IInv, Globals, Pid
  <2>2. rec \in ProcType /\ rec.state = "READY" /\ rec.pc = "user" /\ ~rec.waiter
    <3>1. proc[p].handlers \in SUBSET Catchable
      BY <1>1, <1>2, Zenon DEF ProcType
    <3>2. NewProc(p, FALSE) \in ProcType
      BY NewProcTyped, Zenon
    <3>3. rec \in ProcType
      BY <3>1, <3>2, Zenon DEF ProcType
    <3> QED
      BY <3>3, Zenon DEF NewProc
  <2> HIDE DEF rec
  <2>3. Sound(tab, current, nextPid + 1, services)
    BY <2>1, <2>2, CreateSound, Zenon DEF IInv
  <2>4. tab[current] = proc[current]
    BY <1>2, <2>1, Zenon DEF IInv, Sound, Sane, Proper, Typed
  <2>5. Runs(tab, current) /\ ~tab[current].waiter
    BY <2>4, <1>2, Zenon DEF IInv, Runs
  <2> HIDE DEF tab
  <2>6. Sound(proc', current, nextPid', services) /\ Runs(proc', current)
    BY <1>1, <1>3, <2>3, <2>5, ReturnOK, Zenon
  <2>7. nextPid' \in 1 .. MaxPid + 1
    BY <1>3, ProcessAssumption DEF IInv, Globals
  <2> QED
    BY <1>1, <2>6, <2>7, Zenon DEF IInv, Globals
<1>4. CASE nextPid <= MaxPid /\ proc' = Return(proc, p) /\ nextPid' = nextPid + 1
  <2>1. Sound(proc', current, nextPid, services) /\ Runs(proc', current)
    BY <1>1, <1>2, <1>4, ReturnOK, Zenon DEF IInv
  <2>2. nextPid \in Nat /\ nextPid' \in 1 .. MaxPid + 1
    BY <1>4, ProcessAssumption DEF IInv, Globals
  <2>3. Sound(proc', current, nextPid', services)
    BY <1>4, <2>1, <2>2, ProcessAssumption DEF Sound, Sane, Proper, Fresh, Pid
  <2> QED
    BY <1>1, <2>1, <2>2, <2>3, Zenon DEF IInv, Globals
<1>5. CASE proc' = Return(proc, p) /\ nextPid' = nextPid
  BY <1>1, <1>2, <1>5, ReturnOK, Zenon DEF IInv, Globals
<1> QED
  BY <1>3, <1>4, <1>5, Zenon DEF SysFork

(* A system call that changes the table soundly and returns preserves the  *)
(* invariant.                                                              *)
LEMMA ReturnStep ==
    ASSUME IInv, NEW pr, Sound(pr, current, nextPid, services'), Runs(pr, current),
           ~pr[current].waiter, proc' = Return(pr, current), foreground' \in Pid,
           scan = NoScan, UNCHANGED <<current, nextPid, timer>>
    PROVE  IInv'
<1>1. Sound(proc', current, nextPid, services') /\ Runs(proc', current)
  BY ReturnOK, Zenon
<1>2. /\ current' = current /\ nextPid' = nextPid
      /\ ctrlc' = ctrlc /\ slice' = slice /\ scan' = scan
  BY Zenon DEF timer
<1> QED
  BY <1>1, <1>2, Zenon DEF IInv, Globals

(* A system call that changes only signal fields of its caller preserves   *)
(* the invariant.                                                          *)
LEMMA TouchStep ==
    ASSUME IInv, proc[current].pc = "user", NEW rec \in ProcType,
           rec.state = proc[current].state, rec.ppid = proc[current].ppid,
           rec.pc = proc[current].pc, rec.arg = proc[current].arg, ~rec.waiter,
           proc' = Return([proc EXCEPT ![current] = rec], current),
           scan = NoScan, UNCHANGED <<current, registry, timer>>
    PROVE  IInv'
<1> DEFINE tab == [proc EXCEPT ![current] = rec]
<1>1. Sound(tab, current, nextPid, services) /\ Runs(tab, current) /\ tab[current] = rec
  BY UserFacts, TouchSound, Zenon DEF IInv
<1>2. ~tab[current].waiter
  BY <1>1, Zenon
<1> HIDE DEF tab
<1>3. /\ UNCHANGED <<current, nextPid, timer>>
      /\ services' = services /\ foreground' \in Pid
  BY Zenon DEF registry, IInv, Globals
<1> QED
  BY <1>1, <1>2, <1>3, ReturnStep, Zenon DEF tab

(* SYS_EXEC preserves the invariant. *)
LEMMA ExecOK == ASSUME IInv, NEW p \in Pid, SysExec(p) PROVE IInv'
<1> DEFINE rec == [proc[p] EXCEPT !.handlers = {}, !.pending = 0,
                                  !.inHandler = FALSE, !.alarm = Off]
<1>1. /\ p = current /\ proc[current].pc = "user" /\ scan = NoScan
      /\ proc' = [proc EXCEPT ![current] = rec]
      /\ foreground' = p /\ current' = current /\ nextPid' = nextPid
      /\ services' = services /\ ctrlc' = ctrlc /\ slice' = slice /\ scan' = scan
  BY Zenon DEF SysExec, InUser, timer
<1>2. /\ ~proc[current].waiter /\ proc[current] \in ProcType
  BY <1>1, UserFacts, Zenon
<1>3. /\ rec \in ProcType
      /\ rec.state = proc[current].state /\ rec.ppid = proc[current].ppid
      /\ rec.pc = proc[current].pc /\ rec.arg = proc[current].arg /\ ~rec.waiter
  <2>1. Off \in Off .. MaxTicks
    BY ProcessAssumption DEF Off
  <2> QED
    BY <1>1, <1>2, <2>1, Zenon DEF ProcType
<1> HIDE DEF rec
<1>4. Sound(proc', current, nextPid, services) /\ Runs(proc', current)
  BY <1>1, <1>2, <1>3, TouchSound, Zenon DEF IInv
<1> QED
  BY <1>1, <1>4, Zenon DEF IInv, Globals

(* SYS_EXIT preserves the invariant. *)
LEMMA ExitOK == ASSUME Ordered, IInv, NEW p \in Pid, SysExit(p) PROVE IInv'
<1>1. /\ p = current /\ p # Idle /\ proc[current].pc = "user" /\ scan = NoScan
      /\ ctrlc' = ctrlc /\ slice' = slice /\ scan' = scan
  BY Zenon DEF SysExit, InUser, timer
<1>2. PICK r \in Respawn(proc, p) : LeaveDead(proc, r) /\ Unregister(p, r)
  BY Zenon DEF SysExit
<1>3. r \in Outcome /\ (r # "none" => nextPid \in Pid)
  BY RespawnIn, Zenon DEF IInv
<1>4. proc[current].state # "FREE"
  BY <1>1, UserFacts, Zenon
<1>5. Sound(proc', current', nextPid', services') /\ Runs(proc', current')
  BY <1>1, <1>2, <1>3, <1>4, LeaveDeadOK, Zenon DEF IInv
<1>6. nextPid' \in 1 .. MaxPid + 1 /\ foreground' \in Pid
  BY <1>2, <1>3, UnregisterOK, Zenon DEF IInv
<1> QED
  BY <1>1, <1>5, <1>6, Zenon DEF IInv, Globals

(* SYS_YIELD preserves the invariant. *)
LEMMA YieldOK == ASSUME Ordered, IInv, NEW p \in Pid, SysYield(p) PROVE IInv'
<1> DEFINE rec == [proc[p] EXCEPT !.pc = "ret"]
           tab == [proc EXCEPT ![p] = rec]
<1>1. /\ p = current /\ p # Idle /\ proc[current].pc = "user" /\ scan = NoScan
      /\ Schedule(tab)
      /\ nextPid' = nextPid /\ services' = services /\ foreground' = foreground
      /\ ctrlc' = ctrlc /\ slice' = slice /\ scan' = scan
  BY Zenon DEF SysYield, InUser, timer, registry
<1>2. /\ ~proc[current].waiter /\ proc[current] \in ProcType
      /\ proc[current].state = "RUNNING" /\ current < nextPid
  BY <1>1, UserFacts, Zenon
<1>3. /\ rec \in ProcType /\ rec.state = "RUNNING" /\ rec.pc = "ret"
      /\ rec.ppid = proc[current].ppid /\ ~rec.waiter
  <2>1. "ret" \in Place
    BY Zenon DEF Place
  <2> QED
    BY <1>1, <1>2, <2>1, Zenon DEF ProcType
<1> HIDE DEF rec
<1>4. Sound(tab, current, nextPid, services)
  BY <1>1, <1>2, <1>3, UpdateSound, Zenon DEF IInv
<1>5. tab[current].state = "RUNNING"
  BY <1>1, <1>3, Zenon DEF IInv, Sound, Sane, Proper, Typed
<1> HIDE DEF tab
<1>6. Sound(proc', current', nextPid, services) /\ Runs(proc', current')
  BY <1>1, <1>4, <1>5, ScheduleOK, Zenon DEF Leaves
<1> QED
  BY <1>1, <1>6, Zenon DEF IInv, Globals

(* SYS_SLEEP preserves the invariant. *)
LEMMA SleepCallOK == ASSUME Ordered, IInv, NEW p \in Pid, SysSleep(p) PROVE IInv'
<1>1. /\ p = current /\ proc[current].pc = "user" /\ scan = NoScan
      /\ nextPid' = nextPid /\ services' = services /\ foreground' = foreground
      /\ ctrlc' = ctrlc /\ slice' = slice /\ scan' = scan
  BY Zenon DEF SysSleep, InUser, timer, registry
<1>2. PICK ticks \in 1 .. MaxTicks : Sleep(proc, p, ticks, "ret", 0)
  BY Zenon DEF SysSleep
<1>3. ticks \in 0 .. MaxTicks /\ 0 \in 0 .. MaxTicks
  BY ProcessAssumption
<1>4. ~proc[current].waiter
  BY <1>1, UserFacts, Zenon
<1>5. Sound(proc', current', nextPid, services) /\ Runs(proc', current')
  BY <1>1, <1>2, <1>3, <1>4, SleepOK, Zenon DEF IInv
<1> QED
  BY <1>1, <1>5, Zenon DEF IInv, Globals

(* SYS_WAIT preserves the invariant. *)
LEMMA WaitOK == ASSUME Ordered, IInv, NEW p \in Pid, SysWait(p) PROVE IInv'
<1>1. /\ p = current /\ proc[current].pc = "user" /\ scan = NoScan
      /\ nextPid' = nextPid /\ services' = services /\ foreground' = foreground
      /\ ctrlc' = ctrlc /\ scan' = scan
  BY Zenon DEF SysWait, InUser, registry
<1>2. PICK target \in (Pid \ {Idle}) \cup {Any} : WaitRound(proc, p, target, "wait")
  BY Zenon DEF SysWait
<1>3. ~proc[current].waiter /\ slice \in 1 .. Timeslice
  BY <1>1, UserFacts, Zenon DEF IInv, Globals
<1>4. /\ Sound(proc', current', nextPid, services) /\ Runs(proc', current')
      /\ slice' \in 1 .. Timeslice
  BY <1>1, <1>2, <1>3, WaitRoundOK, Zenon DEF IInv
<1> QED
  BY <1>1, <1>4, Zenon DEF IInv, Globals

(* SYS_SIGACTION preserves the invariant. *)
LEMMA SigactionOK == ASSUME IInv, NEW p \in Pid, SysSigaction(p) PROVE IInv'
<1>1. /\ p = current /\ proc[current].pc = "user" /\ scan = NoScan
      /\ UNCHANGED <<current, registry, timer>>
  BY Zenon DEF SysSigaction, InUser
<1>2. PICK sig \in Handled, set \in BOOLEAN :
          proc' = Return([proc EXCEPT ![p].handlers =
                            IF set THEN @ \cup {sig} ELSE @ \ {sig}], p)
  BY Zenon DEF SysSigaction
<1> DEFINE hs == IF set THEN proc[p].handlers \cup {sig}
                 ELSE proc[p].handlers \ {sig}
           rec == [proc[p] EXCEPT !.handlers = hs]
<1>3. proc' = Return([proc EXCEPT ![p] = rec], p)
  BY <1>2, Zenon
<1>4. ~proc[current].waiter /\ proc[current] \in ProcType
  BY <1>1, UserFacts, Zenon
<1>5. hs \in SUBSET Catchable
  BY <1>1, <1>4, ProcessAssumption, Zenon DEF ProcType
<1> HIDE DEF hs
<1>6. /\ rec \in ProcType
      /\ rec.state = proc[current].state /\ rec.ppid = proc[current].ppid
      /\ rec.pc = proc[current].pc /\ rec.arg = proc[current].arg /\ ~rec.waiter
  BY <1>1, <1>4, <1>5, Zenon DEF ProcType
<1> HIDE DEF rec
<1> QED
  BY <1>1, <1>3, <1>6, TouchStep, Zenon

(* SYS_SIGRETURN preserves the invariant. *)
LEMMA SigreturnOK == ASSUME IInv, NEW p \in Pid, SysSigreturn(p) PROVE IInv'
<1> DEFINE rec == [proc[p] EXCEPT !.inHandler = FALSE]
<1>1. /\ p = current /\ proc[current].pc = "user" /\ scan = NoScan
      /\ proc' = Return([proc EXCEPT ![p] = rec], p)
      /\ UNCHANGED <<current, registry, timer>>
  BY Zenon DEF SysSigreturn, InUser
<1>2. ~proc[current].waiter /\ proc[current] \in ProcType
  BY <1>1, UserFacts, Zenon
<1>3. /\ rec \in ProcType
      /\ rec.state = proc[current].state /\ rec.ppid = proc[current].ppid
      /\ rec.pc = proc[current].pc /\ rec.arg = proc[current].arg /\ ~rec.waiter
  BY <1>1, <1>2, Zenon DEF ProcType
<1> HIDE DEF rec
<1> QED
  BY <1>1, <1>3, TouchStep, Zenon

(* SYS_ALARM preserves the invariant. *)
LEMMA AlarmOK == ASSUME IInv, NEW p \in Pid, SysAlarm(p) PROVE IInv'
<1>1. /\ p = current /\ proc[current].pc = "user" /\ scan = NoScan
      /\ UNCHANGED <<current, registry, timer>>
  BY Zenon DEF SysAlarm, InUser
<1>2. PICK ticks \in 0 .. MaxTicks :
          proc' = Return([proc EXCEPT ![p].alarm =
                            IF ticks = 0 THEN Off ELSE ticks], p)
  BY Zenon DEF SysAlarm
<1> DEFINE al == IF ticks = 0 THEN Off ELSE ticks
           rec == [proc[p] EXCEPT !.alarm = al]
<1>3. proc' = Return([proc EXCEPT ![p] = rec], p)
  BY <1>2, Zenon
<1>4. ~proc[current].waiter /\ proc[current] \in ProcType
  BY <1>1, UserFacts, Zenon
<1>5. al \in Off .. MaxTicks
  BY ProcessAssumption DEF Off
<1> HIDE DEF al
<1>6. /\ rec \in ProcType
      /\ rec.state = proc[current].state /\ rec.ppid = proc[current].ppid
      /\ rec.pc = proc[current].pc /\ rec.arg = proc[current].arg /\ ~rec.waiter
  BY <1>1, <1>4, <1>5, Zenon DEF ProcType
<1> HIDE DEF rec
<1> QED
  BY <1>1, <1>3, <1>6, TouchStep, Zenon

(* A system call without effect preserves the invariant. *)
LEMMA OtherOK == ASSUME IInv, NEW p \in Pid, SysOther(p) PROVE IInv'
BY UserFacts, ReturnStep, Zenon DEF SysOther, InUser, registry, IInv, Globals

(* Writing a state other than BLOCKED into a descriptor keeps the table    *)
(* sound.                                                                  *)
LEMMA StateSound ==
    ASSUME NEW pr, NEW c, NEW n, NEW sv, Sound(pr, c, n, sv),
           NEW t \in Pid, t < n, NEW st \in State, st # "BLOCKED",
           pr[t].state \notin {"FREE", "TERMINATED"} => st \notin {"FREE", "TERMINATED"},
           st = "RUNNING" => t = c
    PROVE  LET tab == [pr EXCEPT ![t].state = st]
           IN  /\ Sound(tab, c, n, sv)
               /\ tab[t].state = st /\ tab[t].pc = pr[t].pc
               /\ tab[t].waiter = pr[t].waiter
               /\ \A q \in Pid \ {t} : tab[q] = pr[q]
<1> DEFINE rec == [pr[t] EXCEPT !.state = st]
           tab == [pr EXCEPT ![t] = rec]
<1>1. pr[t] \in ProcType /\ pr \in [Pid -> ProcType]
  BY Zenon DEF Sound, Sane, Proper, Typed
<1>2. /\ rec \in ProcType /\ rec.state = st
      /\ rec.ppid = pr[t].ppid /\ rec.pc = pr[t].pc /\ rec.arg = pr[t].arg
      /\ rec.waiter = pr[t].waiter /\ rec.mbox = pr[t].mbox
  BY <1>1, SetState
<1>3. /\ pr[t].waiter => pr[t].pc \in {"recv", "rpc"} /\ pr[t].mbox = << >>
      /\ pr[t].pc \in {"wait", "ctrlc"} => pr[t].arg \in Pid \cup {Any}
  BY Zenon DEF Sound, Sane, Proper, Mail, Targets
<1> HIDE DEF rec
<1>4. Sound(tab, c, n, sv)
  BY <1>2, <1>3, UpdateSound, ZenonT(60)
<1>5. tab[t] = rec /\ \A q \in Pid \ {t} : tab[q] = pr[q]
  BY <1>1, Zenon
<1> QED
  BY <1>2, <1>4, <1>5, Zenon DEF rec

(* Between the tables pr and new no process has moved or has stopped       *)
(* running.                                                                *)
Undisturbed(pr, new) ==
    \A q \in Pid : /\ new[q].pc = pr[q].pc /\ new[q].waiter = pr[q].waiter
                   /\ pr[q].state = "RUNNING" => new[q].state = "RUNNING"

(* process_signal() to a process with a handler keeps the table sound: it  *)
(* wakes a blocked process wherever it is blocked, and does not touch the  *)
(* running one.                                                            *)
LEMMA CatchSound ==
    ASSUME NEW pr, NEW c, NEW n, NEW sv, Sound(pr, c, n, sv),
           NEW t \in Pid, t < n, NEW sig \in Catchable
    PROVE  Sound(Catch(pr, t, sig), c, n, sv) /\ Undisturbed(pr, Catch(pr, t, sig))
<1> DEFINE st == IF pr[t].state \in {"BLOCKED", "SLEEPING"} THEN "READY"
                 ELSE pr[t].state
           rec == [pr[t] EXCEPT !.pending = sig, !.state = st]
<1>1. pr[t] \in ProcType /\ pr \in [Pid -> ProcType]
  BY Zenon DEF Sound, Sane, Proper, Typed
<1>2. /\ st \in State /\ st # "BLOCKED"
      /\ pr[t].state \notin {"FREE", "TERMINATED"} => st \notin {"FREE", "TERMINATED"}
      /\ st = "RUNNING" <=> pr[t].state = "RUNNING"
  <2>1. "READY" \in State /\ pr[t].state \in State
    BY <1>1, Zenon DEF State, ProcType
  <2> QED
    BY <2>1, Zenon
<1> HIDE DEF st
<1>3. /\ rec \in ProcType /\ rec.state = st
      /\ rec.ppid = pr[t].ppid /\ rec.pc = pr[t].pc /\ rec.arg = pr[t].arg
      /\ rec.waiter = pr[t].waiter /\ rec.mbox = pr[t].mbox
  BY <1>1, <1>2, Zenon DEF ProcType
<1>4. /\ pr[t].waiter => pr[t].pc \in {"recv", "rpc"} /\ pr[t].mbox = << >>
      /\ pr[t].pc \in {"wait", "ctrlc"} => pr[t].arg \in Pid \cup {Any}
      /\ pr[t].state = "RUNNING" => t = c
  BY Zenon DEF Sound, Sane, Proper, Mail, Targets, Single
<1>5. Catch(pr, t, sig) = [pr EXCEPT ![t] = rec]
  BY Zenon DEF Catch, st
<1> HIDE DEF rec
<1>6. Sound([pr EXCEPT ![t] = rec], c, n, sv)
  BY <1>2, <1>3, <1>4, UpdateSound, Zenon
<1>7. Undisturbed(pr, [pr EXCEPT ![t] = rec])
  BY <1>1, <1>2, <1>3, Zenon DEF Undisturbed
<1> QED
  BY <1>5, <1>6, <1>7, Zenon

(* mailbox_send() keeps the table sound and the sender running. *)
LEMMA SendSound ==
    ASSUME NEW pr, NEW n, NEW sv, Sound(pr, current, n, sv), Runs(pr, current),
           ~pr[current].waiter, NEW dest \in Pid, NEW from \in Pid
    PROVE  LET sent == Send(pr, dest, from)
           IN  /\ Sound(sent, current, n, sv) /\ Runs(sent, current)
               /\ ~sent[current].waiter /\ sent[current].pc = pr[current].pc
<1> DEFINE sent == Send(pr, dest, from)
<1>1. /\ Proper(sent, n) /\ Waits(sent)
      /\ \A q \in Pid : Gentle(pr, sent, q)
  BY SendSane, Zenon DEF Sound, Sane
<1> HIDE DEF sent
<1>2. Single(sent, current) /\ Alive(sent, sv)
  BY <1>1, Zenon DEF Gentle, Sound, Single, Alive
<1>3. /\ Runs(sent, current) /\ ~sent[current].waiter
      /\ sent[current].pc = pr[current].pc
  BY <1>1, Zenon DEF Gentle, Runs, Sound
<1> QED
  BY <1>1, <1>2, <1>3, Zenon DEF Sound, Sane, sent

(* SYS_KILL of a process with a handler preserves the invariant. *)
LEMMA KillCaughtOK ==
    ASSUME IInv, NEW p \in Pid, InUser(p, "kill"), NEW t \in Live(proc), NEW sig,
           KillCaught(p, t, sig), UNCHANGED timer
    PROVE  IInv'
<1> DEFINE tab == Catch(proc, t, sig)
<1>1. p = current /\ p # Idle /\ proc[current].pc = "user" /\ scan = NoScan
  BY Zenon DEF InUser
<1>2. t \in Pid /\ t < nextPid
  BY LiveBelow, Zenon DEF Live, IInv
<1>3. sig \in Catchable
  BY <1>2, Zenon DEF KillCaught, Caught, IInv, Sound, Sane, Proper, Typed, ProcType
<1>4. Sound(tab, current, nextPid, services) /\ Undisturbed(proc, tab)
  BY <1>2, <1>3, CatchSound, Zenon DEF IInv
<1> HIDE DEF tab
<1>5. Runs(tab, current) /\ ~tab[current].waiter
  BY <1>1, <1>4, UserFacts, Zenon DEF Runs, Undisturbed
<1>6. /\ proc' = Return(tab, current) /\ UNCHANGED <<current, nextPid, timer>>
      /\ services' = services /\ foreground' \in Pid
  BY <1>1, Zenon DEF KillCaught, registry, tab, IInv, Globals
<1> QED
  BY <1>1, <1>4, <1>5, <1>6, ReturnStep, Zenon

(* SYS_KILL of a process that dies of it, the caller included, preserves   *)
(* the invariant.                                                          *)
LEMMA KillFatalOK ==
    ASSUME Ordered, IInv, NEW p \in Pid, InUser(p, "kill"), NEW t \in Live(proc), NEW sig,
           KillFatal(p, t, sig), UNCHANGED timer
    PROVE  IInv'
<1>1. /\ p = current /\ p # Idle /\ proc[current].pc = "user" /\ scan = NoScan
      /\ ctrlc' = ctrlc /\ slice' = slice /\ scan' = scan
  BY Zenon DEF InUser, timer
<1>2. /\ ~proc[current].waiter /\ proc[current].state = "RUNNING"
      /\ current \in Pid /\ current < nextPid
  BY <1>1, UserFacts, Zenon
<1>3. CASE proc' = Return(proc, p) /\ UNCHANGED <<current, registry>>
  BY <1>1, <1>2, <1>3, ReturnStep, Zenon DEF registry, IInv, Globals
<1>4. ASSUME NEW r \in Respawn(proc, t), Unregister(t, r),
             IF t = p THEN LeaveDead(proc, r)
             ELSE proc' = Return(Bury(proc, t, r), p) /\ UNCHANGED current
      PROVE  IInv'
  <2>1. r \in Outcome /\ (r # "none" => nextPid \in Pid)
    BY RespawnIn, Zenon DEF IInv
  <2>2. nextPid' \in 1 .. MaxPid + 1 /\ foreground' \in Pid
    BY <1>4, <2>1, UnregisterOK, Zenon DEF IInv
  <2>3. t \in Pid /\ proc[t].state # "FREE"
    BY Zenon DEF Live
  <2>4. CASE t = p
    <3>1. Sound(proc', current', nextPid', services') /\ Runs(proc', current')
      BY <1>1, <1>4, <2>1, <2>3, <2>4, LeaveDeadOK, Zenon DEF IInv
    <3> QED
      BY <1>1, <2>2, <3>1, Zenon DEF IInv, Globals
  <2>5. CASE t # p
    <3> DEFINE tab == Bury(proc, t, r)
    <3>1. Sound(tab, current, nextPid', services') /\ Gentle(proc, tab, current)
      BY <1>1, <1>2, <1>4, <2>1, <2>3, <2>5, BurySound, Zenon DEF IInv
    <3>2. proc' = Return(tab, current) /\ current' = current
      BY <1>1, <1>4, <2>5, Zenon
    <3> HIDE DEF tab
    <3>3. Runs(tab, current) /\ ~tab[current].waiter
      BY <1>2, <3>1, Zenon DEF Gentle, Runs
    <3>4. Sound(proc', current, nextPid', services') /\ Runs(proc', current)
      BY <3>1, <3>2, <3>3, ReturnOK, Zenon
    <3> QED
      BY <1>1, <2>2, <3>2, <3>4, Zenon DEF IInv, Globals
  <2> QED
    BY <2>4, <2>5, Zenon
<1> QED
  BY <1>3, <1>4, Zenon DEF KillFatal

(* SIGSTOP, to the caller too, preserves the invariant. *)
LEMMA KillStopOK ==
    ASSUME Ordered, IInv, NEW p \in Pid, InUser(p, "kill"), NEW t \in Live(proc),
           KillStop(p, t), UNCHANGED timer
    PROVE  IInv'
<1> DEFINE st == IF proc[t].state = "TERMINATED" THEN "TERMINATED" ELSE "STOPPED"
           tab == [proc EXCEPT ![t].state = st]
<1>1. /\ p = current /\ p # Idle /\ proc[current].pc = "user" /\ scan = NoScan
      /\ ctrlc' = ctrlc /\ slice' = slice /\ scan' = scan
      /\ nextPid' = nextPid /\ services' = services /\ foreground' = foreground
  BY Zenon DEF InUser, timer, KillStop, registry
<1>2. /\ ~proc[current].waiter /\ proc[current].state = "RUNNING"
      /\ current \in Pid /\ current < nextPid
  BY <1>1, UserFacts, Zenon
<1>3. t \in Pid /\ t < nextPid
  BY LiveBelow, Zenon DEF Live, IInv
<1>4. /\ st \in State /\ st \notin {"BLOCKED", "FREE", "RUNNING"}
      /\ proc[t].state \notin {"FREE", "TERMINATED"} => st = "STOPPED"
  BY Zenon DEF State
<1>5. tab = [proc EXCEPT ![t].state = IF @ = "TERMINATED" THEN @ ELSE "STOPPED"]
  BY Zenon
<1>6. /\ Sound(tab, current, nextPid, services)
      /\ tab[t].state = st /\ tab[t].pc = proc[t].pc
      /\ tab[t].waiter = proc[t].waiter
      /\ \A q \in Pid \ {t} : tab[q] = proc[q]
  <2> HIDE DEF st
  <2> QED
    BY <1>3, <1>4, StateSound DEF IInv
<1>7. CASE t = p
  <2> DEFINE rec == [tab[p] EXCEPT !.pc = "ret"]
             out == [tab EXCEPT ![p] = rec]
  <2>1. Schedule(out)
    BY <1>5, <1>7, Zenon DEF KillStop
  <2>2. tab[p] \in ProcType /\ "ret" \in Place
    BY <1>6, Zenon DEF Sound, Sane, Proper, Typed, Place
  <2> HIDE DEF tab, st
  <2>3. /\ rec \in ProcType /\ rec.state = st /\ rec.pc = "ret"
        /\ rec.ppid = tab[p].ppid /\ ~rec.waiter
    BY <1>1, <1>2, <1>6, <1>7, <2>2, Zenon DEF ProcType
  <2> HIDE DEF rec
  <2>4. st = "STOPPED"
    BY <1>1, <1>2, <1>4, <1>7, Zenon
  <2>5. Sound(out, current, nextPid, services)
    BY <1>1, <1>2, <1>6, <2>3, <2>4, UpdateSound, Zenon
  <2>6. Leaves(out, current)
    BY <1>1, <1>6, <2>3, <2>4, Zenon DEF Leaves, Sound, Sane, Proper, Typed
  <2> HIDE DEF out
  <2>7. Sound(proc', current', nextPid, services) /\ Runs(proc', current')
    BY <2>1, <2>5, <2>6, ScheduleOK, Zenon
  <2> QED
    BY <1>1, <2>7, Zenon DEF IInv, Globals
<1>8. CASE t # p
  <2>1. proc' = Return(tab, current) /\ current' = current
    BY <1>1, <1>5, <1>8, Zenon DEF KillStop
  <2>2. tab[current] = proc[current]
    BY <1>1, <1>2, <1>6, <1>8, Zenon
  <2> HIDE DEF tab
  <2>3. Runs(tab, current) /\ ~tab[current].waiter
    BY <1>2, <2>2, Zenon DEF Runs
  <2>4. Sound(proc', current, nextPid, services) /\ Runs(proc', current)
    BY <1>6, <2>1, <2>3, ReturnOK, Zenon
  <2> QED
    BY <1>1, <2>1, <2>4, Zenon DEF IInv, Globals
<1> QED
  BY <1>7, <1>8, Zenon

(* SIGCONT preserves the invariant. *)
LEMMA KillContOK ==
    ASSUME IInv, NEW p \in Pid, InUser(p, "kill"), NEW t \in Live(proc),
           KillCont(p, t), UNCHANGED timer
    PROVE  IInv'
<1> DEFINE tab == [proc EXCEPT ![t].state = IF @ = "STOPPED" THEN "READY" ELSE @]
<1>1. /\ p = current /\ p # Idle /\ proc[current].pc = "user" /\ scan = NoScan
      /\ services' = services /\ foreground' \in Pid
      /\ UNCHANGED <<current, nextPid, timer>> /\ proc' = Return(tab, current)
  BY Zenon DEF InUser, KillCont, registry, IInv, Globals
<1>2. /\ ~proc[current].waiter /\ proc[current].state = "RUNNING" /\ current \in Pid
  BY <1>1, UserFacts, Zenon
<1>3. t \in Pid /\ t < nextPid
  BY LiveBelow, Zenon DEF Live, IInv
<1>4. /\ Sound(tab, current, nextPid, services)
      /\ tab[current].state = "RUNNING" /\ ~tab[current].waiter
  <2>1. CASE proc[t].state = "STOPPED"
    <3>1. tab = [proc EXCEPT ![t].state = "READY"] /\ t # current
      BY <1>2, <2>1, Zenon
    <3>2. "READY" \in State
      BY Zenon DEF State
    <3>3. /\ Sound(tab, current, nextPid, services)
          /\ \A q \in Pid \ {t} : tab[q] = proc[q]
      BY <1>3, <3>1, <3>2, StateSound DEF IInv
    <3> QED
      BY <1>2, <3>1, <3>3, Zenon
  <2>2. CASE proc[t].state # "STOPPED"
    <3>1. tab = proc
      BY <1>3, <2>2, Zenon DEF IInv, Sound, Sane, Proper, Typed, ProcType
    <3> QED
      BY <1>2, <3>1, Zenon DEF IInv
  <2> QED
    BY <2>1, <2>2, Zenon
<1> HIDE DEF tab
<1>5. Runs(tab, current)
  BY <1>4, Zenon DEF Runs
<1> QED
  BY <1>1, <1>4, <1>5, ReturnStep, Zenon

(* SYS_KILL preserves the invariant. *)
LEMMA KillOK == ASSUME Ordered, IInv, NEW p \in Pid, SysKill(p) PROVE IInv'
<1>1. InUser(p, "kill") /\ UNCHANGED timer
  BY Zenon DEF SysKill
<1>2. PICK t \in Live(proc) \ {Idle}, sig \in Signals :
          \/ KillCaught(p, t, sig) \/ KillFatal(p, t, sig)
          \/ KillStop(p, t) \/ KillCont(p, t)
  BY Zenon DEF SysKill
<1> QED
  BY <1>1, <1>2, KillCaughtOK, KillFatalOK, KillStopOK, KillContOK, Zenon

(* SYS_SET_FOREGROUND preserves the invariant. *)
LEMMA SetForegroundOK == ASSUME IInv, NEW p \in Pid, SysSetForeground(p) PROVE IInv'
<1>1. /\ p = current /\ proc[current].pc = "user" /\ scan = NoScan
      /\ proc' = Return(proc, current) /\ services' = services
      /\ UNCHANGED <<current, nextPid, timer>>
  BY Zenon DEF SysSetForeground, InUser
<1>2. foreground' \in Pid
  BY ProcessAssumption DEF SysSetForeground, Live, Pid
<1>3. ~proc[current].waiter
  BY <1>1, UserFacts, Zenon
<1> QED
  BY <1>1, <1>2, <1>3, ReturnStep, Zenon DEF IInv

(* The registration of a service preserves the invariant. *)
LEMMA RegisterOK == ASSUME IInv, NEW p \in Pid, SysRegister(p) PROVE IInv'
<1>1. /\ p = current /\ p # Idle /\ proc[current].pc = "user" /\ scan = NoScan
      /\ proc' = Return(proc, current) /\ foreground' = foreground
      /\ UNCHANGED <<current, nextPid, timer>>
  BY Zenon DEF SysRegister, InUser
<1>2. PICK s \in Service : services' = [services EXCEPT ![s] = p]
  BY Zenon DEF SysRegister
<1>3. ~proc[current].waiter /\ proc[current].state = "RUNNING"
  BY <1>1, UserFacts, Zenon
<1>4. services' \in [Service -> Pid] /\ Alive(proc, services')
  BY <1>1, <1>2, <1>3, Zenon DEF IInv, Sound, Alive
<1>5. Sound(proc, current, nextPid, services')
  BY <1>4, Zenon DEF IInv, Sound
<1> QED
  BY <1>1, <1>3, <1>5, ReturnStep, Zenon DEF IInv, Globals

(* SYS_WM_UNREGISTER preserves the invariant. *)
LEMMA UnregisterCallOK == ASSUME IInv, NEW p \in Pid, SysUnregister(p) PROVE IInv'
<1>1. /\ p = current /\ proc[current].pc = "user" /\ scan = NoScan
      /\ proc' = Return(proc, current) /\ foreground' = foreground
      /\ UNCHANGED <<current, nextPid, timer>>
      /\ services' = [services EXCEPT !["wm"] = 0]
  BY Zenon DEF SysUnregister, InUser
<1>2. ~proc[current].waiter
  BY <1>1, UserFacts, Zenon
<1>3. services' \in [Service -> Pid] /\ Alive(proc, services')
  BY <1>1, ProcessAssumption DEF IInv, Sound, Alive, Pid
<1>4. Sound(proc, current, nextPid, services')
  BY <1>3, Zenon DEF IInv, Sound
<1> QED
  BY <1>1, <1>2, <1>4, ReturnStep, Zenon DEF IInv, Globals

(* SYS_IPC_SEND preserves the invariant. *)
LEMMA IpcSendOK == ASSUME IInv, NEW p \in Pid, SysIpcSend(p) PROVE IInv'
<1>1. /\ p = current /\ proc[current].pc = "user" /\ scan = NoScan
      /\ UNCHANGED <<current, nextPid, timer>>
      /\ services' = services /\ foreground' \in Pid
  BY Zenon DEF SysIpcSend, InUser, registry, IInv, Globals
<1>2. PICK dest \in Pid : proc' = Return(Send(proc, dest, p), p)
  BY Zenon DEF SysIpcSend, Live
<1> DEFINE sent == Send(proc, dest, p)
<1>3. ~proc[current].waiter
  BY <1>1, UserFacts, Zenon
<1>4. /\ Sound(sent, current, nextPid, services) /\ Runs(sent, current)
      /\ ~sent[current].waiter
  BY <1>3, SendSound, Zenon DEF IInv
<1>5. proc' = Return(sent, current)
  BY <1>1, <1>2, Zenon
<1> HIDE DEF sent
<1> QED
  BY <1>1, <1>4, <1>5, ReturnStep, Zenon

(* SYS_IPC_RECV without a timeout preserves the invariant. *)
LEMMA IpcRecvOK == ASSUME Ordered, IInv, NEW p \in Pid, SysIpcRecv(p) PROVE IInv'
<1>1. /\ p = current /\ scan = NoScan /\ RecvRound(current)
      /\ nextPid' = nextPid /\ services' = services /\ foreground' = foreground
      /\ ctrlc' = ctrlc /\ scan' = scan
  BY Zenon DEF SysIpcRecv, InUser, registry
<1>2. /\ Sound(proc', current', nextPid, services) /\ Runs(proc', current')
      /\ slice' = slice
  BY <1>1, RecvRoundOK, Zenon DEF IInv
<1> QED
  BY <1>1, <1>2, Zenon DEF IInv, Globals

(* SYS_IPC_RECV with a timeout preserves the invariant. *)
LEMMA IpcPollOK == ASSUME Ordered, IInv, NEW p \in Pid, SysIpcPoll(p) PROVE IInv'
<1>1. /\ p = current /\ scan = NoScan /\ proc[current].pc = "user"
      /\ nextPid' = nextPid /\ services' = services /\ foreground' = foreground
      /\ ctrlc' = ctrlc /\ scan' = scan
  BY Zenon DEF SysIpcPoll, InUser, registry
<1>2. PICK polls \in 0 .. MaxTicks : PollRound(current, polls)
  BY <1>1, Zenon DEF SysIpcPoll
<1>3. /\ Sound(proc', current', nextPid, services) /\ Runs(proc', current')
      /\ slice' = slice
  BY <1>1, <1>2, PollRoundOK, Zenon DEF IInv
<1> QED
  BY <1>1, <1>3, Zenon DEF IInv, Globals

(* service_call() preserves the invariant. *)
LEMMA ServiceCallOK == ASSUME Ordered, IInv, NEW p \in Pid, SysServiceCall(p) PROVE IInv'
<1>1. /\ p = current /\ scan = NoScan /\ proc[current].pc = "user"
      /\ nextPid' = nextPid /\ services' = services /\ foreground' = foreground
      /\ ctrlc' = ctrlc /\ scan' = scan
  BY Zenon DEF SysServiceCall, InUser, registry
<1>2. PICK s \in Service : IF CanSend(proc, services[s])
                          THEN RpcRound(Send(proc, services[s], p), p, services[s])
                          ELSE Finish(proc)
  BY Zenon DEF SysServiceCall
<1>3. ~proc[current].waiter /\ services[s] \in Pid
  BY <1>1, UserFacts, Zenon DEF IInv, Sound
<1>4. CASE Finish(proc)
  <2>1. /\ Sound(proc', current', nextPid, services) /\ Runs(proc', current')
        /\ slice' = slice
    BY <1>3, <1>4, FinishOK, Zenon DEF IInv
  <2> QED
    BY <1>1, <2>1, Zenon DEF IInv, Globals
<1>5. CASE RpcRound(Send(proc, services[s], p), p, services[s])
  <2> DEFINE sent == Send(proc, services[s], p)
  <2>1. Sound(sent, current, nextPid, services) /\ Runs(sent, current)
    BY <1>3, SendSound, Zenon DEF IInv
  <2>2. RpcRound(sent, current, services[s])
    BY <1>1, <1>5, Zenon
  <2> HIDE DEF sent
  <2>3. /\ Sound(proc', current', nextPid, services) /\ Runs(proc', current')
        /\ slice' = slice
    BY <1>3, <2>1, <2>2, RpcRoundOK, Zenon
  <2> QED
    BY <1>1, <2>3, Zenon DEF IInv, Globals
<1> QED
  BY <1>2, <1>4, <1>5, Zenon

(* Two descriptors that differ at most in timers and signals. *)
Alike(r, s) ==
    /\ s.state = r.state /\ s.ppid = r.ppid /\ s.waitFor = r.waitFor
    /\ s.mbox = r.mbox /\ s.waiter = r.waiter /\ s.pc = r.pc /\ s.arg = r.arg

(* Time that passes keeps the table sound. *)
LEMMA AlikeSound ==
    ASSUME NEW pr, NEW c, NEW n, NEW sv, Sound(pr, c, n, sv),
           NEW new, Typed(new), \A q \in Pid : Alike(pr[q], new[q])
    PROVE  Sound(new, c, n, sv)
<1>1. Mail(new) /\ Targets(new) /\ Fresh(new, n) /\ Single(new, c)
  <2>1. Mail(new)
    BY ZenonT(60) DEF Sound, Sane, Proper, Mail, Alike
  <2>2. Targets(new)
    BY Zenon DEF Sound, Sane, Proper, Targets, Alike
  <2>3. Fresh(new, n) /\ Single(new, c)
    BY ZenonT(60) DEF Sound, Sane, Proper, Fresh, Single, Alike
  <2> QED
    BY <2>1, <2>2, <2>3, Zenon
<1>2. Waits(new)
  <2>1. Waits(pr)
    BY Zenon DEF Sound, Sane
  <2> QED
    BY <2>1, WaitsKept, Zenon DEF Alike
<1>3. Alive(new, sv)
  BY Zenon DEF Sound, Alive, Alike
<1> QED
  BY <1>1, <1>2, <1>3, Zenon DEF Sound, Sane, Proper

(* The tick of the timer preserves the invariant. *)
LEMMA TimerIrqOK == ASSUME IInv, TimerIrq PROVE IInv'
<1>1. /\ scan = NoScan /\ proc[current].pc = "user" /\ scan' = 0
      /\ current' = current /\ nextPid' = nextPid /\ services' = services
      /\ foreground' = foreground /\ ctrlc' = ctrlc /\ slice' = slice
  BY Zenon DEF TimerIrq, Interruptible, registry
<1> DEFINE down(p) == IF proc[p].wakeup > 0 THEN proc[p].wakeup - 1 ELSE 0
           left(p) == IF proc[p].alarm > 0 THEN proc[p].alarm - 1 ELSE proc[p].alarm
           rec(p) == [proc[p] EXCEPT !.wakeup = down(p), !.alarm = left(p)]
<1>2. proc' = [p \in Pid |-> rec(p)]
  BY Zenon DEF TimerIrq
<1>3. ASSUME NEW p \in Pid PROVE rec(p) \in ProcType /\ Alike(proc[p], rec(p))
  <2>1. proc[p] \in ProcType
    BY Zenon DEF IInv, Sound, Sane, Proper, Typed
  <2>2. down(p) \in 0 .. MaxTicks /\ left(p) \in Off .. MaxTicks
    BY <2>1, ProcessAssumption DEF ProcType, Off
  <2> HIDE DEF down, left
  <2> QED
    BY <2>1, <2>2, Zenon DEF ProcType, Alike
<1> HIDE DEF rec
<1>4. Typed(proc') /\ \A q \in Pid : Alike(proc[q], proc'[q])
  BY <1>2, <1>3, Zenon DEF Typed
<1>5. Sound(proc', current, nextPid, services)
  BY <1>4, AlikeSound, Zenon DEF IInv
<1>6. Runs(proc', current) /\ proc'[current].pc = "user"
  BY <1>1, <1>4, Zenon DEF Runs, IInv, Sound, Alike
<1>7. 0 \in Pid
  BY ProcessAssumption DEF Pid
<1> QED
  BY <1>1, <1>5, <1>6, <1>7, Zenon DEF IInv, Globals

(* process_reap() preserves the invariant: it removes no process that      *)
(* somebody blocked still waits for.                                       *)
LEMMA TimerReapOK == ASSUME IInv, TimerReap PROVE IInv'
<1>1. /\ scan # NoScan /\ scan' = EndOfScan
      /\ current' = current /\ nextPid' = nextPid /\ services' = services
      /\ foreground' = foreground /\ ctrlc' = ctrlc /\ slice' = slice
  BY Zenon DEF TimerReap, registry
<1>2. proc' = [p \in Pid |-> IF proc[p].state = "TERMINATED" /\ p # Idle
                             THEN FreeProc ELSE proc[p]]
  BY Zenon DEF TimerReap
<1>3. /\ FreeProc \in ProcType /\ FreeProc.state = "FREE"
      /\ ~FreeProc.waiter /\ FreeProc.pc = "user"
  <2>1. Idle \in Pid
    BY ProcessAssumption DEF Pid, Idle
  <2> QED
    BY <2>1, NewProcTyped, Zenon DEF FreeProc, NewProc
<1>4. Typed(proc')
  BY <1>2, <1>3, Zenon DEF IInv, Sound, Sane, Proper, Typed
<1>5. \A q \in Pid : proc'[q] = proc[q] \/ (proc'[q] = FreeProc
                                            /\ proc[q].state = "TERMINATED" /\ q # Idle)
  BY <1>2, Zenon
<1>6. Mail(proc') /\ Targets(proc') /\ Fresh(proc', nextPid) /\ Single(proc', current)
  <2>1. Mail(proc')
    BY <1>3, <1>5, Zenon DEF IInv, Sound, Sane, Proper, Mail
  <2>2. Targets(proc')
    BY <1>3, <1>5, Zenon DEF IInv, Sound, Sane, Proper, Targets
  <2>3. Fresh(proc', nextPid) /\ Single(proc', current)
    BY <1>3, <1>5, Zenon DEF IInv, Sound, Sane, Proper, Fresh, Single
  <2> QED
    BY <2>1, <2>2, <2>3, Zenon
<1>7. Waits(proc')
  <2>1. Waits(proc)
    BY Zenon DEF IInv, Sound, Sane
  <2> QED
    BY <1>3, <1>5, <2>1, WaitsKept, Zenon
<1>8. Alive(proc', services)
  BY <1>3, <1>5, Zenon DEF IInv, Sound, Alive
<1>9. Runs(proc', current) /\ proc'[current].pc = "user"
  BY <1>1, <1>5, Zenon DEF IInv, Sound, Runs
<1> QED
  BY <1>1, <1>4, <1>6, <1>7, <1>8, <1>9, Zenon DEF IInv, Sound, Sane, Proper, Globals

(* The timer's scan of the process list preserves the invariant: a wakeup, *)
(* a caught SIGALRM, a death of SIGALRM, that of the running process       *)
(* included.                                                               *)
LEMMA TimerScanOK == ASSUME Ordered, IInv, TimerScan PROVE IInv'
<1> DEFINE p == Least(Due)
           woken == Woken(p)
<1>1. /\ scan \notin {NoScan, EndOfScan} /\ Due # {}
      /\ ctrlc' = ctrlc /\ slice' = slice /\ proc[current].pc = "user"
  BY Zenon DEF TimerScan, IInv
<1>2. p \in Pid /\ proc[p].state # "FREE" /\ p \in Nat
  <2>1. Due \subseteq Nat
    BY ProcessAssumption DEF Due, Live, Pid
  <2>2. p \in Due
    BY <1>1, <2>1, LeastIn, Zenon
  <2> QED
    BY <2>1, <2>2, Zenon DEF Due, Live
<1>3. \/ /\ proc' = woken /\ scan' = p + 1
         /\ UNCHANGED <<current, registry>>
      \/ /\ Caught(woken, p, SIGALRM)
         /\ proc' = Catch(woken, p, SIGALRM) /\ scan' = p + 1
         /\ UNCHANGED <<current, registry>>
      \/ \E r \in Respawn(woken, p) :
            /\ Unregister(p, r)
            /\ IF p = current
               THEN LeaveDead(woken, r) /\ scan' = NoScan
               ELSE /\ proc' = Bury(woken, p, r) /\ scan' = p + 1
                    /\ UNCHANGED current
  BY Zenon DEF TimerScan, Woken
<1> HIDE DEF p
<1>4. p < nextPid
  BY <1>2, LiveBelow, Zenon DEF IInv
<1>5. Sound(woken, current, nextPid, services)
  BY <1>1, <1>2, WokenSound, Zenon
<1>6. /\ current \in Pid /\ current < nextPid /\ ~proc[current].waiter
      /\ current # Idle => proc[current].state = "RUNNING"
  BY <1>1, UserFacts, Zenon
<1>7. /\ Runs(woken, current) /\ woken[current].pc = "user"
      /\ ~woken[current].waiter /\ woken[p].state # "FREE"
  BY <1>1, <1>2, WokenSound, Zenon
<1>8. p + 1 \in Pid \cup {MaxPid + 1}
  BY <1>2, ProcessAssumption DEF Pid
<1> HIDE DEF woken
<1>9. CASE /\ proc' = woken /\ scan' = p + 1
           /\ UNCHANGED <<current, registry>>
  BY <1>1, <1>5, <1>7, <1>8, <1>9, Zenon DEF IInv, Globals, registry
<1>10. CASE /\ Caught(woken, p, SIGALRM)
            /\ proc' = Catch(woken, p, SIGALRM) /\ scan' = p + 1
            /\ UNCHANGED <<current, registry>>
  <2>1. SIGALRM \in Catchable
    BY Zenon DEF Catchable
  <2>2. /\ Sound(proc', current, nextPid, services)
        /\ proc'[current].pc = woken[current].pc
        /\ woken[current].state = "RUNNING" => proc'[current].state = "RUNNING"
    <3> DEFINE new == Catch(woken, p, SIGALRM)
    <3>1. Sound(new, current, nextPid, services) /\ Undisturbed(woken, new)
      BY <1>2, <1>4, <1>5, <2>1, CatchSound, Zenon
    <3>2. proc' = new
      BY <1>10, Zenon
    <3> HIDE DEF new
    <3>3. /\ Sound(new, current, nextPid, services)
          /\ new[current].pc = woken[current].pc
          /\ woken[current].state = "RUNNING" => new[current].state = "RUNNING"
      BY <1>6, <3>1, Zenon DEF Undisturbed
    <3> QED
      BY <3>2, <3>3, Zenon
  <2>3. Runs(proc', current)
    BY <1>7, <2>2, Zenon DEF Runs
  <2> QED
    BY <1>1, <1>7, <1>8, <1>10, <2>2, <2>3, Zenon DEF IInv, Globals, registry
<1>11. ASSUME NEW r \in Respawn(woken, p), Unregister(p, r),
              IF p = current
              THEN LeaveDead(woken, r) /\ scan' = NoScan
              ELSE /\ proc' = Bury(woken, p, r) /\ scan' = p + 1
                   /\ UNCHANGED current
       PROVE  IInv'
  <2>1. r \in Outcome /\ (r # "none" => nextPid \in Pid)
    BY RespawnIn, Zenon DEF IInv
  <2>2. nextPid' \in 1 .. MaxPid + 1 /\ foreground' \in Pid
    BY <1>11, <2>1, UnregisterOK, Zenon DEF IInv
  <2>3. CASE p = current
    <3>1. Sound(proc', current', nextPid', services') /\ Runs(proc', current')
      BY <1>5, <1>7, <1>11, <2>1, <2>3, LeaveDeadOK, Zenon
    <3> QED
      BY <1>1, <1>11, <2>2, <2>3, <3>1, Zenon DEF IInv, Globals
  <2>4. CASE p # current
    <3>1. p \in Pid /\ woken[p].state # "FREE" /\ Unregister(p, r)
      BY <1>2, <1>7, <1>11, Zenon
    <3>2. /\ Sound(Bury(woken, p, r), current, nextPid', services')
          /\ p # current /\ current < nextPid => Gentle(woken, Bury(woken, p, r), current)
      BY <1>5, <2>1, <3>1, BurySound, ZenonT(30)
    <3>3. Sound(proc', current, nextPid', services') /\ Gentle(woken, proc', current)
      BY <1>6, <1>11, <2>4, <3>2, Zenon
    <3>4. Runs(proc', current) /\ proc'[current].pc = "user"
      BY <1>7, <3>3, Zenon DEF Gentle, Runs
    <3> QED
      BY <1>1, <1>8, <1>11, <2>2, <2>4, <3>3, <3>4, Zenon DEF IInv, Globals
  <2> QED
    BY <2>3, <2>4, Zenon
<1> QED
  BY <1>3, <1>9, <1>10, <1>11, Zenon

(* shell_handle_ctrl_c() preserves the invariant. *)
LEMMA CtrlCOK ==
    ASSUME Ordered, IInv, proc[current].pc = "user", CtrlC, scan' = NoScan,
           ctrlc' \in BOOLEAN
    PROVE  IInv'
<1> DEFINE fg == foreground
<1>1. /\ current \in Pid /\ current < nextPid /\ ~proc[current].waiter
      /\ current # Idle => proc[current].state = "RUNNING"
  BY UserFacts, Zenon
<1>2. fg \in Pid /\ slice \in 1 .. Timeslice
  BY Zenon DEF IInv, Globals
<1>3. CASE Preempt(proc) /\ UNCHANGED registry
  <2>1. /\ Sound(proc', current', nextPid, services) /\ Runs(proc', current')
        /\ slice' \in 1 .. Timeslice
    BY <1>1, <1>2, <1>3, PreemptOK, Zenon DEF IInv
  <2> QED
    BY <1>3, <2>1, Zenon DEF IInv, Globals, registry
<1>4. CASE /\ proc[fg].state # "FREE"
           /\ WaitRound(Catch(proc, fg, SIGINT), current, fg, "ctrlc")
           /\ UNCHANGED registry
  <2> DEFINE tab == Catch(proc, fg, SIGINT)
  <2>1. SIGINT \in Catchable /\ fg < nextPid
    BY <1>2, <1>4, LiveBelow, Zenon DEF Catchable, IInv
  <2>2. Sound(tab, current, nextPid, services) /\ Undisturbed(proc, tab)
    BY <1>2, <2>1, CatchSound, Zenon DEF IInv
  <2>3. WaitRound(tab, current, fg, "ctrlc")
    BY <1>4, Zenon
  <2> HIDE DEF tab
  <2>4. Runs(tab, current) /\ ~tab[current].waiter
    BY <1>1, <2>2, Zenon DEF Runs, Undisturbed
  <2>5. /\ Sound(proc', current', nextPid, services) /\ Runs(proc', current')
        /\ slice' \in 1 .. Timeslice
    BY <1>2, <2>2, <2>3, <2>4, WaitRoundOK, Zenon
  <2> QED
    BY <1>4, <2>5, Zenon DEF IInv, Globals, registry
<1>5. ASSUME proc[fg].state # "FREE", NEW r \in Respawn(proc, fg), Unregister(fg, r),
             IF fg = current
             THEN LeaveDead(proc, r) /\ UNCHANGED slice
             ELSE WaitRound(Bury(proc, fg, r), current, fg, "ctrlc")
      PROVE  IInv'
  <2>1. r \in Outcome /\ (r # "none" => nextPid \in Pid)
    BY RespawnIn, Zenon DEF IInv
  <2>2. nextPid' \in 1 .. MaxPid + 1 /\ foreground' \in Pid
    BY <1>5, <2>1, UnregisterOK, Zenon DEF IInv
  <2>3. CASE fg = current
    <3>1. Sound(proc', current', nextPid', services') /\ Runs(proc', current')
      BY <1>5, <2>1, <2>3, LeaveDeadOK, Zenon DEF IInv
    <3> QED
      BY <1>2, <1>5, <2>2, <2>3, <3>1, Zenon DEF IInv, Globals
  <2>4. CASE fg # current
    <3> DEFINE tab == Bury(proc, fg, r)
    <3>1. Sound(tab, current, nextPid', services') /\ Gentle(proc, tab, current)
      BY <1>1, <1>2, <1>5, <2>1, <2>4, BurySound, Zenon DEF IInv
    <3>2. WaitRound(tab, current, fg, "ctrlc")
      BY <1>5, <2>4, Zenon
    <3> HIDE DEF tab
    <3>3. Runs(tab, current) /\ ~tab[current].waiter
      BY <1>1, <3>1, Zenon DEF Gentle, Runs
    <3>4. /\ Sound(proc', current', nextPid', services') /\ Runs(proc', current')
          /\ slice' \in 1 .. Timeslice
      BY <1>2, <3>1, <3>2, <3>3, WaitRoundOK, Zenon
    <3> QED
      BY <2>2, <3>4, Zenon DEF IInv, Globals
  <2> QED
    BY <2>3, <2>4, Zenon
<1> QED
  BY <1>3, <1>4, <1>5, Zenon DEF CtrlC

(* The end of the timer handler preserves the invariant. *)
LEMMA TimerTailOK == ASSUME Ordered, IInv, TimerTail PROVE IInv'
<1>1. scan = EndOfScan /\ scan' = NoScan /\ ctrlc' \in BOOLEAN
  BY Zenon DEF TimerTail
<1>2. proc[current].pc = "user"
  BY <1>1, ProcessAssumption DEF IInv, EndOfScan, NoScan
<1>3. CASE CtrlC
  BY <1>1, <1>2, <1>3, CtrlCOK, Zenon
<1>4. CASE Preempt(proc) /\ UNCHANGED registry
  <2>1. ~proc[current].waiter /\ slice \in 1 .. Timeslice
    BY <1>2, UserFacts, Zenon DEF IInv, Globals
  <2>2. /\ Sound(proc', current', nextPid, services) /\ Runs(proc', current')
        /\ slice' \in 1 .. Timeslice
    BY <1>4, <2>1, PreemptOK, Zenon DEF IInv
  <2> QED
    BY <1>1, <1>4, <2>2, Zenon DEF IInv, Globals, registry
<1> QED
  BY <1>3, <1>4, Zenon DEF TimerTail

(* The keyboard interrupt preserves the invariant. *)
LEMMA KeyCtrlCOK == ASSUME IInv, KeyCtrlC PROVE IInv'
<1>1. /\ scan = NoScan /\ proc[current].pc = "user" /\ scan' = scan
      /\ current' = current /\ nextPid' = nextPid /\ services' = services
      /\ foreground' = foreground /\ slice' = slice
  BY Zenon DEF KeyCtrlC, Interruptible, registry
<1>2. CASE proc' = Send(proc, services["wm"], Kernel) /\ ctrlc' = ctrlc
  <2>1. services["wm"] \in Pid /\ Kernel \in Pid
    BY ProcessAssumption DEF IInv, Sound, Kernel, Pid
  <2>2. Sound(proc', current, nextPid, services) /\ Runs(proc', current)
    BY <1>1, <1>2, <2>1, UserFacts, SendSound, Zenon DEF IInv
  <2> QED
    BY <1>1, <1>2, <2>2, Zenon DEF IInv, Globals
<1>3. CASE ctrlc' = TRUE /\ proc' = proc
  <2>1. ctrlc' \in BOOLEAN
    BY <1>3, Zenon
  <2> QED
    BY <1>1, <1>3, <2>1, Zenon DEF IInv, Globals
<1> QED
  BY <1>2, <1>3, Zenon DEF KeyCtrlC

(* The idle loop preserves the invariant. *)
LEMMA IdleScheduleOK == ASSUME Ordered, IInv, IdleSchedule PROVE IInv'
<1>1. /\ scan = NoScan /\ current = Idle /\ Schedule(proc)
      /\ nextPid' = nextPid /\ services' = services /\ foreground' = foreground
      /\ ctrlc' = ctrlc /\ slice' = slice /\ scan' = scan
  BY Zenon DEF IdleSchedule, registry, timer
<1>2. Sound(proc', current', nextPid, services) /\ Runs(proc', current')
  BY <1>1, ScheduleOK, Zenon DEF IInv, Leaves
<1> QED
  BY <1>1, <1>2, Zenon DEF IInv, Globals

(* The continuation of a blocked system call preserves the invariant. *)
LEMMA ResumeOK == ASSUME Ordered, IInv, Resume PROVE IInv'
<1> DEFINE r == proc[current]
<1>1. /\ scan = NoScan /\ nextPid' = nextPid /\ services' = services
      /\ foreground' = foreground /\ ctrlc' = ctrlc /\ scan' = scan
  BY Zenon DEF Resume, registry
<1>2. /\ r \in ProcType /\ (r.waiter => r.pc \in {"recv", "rpc"})
      /\ r.pc \in {"wait", "ctrlc"} => r.arg \in Pid \cup {Any}
      /\ slice \in 1 .. Timeslice
  BY Zenon DEF IInv, Sound, Sane, Proper, Typed, Mail, Targets, Globals
<1>3. r.arg \in Pid \cup {Any} \cup 0 .. MaxTicks
  BY <1>2, Zenon DEF ProcType
<1>4. /\ Sound(proc', current', nextPid, services) /\ Runs(proc', current')
      /\ slice' \in 1 .. Timeslice
  <2>1. CASE r.pc = "ret" /\ Finish(proc)
    BY <1>2, <2>1, FinishOK, ZenonT(30) DEF IInv
  <2>2. CASE r.pc = "wait" /\ WaitRound(proc, current, r.arg, "wait")
    BY <1>2, <2>2, WaitRoundOK, Zenon DEF IInv
  <2>3. CASE r.pc = "ctrlc" /\ WaitRound(proc, current, r.arg, "ctrlc")
    BY <1>2, <2>3, WaitRoundOK, Zenon DEF IInv
  <2>4. CASE r.pc = "recv" /\ RecvRound(current)
    BY <1>2, <2>4, RecvRoundOK, Zenon DEF IInv
  <2>5. CASE r.pc = "poll" /\ PollRound(current, r.arg)
    BY <1>2, <1>3, <2>5, PollRoundOK, Zenon DEF IInv
  <2>6. CASE r.pc = "rpc" /\ RpcRound(proc, current, r.arg)
    BY <1>2, <1>3, <2>6, RpcRoundOK, Zenon DEF IInv
  <2> QED
    BY <2>1, <2>2, <2>3, <2>4, <2>5, <2>6, Zenon DEF Resume
<1> QED
  BY <1>1, <1>4, Zenon DEF IInv, Globals

(* Every step preserves the invariant. *)
LEMMA StepOK == ASSUME Ordered, IInv, [Next]_vars PROVE IInv'
<1>1. ASSUME NEW p \in Pid, Syscall(p) PROVE IInv'
  BY <1>1, ForkOK, ExecOK, ExitOK, YieldOK, SleepCallOK, WaitOK, SigactionOK,
     SigreturnOK, AlarmOK, OtherOK, KillOK, SetForegroundOK, RegisterOK,
     UnregisterCallOK, IpcSendOK, IpcRecvOK, IpcPollOK, ServiceCallOK, Zenon
  DEF Syscall
<1>2. CASE TimerIrq \/ KeyCtrlC \/ KernelStep
  BY <1>2, TimerIrqOK, KeyCtrlCOK, TimerScanOK, TimerReapOK, TimerTailOK,
     IdleScheduleOK, ResumeOK, Zenon
  DEF KernelStep
<1>3. CASE UNCHANGED vars
  BY <1>3, Zenon DEF vars, IInv, Sound, Sane, Proper, Typed, Mail, Targets, Fresh,
              Waits, Single, Alive, Runs, Globals
<1> QED
  BY <1>1, <1>2, <1>3, Zenon DEF Next

=============================================================================
