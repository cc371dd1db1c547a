------------------------------ MODULE Process ------------------------------
(***************************************************************************)
(* Processes, signals, mailboxes and the timer of the LufiraOS kernel:     *)
(* kernel/system/process/process.c, kernel/system/ipc/mailbox.c, the timer *)
(* handler of kernel/system/timer/pit.c and the system calls that lead     *)
(* there.                                                                  *)
(*                                                                         *)
(* There is one CPU.  A system call runs with interrupts disabled, and the *)
(* timer preempts ring-3 code only, so what a system call does up to its   *)
(* next schedule() is one atomic step.  A process that calls schedule() in *)
(* the middle of a system call continues there when it is chosen again:    *)
(* its field pc names the place, and Resume takes the rest of the call.    *)
(*                                                                         *)
(* The process list of the code is circular, starts with the idle process, *)
(* and every new process is appended at its tail with the next larger pid. *)
(* Its order is therefore the order of the pids and needs no variable.     *)
(***************************************************************************)
EXTENDS Integers, Sequences, FiniteSets

CONSTANTS
    MaxPid,         \* bound on next_pid: no process is created beyond it
    MaxProcesses,   \* MAX_PROCESSES, the idle process not counted
    MailboxSlots,   \* MAX_IPC_MAILBOX_SLOTS
    Timeslice,      \* PREEMPT_TIMESLICE_TICKS
    MaxTicks,       \* bound on the length of a sleep, an alarm, a poll
    Calls,          \* the system calls the programs of this instance use
    Signals,        \* the signals they send with SYS_KILL
    Handled,        \* the signals they install handlers for
    Service,        \* "wm", and the daemons "netd" and "soundd" if they matter
    Oom             \* whether allocations may fail

SIGINT  == 2
SIGKILL == 9
SIGALRM == 14
SIGTERM == 15
SIGCONT == 18
SIGSTOP == 19
Catchable == {SIGINT, SIGTERM, SIGALRM}

ASSUME ProcessAssumption ==
    /\ MaxPid \in Nat \ {0}
    /\ MaxProcesses \in Nat \ {0}
    /\ MailboxSlots \in Nat \ {0}
    /\ Timeslice \in Nat \ {0}
    /\ MaxTicks \in Nat \ {0}
    /\ Signals \subseteq {SIGINT, SIGKILL, SIGTERM, SIGCONT, SIGSTOP}
    /\ Handled \subseteq Catchable
    /\ "wm" \in Service
    /\ Oom \in BOOLEAN

Idle   == 0                     \* pid of the idle process
Kernel == 0                     \* WM_SENDER_KERNEL
Any    == -1                    \* WAIT_ANY_PID
Off    == -1                    \* no alarm is armed
NoScan == -1                    \* the timer handler is not running
EndOfScan == MaxPid + 2         \* the timer handler has scanned and reaped
Pid    == 0 .. MaxPid

VARIABLES
    proc,        \* the process table; a "FREE" pid is not in the list
    current,     \* current_process
    nextPid,     \* next_pid
    services,    \* g_wm_pid, g_netd_pid, g_soundd_pid; 0 when not registered
    foreground,  \* foreground_pid
    ctrlc,       \* shell_ctrl_c_pending
    slice,       \* preempt_countdown
    scan         \* next pid the timer handler looks at, or NoScan

vars == <<proc, current, nextPid, services, foreground, ctrlc, slice, scan>>
registry == <<nextPid, services, foreground>>
timer == <<ctrlc, slice, scan>>

State == {"FREE", "READY", "RUNNING", "BLOCKED", "SLEEPING", "TERMINATED",
          "STOPPED"}

(***************************************************************************)
(* Where a process continues when it runs: user code, the end of a system  *)
(* call, or the loop of process_wait (called by SYS_WAIT or, inside the    *)
(* timer handler, by shell_handle_ctrl_c), of mailbox_recv without and     *)
(* with a timeout, or of service_call.                                     *)
(***************************************************************************)
Place == {"user", "ret", "wait", "ctrlc", "recv", "poll", "rpc"}

ProcType ==
    [state : State, ppid : Pid, waitFor : Pid \cup {Any},
     wakeup : 0 .. MaxTicks, alarm : Off .. MaxTicks,
     handlers : SUBSET Catchable, pending : Catchable \cup {0},
     inHandler : BOOLEAN, isShell : BOOLEAN,
     mbox : Seq(Pid), waiter : BOOLEAN,
     pc : Place, arg : Pid \cup {Any} \cup 0 .. MaxTicks]

NewProc(parent, shell) ==
    [state |-> "READY", ppid |-> parent, waitFor |-> 0, wakeup |-> 0,
     alarm |-> Off, handlers |-> {}, pending |-> 0, inHandler |-> FALSE,
     isShell |-> shell, mbox |-> << >>, waiter |-> FALSE,
     pc |-> "user", arg |-> 0]

FreeProc == [NewProc(Idle, FALSE) EXCEPT !.state = "FREE"]

Least(S) == CHOOSE p \in S : \A q \in S : p <= q

Live(pr) == {p \in Pid : pr[p].state # "FREE"}

(* process_count, which does not count the idle process *)
ProcessCount(pr) == Cardinality(Live(pr) \ {Idle})

-----------------------------------------------------------------------------
(* The scheduler *)

(* The order in which schedule() walks the ring from c->next: c comes last. *)
Distance(c, p) == (p - c - 1) % (MaxPid + 1)

(* Fault: the search starts at the head of the list, not after c. *)
PickFirst(pr, c) ==
    LET ready == {p \in Pid \ {Idle} : pr[p].state = "READY"}
    IN  IF ready # {} THEN Least(ready)
        ELSE IF pr[c].state = "RUNNING" THEN c ELSE Idle

(* schedule(): the first READY process after c that is not the idle one;   *)
(* without one c keeps the CPU if it is RUNNING, else the idle process.    *)
PickNext(pr, c) ==
    LET ready == {p \in Pid \ {Idle} : pr[p].state = "READY"}
    IN  IF ready # {}
        THEN CHOOSE p \in ready :
                \A q \in ready : Distance(c, p) <= Distance(c, q)
        ELSE IF pr[c].state = "RUNNING" THEN c ELSE Idle

(* switch_to_process() *)
SwitchTo(pr, c, n) ==
    IF n = c THEN pr
    ELSE [pr EXCEPT ![c] = [pr[c] EXCEPT
                                !.state = IF @ = "RUNNING" THEN "READY" ELSE @],
                    ![n] = [pr[n] EXCEPT !.state = "RUNNING"]]

Switch(pr, n) ==
    /\ proc' = SwitchTo(pr, current, n)
    /\ current' = n

Schedule(pr) == Switch(pr, PickNext(pr, current))

-----------------------------------------------------------------------------
(* Pieces of the handlers, as functions of the process table *)

(* Fault: the call returns without looking for a pending signal. *)
ReturnUndelivered(pr, p) ==
    [pr EXCEPT ![p] = [pr[p] EXCEPT !.pc = "user", !.arg = 0]]

(* process_deliver_pending_signal() and the return to ring 3 *)
Return(pr, p) ==
    LET r == pr[p]
        deliver == r.pending \in r.handlers /\ ~r.inHandler
    IN  [pr EXCEPT ![p] =
            [r EXCEPT !.pc = "user", !.arg = 0,
                      !.pending = IF deliver THEN 0 ELSE @,
                      !.inHandler = IF deliver THEN TRUE ELSE @]]

(* mailbox_send(): the message is the pid of its sender.  The waiter is     *)
(* made READY whatever its state is.                                        *)
CanSend(pr, dest) ==
    pr[dest].state # "FREE" /\ Len(pr[dest].mbox) < MailboxSlots

(* Fault: the message is queued and the waiter sleeps on. *)
SendSilently(pr, dest, from) ==
    IF CanSend(pr, dest)
    THEN [pr EXCEPT ![dest] = [pr[dest] EXCEPT !.mbox = Append(@, from)]]
    ELSE pr

Send(pr, dest, from) ==
    IF CanSend(pr, dest)
    THEN [pr EXCEPT ![dest] =
             [pr[dest] EXCEPT !.mbox = Append(@, from),
                              !.waiter = FALSE,
                              !.state = IF pr[dest].waiter THEN "READY" ELSE @]]
    ELSE pr

(* Fault: a parent that waits for any child is not found. *)
WaitsForThisOne(pr, p, child) ==
    /\ pr[child].ppid = p
    /\ p # Idle
    /\ pr[p].state = "BLOCKED"
    /\ pr[p].waitFor = child

(* find_waiting_parent() and wake_waiting_parent() *)
WaitsFor(pr, p, child) ==
    /\ pr[child].ppid = p
    /\ p # Idle
    /\ pr[p].state = "BLOCKED"
    /\ pr[p].waitFor \in {child, Any}

WakeWaitingParent(pr, child) ==
    LET p == pr[child].ppid
    IN  IF WaitsFor(pr, p, child)
        THEN [pr EXCEPT ![p] = [pr[p] EXCEPT !.waitFor = 0, !.state = "READY"]]
        ELSE pr

(***************************************************************************)
(* The outcomes of respawn_shell_if_needed(dying): no process, a process   *)
(* that was created but could not be loaded, a new shell.  A full table    *)
(* fails for certain, a lack of memory may fail at any point.  The last    *)
(* pid of the instance is reported as a failure too.                       *)
(***************************************************************************)
Respawn(pr, dying) ==
    IF ~pr[dying].isShell THEN {"none"}
    ELSE IF ProcessCount(pr) >= MaxProcesses \/ nextPid > MaxPid THEN {"none"}
    ELSE IF Oom THEN {"none", "stillborn", "shell"} ELSE {"shell"}

(***************************************************************************)
(* What process_exit() and terminate_process_by_signal() do to the process *)
(* table before they look for a waiting parent: the process is marked, the *)
(* window manager is told, a shell is replaced.                            *)
(***************************************************************************)
Mark(pr, p, respawn) ==
    LET dead == [pr EXCEPT ![p] = [pr[p] EXCEPT !.state = "TERMINATED"]]
        told == IF services["wm"] \in {0, p} THEN dead
                ELSE Send(dead, services["wm"], Kernel)
    IN  CASE respawn = "none" -> told
          [] respawn = "shell" ->
                [told EXCEPT ![nextPid] = NewProc(current, TRUE)]
          [] respawn = "stillborn" ->
                [told EXCEPT ![nextPid] =
                    [NewProc(current, FALSE) EXCEPT !.state = "TERMINATED"]]

Bury(pr, p, respawn) == WakeWaitingParent(Mark(pr, p, respawn), p)

(* Fault: only foreground_pid is cleared. *)
UnregisterForeground(p, respawn) ==
    /\ foreground' = IF foreground = p THEN 0 ELSE foreground
    /\ nextPid' = IF respawn = "none" THEN nextPid ELSE nextPid + 1
    /\ UNCHANGED services

(* ... and to the registrations of the process *)
Unregister(p, respawn) ==
    /\ services' = [s \in Service |->
                        IF services[s] = p THEN 0 ELSE services[s]]
    /\ foreground' = IF foreground = p THEN 0 ELSE foreground
    /\ nextPid' = IF respawn = "none" THEN nextPid ELSE nextPid + 1

(* process_exit() and the tail of terminate_process_by_signal() when the   *)
(* process that dies is the running one: straight to a waiting parent.     *)
LeaveDead(pr, respawn) ==
    LET buried == Bury(pr, current, respawn)
        parent == pr[current].ppid
    IN  IF WaitsFor(Mark(pr, current, respawn), parent, current)
        THEN Switch(buried, parent)
        ELSE Schedule(buried)

(* process_signal(): the signal has a handler and none is running *)
Caught(pr, p, sig) == sig \in pr[p].handlers /\ ~pr[p].inHandler

(* Fault: the process becomes READY even if it is the running one. *)
CatchAndWake(pr, p, sig) ==
    [pr EXCEPT ![p] = [pr[p] EXCEPT !.pending = sig, !.state = "READY"]]

Catch(pr, p, sig) ==
    [pr EXCEPT ![p] =
        [pr[p] EXCEPT !.pending = sig,
                      !.state = IF @ \in {"BLOCKED", "SLEEPING"} THEN "READY"
                                ELSE @]]

-----------------------------------------------------------------------------
(* The loops that wait.  c is the running process. *)

(* The end of a system call that gave nothing away *)
Finish(pr) ==
    /\ proc' = Return(pr, current)
    /\ UNCHANGED <<current, slice>>

(* The end of the timer handler: ring-3 code loses the CPU when its slice   *)
(* is up.                                                                   *)
Preempt(pr) ==
    LET back == [pr EXCEPT ![current] =
                    [pr[current] EXCEPT !.pc = "user", !.arg = 0]]
    IN  \/ /\ current = Idle
           /\ proc' = back
           /\ UNCHANGED <<current, slice>>
        \/ /\ current # Idle /\ slice > 1
           /\ proc' = back /\ slice' = slice - 1
           /\ UNCHANGED current
        \/ /\ current # Idle /\ slice = 1
           /\ slice' = Timeslice
           /\ Schedule(back)

(***************************************************************************)
(* One round of process_wait(): take the first zombie, or give up when     *)
(* there is no child, or block.  SYS_WAIT then returns; the Ctrl+C handler *)
(* goes on to the end of the timer interrupt.                              *)
(***************************************************************************)
Children(pr, c, target) ==
    {q \in Live(pr) : pr[q].ppid = c /\ target \in {q, Any}}

AfterWait(pr, place) == IF place = "ctrlc" THEN Preempt(pr) ELSE Finish(pr)

WaitRound(pr, c, target, place) ==
    LET children == Children(pr, c, target)
        zombies  == {q \in children : pr[q].state = "TERMINATED"}
    IN  \/ /\ zombies # {}
           /\ AfterWait([pr EXCEPT ![Least(zombies)] = FreeProc,
                                   ![c] = [pr[c] EXCEPT !.waitFor = 0]], place)
        \/ /\ children = {}
           /\ AfterWait([pr EXCEPT ![c] = [pr[c] EXCEPT !.waitFor = 0]], place)
        \/ /\ children # {} /\ zombies = {}
           /\ Schedule([pr EXCEPT ![c] =
                           [pr[c] EXCEPT !.waitFor = target, !.state = "BLOCKED",
                                         !.pc = place, !.arg = target]])
           /\ UNCHANGED slice

(* process_sleep() *)
Sleep(pr, c, ticks, place, rest) ==
    Schedule([pr EXCEPT ![c] =
                 [pr[c] EXCEPT !.wakeup = ticks, !.state = "SLEEPING",
                               !.pc = place, !.arg = rest]])

(* mailbox_recv() with timeout_ms < 0; place and arg belong to the caller *)
BlockInRecv(pr, c, place, arg) ==
    Schedule([pr EXCEPT ![c] =
                 [pr[c] EXCEPT !.waiter = TRUE, !.state = "BLOCKED",
                               !.pc = place, !.arg = arg]])

RecvRound(c) ==
    \/ /\ proc[c].mbox # << >>
       /\ Finish([proc EXCEPT ![c].mbox = Tail(@)])
    \/ /\ proc[c].mbox = << >>
       /\ BlockInRecv(proc, c, "recv", 0)
       /\ UNCHANGED slice

(* mailbox_recv() with timeout_ms >= 0: polls is the number of ticks left *)
PollRound(c, polls) ==
    \/ /\ proc[c].mbox # << >>
       /\ Finish([proc EXCEPT ![c].mbox = Tail(@)])
    \/ /\ proc[c].mbox = << >> /\ polls = 0
       /\ Finish(proc)
    \/ /\ proc[c].mbox = << >> /\ polls > 0
       /\ Sleep(proc, c, 1, "poll", polls - 1)
       /\ UNCHANGED slice

(* The loop of service_call(): messages of other senders are thrown away   *)
(* until the one from the service is found or the mailbox is empty.        *)
Answers(box, s) == {i \in 1 .. Len(box) : box[i] = s}

RpcRound(pr, c, s) ==
    LET box == pr[c].mbox
        answers == Answers(box, s)
    IN  \/ /\ answers # {}
           /\ Finish([pr EXCEPT ![c].mbox =
                        SubSeq(box, Least(answers) + 1, Len(box))])
        \/ /\ answers = {}
           /\ BlockInRecv([pr EXCEPT ![c].mbox = << >>], c, "rpc", s)
           /\ UNCHANGED slice

-----------------------------------------------------------------------------
(* System calls of the running process p *)

InUser(p, call) ==
    /\ call \in Calls
    /\ scan = NoScan
    /\ p = current /\ p # Idle
    /\ proc[p].pc = "user"

(***************************************************************************)
(* process_fork(): the child starts in ring 3 with the handlers of its     *)
(* parent and without its pending signal, alarm or mail.  A lack of memory *)
(* before the child is in the list or after it costs a pid and leaves no   *)
(* process.                                                                *)
(***************************************************************************)
SysFork(p) ==
    /\ InUser(p, "fork")
    /\ \/ /\ ProcessCount(proc) < MaxProcesses /\ nextPid <= MaxPid
          /\ proc' = Return([proc EXCEPT ![nextPid] =
                        [NewProc(p, FALSE) EXCEPT
                            !.handlers = proc[p].handlers]], p)
          /\ nextPid' = nextPid + 1
       \/ /\ ProcessCount(proc) < MaxProcesses /\ nextPid <= MaxPid /\ Oom
          /\ proc' = Return(proc, p)
          /\ nextPid' = nextPid + 1
       \/ /\ ProcessCount(proc) >= MaxProcesses
          /\ proc' = Return(proc, p)
          /\ UNCHANGED nextPid
    /\ UNCHANGED <<current, services, foreground, timer>>

(* elf_exec_replace() and process_commit_exec(): the process leaves for its *)
(* new image without the end of a system call, and becomes the foreground.  *)
SysExec(p) ==
    /\ InUser(p, "exec")
    /\ proc' = [proc EXCEPT ![p] =
                   [proc[p] EXCEPT !.handlers = {}, !.pending = 0,
                                   !.inHandler = FALSE, !.alarm = Off]]
    /\ foreground' = p
    /\ UNCHANGED <<current, nextPid, services, timer>>

SysExit(p) ==
    /\ InUser(p, "exit")
    /\ \E r \in Respawn(proc, p) : LeaveDead(proc, r) /\ Unregister(p, r)
    /\ UNCHANGED timer

SysYield(p) ==
    /\ InUser(p, "yield")
    /\ Schedule([proc EXCEPT ![p].pc = "ret"])
    /\ UNCHANGED <<registry, timer>>

SysSleep(p) ==
    /\ InUser(p, "sleep")
    /\ \E ticks \in 1 .. MaxTicks : Sleep(proc, p, ticks, "ret", 0)
    /\ UNCHANGED <<registry, timer>>

SysWait(p) ==
    /\ InUser(p, "wait")
    /\ \E target \in (Pid \ {Idle}) \cup {Any} :
          WaitRound(proc, p, target, "wait")
    /\ UNCHANGED <<registry, ctrlc, scan>>

(* sys_sigaction() for one signal: handler set, or default restored *)
SysSigaction(p) ==
    /\ InUser(p, "sigaction")
    /\ \E sig \in Handled, set \in BOOLEAN :
          proc' = Return([proc EXCEPT ![p].handlers =
                            IF set THEN @ \cup {sig} ELSE @ \ {sig}], p)
    /\ UNCHANGED <<current, registry, timer>>

(* process_sigreturn(): it does not ask whether a handler is running *)
SysSigreturn(p) ==
    /\ InUser(p, "sigreturn")
    /\ proc' = Return([proc EXCEPT ![p].inHandler = FALSE], p)
    /\ UNCHANGED <<current, registry, timer>>

SysAlarm(p) ==
    /\ InUser(p, "alarm")
    /\ \E ticks \in 0 .. MaxTicks :
          proc' = Return([proc EXCEPT ![p].alarm =
                            IF ticks = 0 THEN Off ELSE ticks], p)
    /\ UNCHANGED <<current, registry, timer>>

(* Any other call, and any call that fails: it only returns *)
SysOther(p) ==
    /\ InUser(p, "other")
    /\ proc' = Return(proc, p)
    /\ UNCHANGED <<current, registry, timer>>

(***************************************************************************)
(* sys_kill() and process_signal(), one action per outcome.  A signal with *)
(* a handler is left pending, and wakes the process.                       *)
(***************************************************************************)
KillCaught(p, t, sig) ==
    /\ Caught(proc, t, sig)
    /\ proc' = Return(Catch(proc, t, sig), p)
    /\ UNCHANGED <<current, registry>>

(* terminate_process_by_signal() *)
KillFatal(p, t, sig) ==
    /\ ~Caught(proc, t, sig) /\ sig \in {SIGINT, SIGKILL, SIGTERM}
    /\ \/ /\ proc[t].state = "TERMINATED"
          /\ proc' = Return(proc, p)
          /\ UNCHANGED <<current, registry>>
       \/ /\ proc[t].state # "TERMINATED"
          /\ \E r \in Respawn(proc, t) :
                /\ Unregister(t, r)
                /\ IF t = p THEN LeaveDead(proc, r)
                   ELSE /\ proc' = Return(Bury(proc, t, r), p)
                        /\ UNCHANGED current

KillStop(p, t) ==
    /\ UNCHANGED registry
    /\ LET stopped == [proc EXCEPT ![t].state =
                          IF @ = "TERMINATED" THEN @ ELSE "STOPPED"]
       IN  IF t = p THEN Schedule([stopped EXCEPT ![p].pc = "ret"])
           ELSE /\ proc' = Return(stopped, p)
                /\ UNCHANGED current

(* Fault: SIGCONT makes any process READY, a zombie too. *)
KillContAny(p, t) ==
    /\ proc' = Return([proc EXCEPT ![t].state =
                          IF @ = "RUNNING" THEN @ ELSE "READY"], p)
    /\ UNCHANGED <<current, registry>>

KillCont(p, t) ==
    /\ proc' = Return([proc EXCEPT ![t].state =
                          IF @ = "STOPPED" THEN "READY" ELSE @], p)
    /\ UNCHANGED <<current, registry>>

SysKill(p) ==
    /\ InUser(p, "kill")
    /\ \E t \in Live(proc) \ {Idle}, sig \in Signals :
          \/ KillCaught(p, t, sig)
          \/ KillFatal(p, t, sig)
          \/ sig = SIGSTOP /\ KillStop(p, t)
          \/ sig = SIGCONT /\ KillCont(p, t)
    /\ UNCHANGED timer

(***************************************************************************)
(* process_set_foreground(): the walk up from the parent of t, through     *)
(* processes that are still in the list, meets p: p is in every set that   *)
(* holds the parent of t and is closed under the step of the walk.         *)
(***************************************************************************)
Descends(pr, t, p) ==
    /\ p # 0
    /\ \A S \in SUBSET Pid :
          /\ pr[t].ppid \in S
          /\ \A q \in S \cap Live(pr) : q # 0 => pr[q].ppid \in S
          => p \in S

SysSetForeground(p) ==
    /\ InUser(p, "foreground")
    /\ \E t \in Live(proc) \cup {0} :
          /\ t = 0 \/ Descends(proc, t, p)
          /\ foreground' = t
    /\ proc' = Return(proc, p)
    /\ UNCHANGED <<current, nextPid, services, timer>>

(* SYS_WM_REGISTER, SYS_NETD_REGISTER, SYS_SOUNDD_REGISTER *)
SysRegister(p) ==
    /\ InUser(p, "register")
    /\ \E s \in Service :
          /\ services[s] = 0
          /\ services' = [services EXCEPT ![s] = p]
    /\ proc' = Return(proc, p)
    /\ UNCHANGED <<current, nextPid, foreground, timer>>

(* SYS_WM_UNREGISTER *)
SysUnregister(p) ==
    /\ InUser(p, "unregister")
    /\ services["wm"] = p
    /\ services' = [services EXCEPT !["wm"] = 0]
    /\ proc' = Return(proc, p)
    /\ UNCHANGED <<current, nextPid, foreground, timer>>

SysIpcSend(p) ==
    /\ InUser(p, "send")
    /\ \E dest \in Live(proc) \ {Idle} :
          proc' = Return(Send(proc, dest, p), p)
    /\ UNCHANGED <<current, registry, timer>>

SysIpcRecv(p) ==
    /\ InUser(p, "recv")
    /\ RecvRound(p)
    /\ UNCHANGED <<registry, ctrlc, scan>>

SysIpcPoll(p) ==
    /\ InUser(p, "poll")
    /\ \E polls \in 0 .. MaxTicks : PollRound(p, polls)
    /\ UNCHANGED <<registry, ctrlc, scan>>

(* service_call(), under SYS_WIN_*, SYS_SOUND_* and SYS_NET_* *)
SysServiceCall(p) ==
    /\ InUser(p, "rpc")
    /\ \E s \in Service :
          LET dest == services[s]
          IN  /\ dest # 0
              /\ IF CanSend(proc, dest)
                 THEN RpcRound(Send(proc, dest, p), p, dest)
                 ELSE Finish(proc)
    /\ UNCHANGED <<registry, ctrlc, scan>>

-----------------------------------------------------------------------------
(* The timer interrupt.  Its scan of the process list, the reaping and its *)
(* tail are separate steps, but while scan # NoScan no other step is       *)
(* possible.                                                               *)

Interruptible == scan = NoScan /\ proc[current].pc = "user"

(* timer_irq_handler(): one more tick.  Ticks are kept as the time that    *)
(* is left until a wakeup or an alarm.                                     *)
TimerIrq ==
    /\ Interruptible
    /\ proc' = [p \in Pid |->
                  [proc[p] EXCEPT !.wakeup = IF @ > 0 THEN @ - 1 ELSE 0,
                                  !.alarm = IF @ > 0 THEN @ - 1 ELSE @]]
    /\ scan' = 0
    /\ UNCHANGED <<current, registry, ctrlc, slice>>

(* Fault: the deadline of a sleep counts for a stopped process as well. *)
AsleepOrStopped(p) ==
    proc[p].state \in {"SLEEPING", "STOPPED"} /\ proc[p].wakeup = 0

Asleep(p) == proc[p].state = "SLEEPING" /\ proc[p].wakeup = 0
Due == {p \in Live(proc) : p >= scan /\ (Asleep(p) \/ proc[p].alarm = 0)}

(* One round of the scan: wake a sleeper, then raise SIGALRM if it is due. *)
(* A running process that dies of it leaves the handler for good.          *)
TimerScan ==
    /\ scan \notin {NoScan, EndOfScan} /\ Due # {}
    /\ LET p == Least(Due)
           woken == [proc EXCEPT ![p] =
                        [proc[p] EXCEPT !.state = IF Asleep(p) THEN "READY" ELSE @,
                                        !.alarm = IF @ = 0 THEN Off ELSE @]]
       IN  \/ /\ proc[p].alarm # 0
              /\ proc' = woken /\ scan' = p + 1
              /\ UNCHANGED <<current, registry>>
           \/ /\ proc[p].alarm = 0 /\ Caught(woken, p, SIGALRM)
              /\ proc' = Catch(woken, p, SIGALRM) /\ scan' = p + 1
              /\ UNCHANGED <<current, registry>>
           \/ /\ proc[p].alarm = 0 /\ ~Caught(woken, p, SIGALRM)
              /\ woken[p].state = "TERMINATED"
              /\ proc' = woken /\ scan' = p + 1
              /\ UNCHANGED <<current, registry>>
           \/ /\ proc[p].alarm = 0 /\ ~Caught(woken, p, SIGALRM)
              /\ woken[p].state # "TERMINATED"
              /\ \E r \in Respawn(woken, p) :
                    /\ Unregister(p, r)
                    /\ IF p = current
                       THEN LeaveDead(woken, r) /\ scan' = NoScan
                       ELSE /\ proc' = Bury(woken, p, r) /\ scan' = p + 1
                            /\ UNCHANGED current
    /\ UNCHANGED <<ctrlc, slice>>

(* Fault: process_reap() is not called. *)
TimerReapNothing ==
    /\ scan \notin {NoScan, EndOfScan} /\ Due = {}
    /\ scan' = EndOfScan
    /\ UNCHANGED <<proc, current, registry, ctrlc, slice>>

(* process_reap(), after the scan *)
TimerReap ==
    /\ scan \notin {NoScan, EndOfScan} /\ Due = {}
    /\ proc' = [p \in Pid |-> IF proc[p].state = "TERMINATED" /\ p # Idle
                              THEN FreeProc ELSE proc[p]]
    /\ scan' = EndOfScan
    /\ UNCHANGED <<current, registry, ctrlc, slice>>

(* shell_handle_ctrl_c(): SIGINT to the foreground process, and then       *)
(* process_wait() for it on behalf of whoever was interrupted.             *)
CtrlC ==
    LET fg == foreground
    IN  \/ /\ proc[fg].state = "FREE" \/ fg = 0
           /\ Preempt(proc)
           /\ UNCHANGED registry
        \/ /\ fg # 0 /\ proc[fg].state # "FREE" /\ Caught(proc, fg, SIGINT)
           /\ WaitRound(Catch(proc, fg, SIGINT), current, fg, "ctrlc")
           /\ UNCHANGED registry
        \/ /\ fg # 0 /\ proc[fg].state # "FREE" /\ ~Caught(proc, fg, SIGINT)
           /\ \E r \in Respawn(proc, fg) :
                 /\ Unregister(fg, r)
                 /\ IF fg = current
                    THEN LeaveDead(proc, r) /\ UNCHANGED slice
                    ELSE WaitRound(Bury(proc, fg, r), current, fg, "ctrlc")

TimerTail ==
    /\ scan = EndOfScan
    /\ scan' = NoScan /\ ctrlc' = FALSE
    /\ IF ctrlc THEN CtrlC ELSE Preempt(proc) /\ UNCHANGED registry

(* Ctrl+C at the keyboard: an input event for a window manager, else a flag *)
KeyCtrlC ==
    /\ "ctrlc" \in Calls
    /\ Interruptible
    /\ IF services["wm"] # 0
       THEN /\ proc' = Send(proc, services["wm"], Kernel)
            /\ UNCHANGED ctrlc
       ELSE ctrlc' = TRUE /\ UNCHANGED proc
    /\ UNCHANGED <<current, registry, slice, scan>>

-----------------------------------------------------------------------------
(* The loop of the idle process after an interrupt *)
IdleSchedule ==
    /\ scan = NoScan /\ current = Idle /\ proc[Idle].pc = "user"
    /\ PickNext(proc, Idle) # Idle
    /\ Schedule(proc)
    /\ UNCHANGED <<registry, timer>>

(* The running process goes on inside a system call *)
Resume ==
    LET r == proc[current]
    IN  /\ scan = NoScan
        /\ \/ r.pc = "ret" /\ Finish(proc)
           \/ r.pc = "wait" /\ WaitRound(proc, current, r.arg, "wait")
           \/ r.pc = "ctrlc" /\ WaitRound(proc, current, r.arg, "ctrlc")
           \/ r.pc = "recv" /\ RecvRound(current)
           \/ r.pc = "poll" /\ PollRound(current, r.arg)
           \/ r.pc = "rpc" /\ RpcRound(proc, current, r.arg)
        /\ UNCHANGED <<registry, ctrlc, scan>>

-----------------------------------------------------------------------------
(* kernel.c leaves _start with the idle process running and the shell ready *)
Init ==
    /\ proc = [p \in Pid |-> IF p = Idle THEN NewProc(Idle, FALSE)
                             ELSE IF p = 1 THEN NewProc(Idle, TRUE)
                             ELSE FreeProc]
    /\ current = Idle
    /\ nextPid = 2
    /\ services = [s \in Service |-> 0]
    /\ foreground = 0
    /\ ctrlc = FALSE
    /\ slice = Timeslice
    /\ scan = NoScan

Syscall(p) ==
    \/ SysFork(p) \/ SysExec(p) \/ SysExit(p) \/ SysYield(p) \/ SysSleep(p)
    \/ SysWait(p) \/ SysSigaction(p) \/ SysSigreturn(p) \/ SysAlarm(p)
    \/ SysOther(p) \/ SysKill(p) \/ SysSetForeground(p) \/ SysRegister(p)
    \/ SysUnregister(p) \/ SysIpcSend(p) \/ SysIpcRecv(p) \/ SysIpcPoll(p)
    \/ SysServiceCall(p)

KernelStep == TimerScan \/ TimerReap \/ TimerTail \/ IdleSchedule \/ Resume

Next ==
    \/ \E p \in Pid : Syscall(p)
    \/ TimerIrq
    \/ KeyCtrlC
    \/ KernelStep

Spec == Init /\ [][Next]_vars

(***************************************************************************)
(* Fairness.  The steps of the timer handler and of a resumed system call  *)
(* follow the previous step with interrupts disabled: they are never put   *)
(* off.  The PIT raises its interrupt again and again, and the CPU takes a *)
(* pending one as soon as ring-3 code or the idle loop runs, though not in *)
(* the middle of a system call: strong fairness.  The idle loop calls      *)
(* schedule() each time hlt returns; the interrupts that come first are    *)
(* finitely many each time: strong fairness.  Nothing is assumed about the *)
(* programs.                                                               *)
(***************************************************************************)
Fairness ==
    /\ WF_vars(TimerScan \/ TimerReap \/ TimerTail)
    /\ WF_vars(Resume)
    /\ SF_vars(IdleSchedule)
    /\ SF_vars(TimerIrq)

FairSpec == Spec /\ Fairness

-----------------------------------------------------------------------------
(* Types: what every process descriptor and kernel global may hold. *)
TypeOK ==
    /\ proc \in [Pid -> ProcType]
    /\ current \in Pid
    /\ nextPid \in 1 .. MaxPid + 1
    /\ services \in [Service -> Pid]
    /\ foreground \in Pid
    /\ ctrlc \in BOOLEAN
    /\ slice \in 1 .. Timeslice
    /\ scan \in Pid \cup {NoScan, MaxPid + 1, EndOfScan}

(* The one CPU: only current_process is RUNNING, and a process other than  *)
(* the idle one is RUNNING whenever it is current_process.  schedule(),    *)
(* the direct switches of process_exit() and the unconditional wakeups of  *)
(* mailbox_send() must agree on this.                                      *)
OneRunning ==
    /\ \A p \in Pid : proc[p].state = "RUNNING" => p = current
    /\ current # Idle => proc[current].state = "RUNNING"

(* No wait without an end in sight: a process blocked in process_wait()    *)
(* has a child that matches and has not terminated, so wake_waiting_parent *)
(* will still find its parent.                                             *)
WaiterHasLiveChild ==
    \A p \in Pid \ {Idle} :
        proc[p].state = "BLOCKED" /\ proc[p].pc \in {"wait", "ctrlc"} =>
            \E c \in Children(proc, p, proc[p].waitFor) :
                proc[c].state # "TERMINATED"

(* No lost wakeup: a process blocked in mailbox_recv() has no message in   *)
(* its mailbox and is registered as the waiter of that mailbox.  Only such *)
(* a process is: mailbox_send() makes the waiter READY without a look at   *)
(* its state, which must not happen to a process that is past its call.    *)
NoLostMail ==
    \A p \in Pid :
        /\ proc[p].state = "BLOCKED" /\ proc[p].pc \in {"recv", "rpc"} =>
              proc[p].mbox = << >> /\ proc[p].waiter
        /\ proc[p].waiter => proc[p].pc \in {"recv", "rpc"}

(* The window manager and the daemons the kernel sends requests to are     *)
(* processes that can still run: death by any path unregisters them.       *)
ServicesAlive ==
    \A s \in Service :
        services[s] # 0 =>
            proc[services[s]].state \notin {"FREE", "TERMINATED"}

(* process.h:239-240: a process that has ended stays dead until it is      *)
(* removed from the list, by whatever path it is met again: the scan of    *)
(* the timer, alarms, further signals, Ctrl+C, the wakeups of waits and    *)
(* handlers.  The exception is a process that died as the waiter of its    *)
(* mailbox, which mailbox_send() makes READY (see KilledStaysDead).        *)
Ended(r) == r.state \in {"TERMINATED", "FREE"}
DeadWithoutMail ==
    [][\A p \in Pid :
        proc[p].state = "TERMINATED" /\ ~proc[p].waiter => Ended(proc'[p])]_vars

(* process.h: a STOPPED process waits for SIGCONT: neither its deadline,   *)
(* nor a caught signal, nor a child that ends lets it run, only SYS_KILL   *)
(* with SIGCONT; or mailbox_send(), if it was stopped in mailbox_recv().   *)
(* It can only die, and Ctrl+C may even reap it in the same step.          *)
StoppedUntilCont ==
    [][\A p \in Pid :
        proc[p].state = "STOPPED" /\ ~proc[p].waiter =>
            \/ proc'[p].state = "STOPPED" \/ Ended(proc'[p])
            \/ \E q \in Pid : InUser(q, "kill") /\ KillCont(q, p)]_vars

(* No starvation: a process that is READY or asleep gets the CPU (or is    *)
(* stopped or killed), whatever the others do: the timer wakes sleepers    *)
(* and preempts ring-3 code, and schedule() is round robin.                *)
ReadyRuns ==
    \A p \in Pid \ {Idle} :
        (proc[p].state \in {"READY", "SLEEPING"})
            ~> (proc[p].state \notin {"READY", "SLEEPING"})

(* Every zombie leaves the list, whether or not somebody waits for it. *)
ZombiesGo ==
    \A p \in Pid \ {Idle} :
        (proc[p].state = "TERMINATED") ~> (proc[p].state # "TERMINATED")

(* A signal that is caught in the middle of a system call which comes to an *)
(* end by itself (a sleep that is cut short, a yield) is delivered, if the  *)
(* handler is still installed when the call ends.                           *)
SleeperGetsSignal ==
    \A p \in Pid \ {Idle} :
        (proc[p].pending \in proc[p].handlers /\ proc[p].pc = "ret")
            ~> (proc[p].pending = 0)

-----------------------------------------------------------------------------
(* What comments and documents say of the code *)

(* process.h: SIGKILL and SIGTERM end the process.  A terminated process   *)
(* is removed from the list or stays as it is.                             *)
KilledStaysDead ==
    [][\A p \in Pid : proc[p].state = "TERMINATED" => Ended(proc'[p])]_vars

(* pit.c: process_reap() collects the zombies nobody waits for.  A process *)
(* that blocked in process_wait() is given one of its children.            *)
WaitGetsAChild ==
    [][\A p \in Pid :
        proc[p].pc = "wait" /\ proc'[p].pc = "user" /\ proc'[p].state # "FREE" =>
            \E c \in Children(proc, p, proc[p].arg) :
                proc[c].state = "TERMINATED" /\ proc'[c].state = "FREE"]_vars

(* shell.c: after Ctrl+C on a process that is not the running one control  *)
(* comes back to the handler at once.                                      *)
CtrlCReturns == \A p \in Pid : proc[p].pc # "ctrlc"

=============================================================================
