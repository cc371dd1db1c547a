--------------------------- MODULE ProcessRounds ----------------------------
(***************************************************************************)
(* What the parts of the kernel that switch processes do to a sound table: *)
(* schedule(), the rounds of process_wait(), mailbox_recv() and the sleeps,*)
(* a death, a new process and the return to ring 3.                        *)
(***************************************************************************)
EXTENDS ProcessLemmas

(* The time a leaf may take: SMT first, then Zenon. *)
USE SMTT(20), ZenonT(20)

(* process_deliver_pending_signal() and the return to ring 3 keep the      *)
(* table sane and no state changes.                                        *)
LEMMA ReturnSane ==
    ASSUME NEW pr, NEW n, Sane(pr, n), NEW p \in Pid, p < n, n \in Nat,
           ~pr[p].waiter
    PROVE  /\ Sane(Return(pr, p), n)
           /\ Return(pr, p)[p].pc = "user"
           /\ \A q \in Pid : Return(pr, p)[q].state = pr[q].state
<1> DEFINE new == Return(pr, p)
<1>1. Typed(pr)
  BY Zenon DEF Sane, Proper
<1>2. PICK rec \in ProcType : Returned(pr, p, rec)
  BY <1>1, ReturnIs, Zenon
<1>3. /\ new = [pr EXCEPT ![p] = rec]
      /\ rec.pc = "user" /\ rec.arg = 0
      /\ rec.state = pr[p].state /\ rec.ppid = pr[p].ppid
      /\ rec.mbox = pr[p].mbox /\ rec.waiter = pr[p].waiter
  BY <1>2, Zenon DEF Returned
<1> HIDE DEF new
<1>4. Typed(new) /\ new[p] = rec /\ \A q \in Pid \ {p} : new[q] = pr[q]
  BY <1>1, <1>3 DEF Typed
<1>5. Waits(new)
  <2>1. Waits(pr)
    BY Zenon DEF Sane
  <2>2. \A q \in Pid : new[q].pc \in {"wait", "ctrlc"} => new[q] = pr[q]
    BY <1>3, <1>4, Zenon
  <2>3. \A q \in Pid : new[q].state = pr[q].state /\ new[q].ppid = pr[q].ppid
    BY <1>3, <1>4, Zenon
  <2> QED
    BY <2>1, <2>2, <2>3, WaitsKept, Zenon
<1>6. Mail(new)
  <2>1. Mail(pr)
    BY Zenon DEF Sane, Proper
  <2>2. new[p].mbox = pr[p].mbox /\ new[p].pc = "user" /\ ~new[p].waiter
    BY <1>3, <1>4, Zenon
  <2> QED
    BY <1>4, <2>1, <2>2, Zenon DEF Mail
<1>7. Targets(new) /\ Fresh(new, n)
  BY <1>3, <1>4, ZenonT(60) DEF Sane, Proper, Targets, Fresh
<1>8. \A q \in Pid : new[q].state = pr[q].state
  BY <1>3, <1>4, Zenon
<1> QED
  BY <1>3, <1>4, <1>5, <1>6, <1>7, <1>8, Zenon DEF Sane, Proper, new

(* switch_to_process() to a process schedule() may choose leaves exactly   *)
(* that one RUNNING, kills nobody and keeps the table sane.                *)
LEMMA SwitchToSane ==
    ASSUME NEW pr, NEW n \in Nat \ {0}, Sane(pr, n), NEW c \in Pid, NEW d \in Pid,
           Single(pr, c),
           d = Idle \/ pr[d].state = "READY" \/ (d = c /\ pr[c].state = "RUNNING"),
           c = Idle \/ pr[c].state # "READY"
    PROVE  /\ Sane(SwitchTo(pr, c, d), n)
           /\ Single(SwitchTo(pr, c, d), d)
           /\ d # Idle => SwitchTo(pr, c, d)[d].state = "RUNNING"
           /\ \A p \in Pid : /\ SwitchTo(pr, c, d)[p].pc = pr[p].pc
                             /\ pr[p].state \notin {"FREE", "TERMINATED"} =>
                                  SwitchTo(pr, c, d)[p].state \notin {"FREE", "TERMINATED"}
<1> DEFINE new == SwitchTo(pr, c, d)
           st == IF pr[c].state = "RUNNING" THEN "READY" ELSE pr[c].state
           r1 == [pr[c] EXCEPT !.state = st]
           r2 == [pr[d] EXCEPT !.state = "RUNNING"]
<1>0. /\ c # d => new = [pr EXCEPT ![c] = r1, ![d] = r2]
      /\ c = d => new = pr
  BY Zenon DEF SwitchTo
<1> HIDE DEF new
<1>1. /\ Typed(new)
      /\ c # d => new[c] = r1 /\ new[d] = r2
      /\ \A p \in Pid : c = d \/ p \notin {c, d} => new[p] = pr[p]
      /\ r1.state = st /\ r2.state = "RUNNING"
      /\ r1.ppid = pr[c].ppid /\ r1.waitFor = pr[c].waitFor /\ r1.pc = pr[c].pc
      /\ r1.arg = pr[c].arg /\ r1.waiter = pr[c].waiter /\ r1.mbox = pr[c].mbox
      /\ r2.ppid = pr[d].ppid /\ r2.waitFor = pr[d].waitFor /\ r2.pc = pr[d].pc
      /\ r2.arg = pr[d].arg /\ r2.waiter = pr[d].waiter /\ r2.mbox = pr[d].mbox
  <2>1. pr \in [Pid -> ProcType] /\ pr[c] \in ProcType /\ pr[d] \in ProcType
    BY Zenon DEF Sane, Proper, Typed
  <2>2. st \in State /\ "RUNNING" \in State
    BY <2>1, Zenon DEF State, ProcType
  <2> HIDE DEF st
  <2>3. /\ r1 \in ProcType /\ r1.state = st
        /\ r1.ppid = pr[c].ppid /\ r1.waitFor = pr[c].waitFor /\ r1.pc = pr[c].pc
        /\ r1.arg = pr[c].arg /\ r1.waiter = pr[c].waiter /\ r1.mbox = pr[c].mbox
    BY <2>1, <2>2, SetState
  <2>4. /\ r2 \in ProcType /\ r2.state = "RUNNING"
        /\ r2.ppid = pr[d].ppid /\ r2.waitFor = pr[d].waitFor /\ r2.pc = pr[d].pc
        /\ r2.arg = pr[d].arg /\ r2.waiter = pr[d].waiter /\ r2.mbox = pr[d].mbox
    BY <2>1, <2>2, SetState
  <2> HIDE DEF r1, r2
  <2>5. CASE c # d
    BY <1>0, <2>1, <2>3, <2>4, <2>5, Zenon DEF Typed
  <2>6. CASE c = d
    BY <1>0, <2>1, <2>3, <2>4, <2>6, Zenon DEF Typed
  <2> QED
    BY <2>5, <2>6, Zenon
<1> HIDE DEF r1, r2
<1>2. \A p \in Pid :
        /\ new[p].ppid = pr[p].ppid /\ new[p].waitFor = pr[p].waitFor
        /\ new[p].pc = pr[p].pc /\ new[p].arg = pr[p].arg
        /\ new[p].waiter = pr[p].waiter /\ new[p].mbox = pr[p].mbox
  BY <1>1, ZenonT(60)
<1>3. \A p \in Pid :
         new[p].state = IF c = d THEN pr[p].state
                        ELSE IF p = d THEN "RUNNING"
                        ELSE IF p = c /\ pr[c].state = "RUNNING" THEN "READY"
                        ELSE pr[p].state
  BY <1>1, ZenonT(60)
<1>4. Waits(new)
  <2>1. Waits(pr)
    BY Zenon DEF Sane
  <2>2. \A p \in Pid : new[p].state = "BLOCKED" => pr[p].state = "BLOCKED"
    BY <1>3, Zenon
  <2>3. \A p \in Pid : pr[p].state \notin {"FREE", "TERMINATED"} =>
                          new[p].state \notin {"FREE", "TERMINATED"}
    BY <1>3, Zenon
  <2> QED
    BY <1>2, <2>1, <2>2, <2>3, WaitsKept, ZenonT(60)
<1>5. Mail(new)
  BY <1>2, <1>3 DEF Sane, Proper, Mail
<1>6. Targets(new) /\ Fresh(new, n)
  BY <1>2, <1>3 DEF Sane, Proper, Targets, Fresh, Idle, Pid
<1>7. Single(new, d) /\ (d # Idle => new[d].state = "RUNNING")
  BY <1>3, Zenon DEF Single
<1> QED
  BY <1>1, <1>2, <1>3, <1>4, <1>5, <1>6, <1>7, Zenon DEF Sane, Proper, new

(* schedule() called by a process that may leave keeps the table sound and *)
(* hands the CPU to a process that is RUNNING.                             *)
LEMMA ScheduleOK ==
    ASSUME Ordered, NEW pr, NEW n, NEW sv, Sound(pr, current, n, sv), Leaves(pr, current),
           Schedule(pr)
    PROVE  Sound(proc', current', n, sv) /\ Runs(proc', current')
<1> DEFINE d == PickNext(pr, current)
<1>1. /\ d \in Pid
      /\ d = Idle \/ pr[d].state = "READY" \/ (d = current /\ pr[current].state = "RUNNING")
  BY PickNextIn, Zenon DEF Sound, Sane, Proper
<1>2. current' = d /\ proc' = SwitchTo(pr, current, d)
  BY Zenon DEF Schedule, Switch
<1> HIDE DEF d
<1>3. /\ Sane(proc', n) /\ Single(proc', d) /\ Runs(proc', d)
      /\ \A p \in Pid : pr[p].state \notin {"FREE", "TERMINATED"} =>
                          proc'[p].state \notin {"FREE", "TERMINATED"}
  BY <1>1, <1>2, SwitchToSane DEF Sound, Leaves, Runs
<1>4. Alive(proc', sv)
  BY <1>3, Zenon DEF Sound, Alive
<1> QED
  BY <1>1, <1>2, <1>3, <1>4, Zenon DEF Sound

(* The end of a system call keeps the table sound. *)
LEMMA FinishOK ==
    ASSUME NEW pr, NEW n, NEW sv, Sound(pr, current, n, sv), Runs(pr, current),
           ~pr[current].waiter, Finish(pr)
    PROVE  /\ Sound(proc', current', n, sv) /\ Runs(proc', current')
           /\ current' = current /\ slice' = slice
<1>1. proc' = Return(pr, current) /\ current' = current /\ slice' = slice
  BY Zenon DEF Finish
<1>2. current < n
  BY CurrentBelow, Zenon
<1>3. Sane(proc', n) /\ \A q \in Pid : proc'[q].state = pr[q].state
  BY <1>1, <1>2, ReturnSane, Zenon DEF Sound
<1> QED
  BY <1>1, <1>3, Zenon DEF Sound, Runs, Single, Alive

(* The end of the timer handler keeps the table sound and the time slice   *)
(* in its range.                                                           *)
LEMMA PreemptOK ==
    ASSUME Ordered, NEW pr, NEW n, NEW sv, Sound(pr, current, n, sv), Runs(pr, current),
           ~pr[current].waiter, slice \in 1 .. Timeslice, Preempt(pr)
    PROVE  /\ Sound(proc', current', n, sv) /\ Runs(proc', current')
           /\ slice' \in 1 .. Timeslice
<1> DEFINE back == [pr EXCEPT ![current] = [pr[current] EXCEPT !.pc = "user", !.arg = 0]]
<1>1. /\ Typed(back)
      /\ \A q \in Pid \ {current} : back[q] = pr[q]
      /\ back[current].pc = "user" /\ back[current].state = pr[current].state
      /\ back[current].ppid = pr[current].ppid /\ ~back[current].waiter
  <2>1. pr[current] \in ProcType /\ "user" \in Place /\ 0 \in Pid
    BY ProcessAssumption DEF Sound, Sane, Proper, Typed, Place, Pid
  <2> QED
    BY <2>1, Zenon DEF Sound, Sane, Proper, Typed, ProcType
<1>2. Sound(back, current, n, sv) /\ Runs(back, current)
  <2> HIDE DEF back
  <2>1. Mail(back) /\ Targets(back) /\ Fresh(back, n)
    BY <1>1 DEF Sound, Sane, Proper, Mail, Targets, Fresh
  <2>2. Waits(back)
    <3>1. Waits(pr)
      BY Zenon DEF Sound, Sane
    <3> QED
      BY <1>1, <3>1, WaitsKept, Zenon
  <2>3. Single(back, current) /\ Alive(back, sv) /\ Runs(back, current)
    BY <1>1, Zenon DEF Sound, Single, Alive, Runs
  <2> QED
    BY <1>1, <2>1, <2>2, <2>3, Zenon DEF Sound, Sane, Proper
<1>3. CASE slice > 1 \/ current = Idle
  <2>1. proc' = back /\ current' = current /\ slice' \in 1 .. Timeslice
    BY <1>3, ProcessAssumption DEF Preempt
  <2> HIDE DEF back
  <2> QED
    BY <1>2, <2>1, Zenon
<1>4. CASE slice = 1 /\ current # Idle
  <2>1. Schedule(back) /\ slice' = Timeslice
    BY <1>4 DEF Preempt
  <2> HIDE DEF back
  <2> QED
    BY <1>2, <2>1, ScheduleOK, ProcessAssumption DEF Leaves, Runs
<1> QED
  BY <1>3, <1>4

(* process_exit(), and the death of the running process by a signal, hand  *)
(* the CPU to a waiting parent or through schedule().                      *)
LEMMA LeaveDeadOK ==
    ASSUME Ordered, NEW pr, NEW r \in Outcome, Sound(pr, current, nextPid, services),
           pr[current].state # "FREE", r # "none" => nextPid \in Pid,
           LeaveDead(pr, r), Unregister(current, r)
    PROVE  Sound(proc', current', nextPid', services') /\ Runs(proc', current')
<1> DEFINE buried == Bury(pr, current, r)
           marked == Mark(pr, current, r)
           par == pr[current].ppid
<1>1. /\ Sound(buried, current, nextPid', services')
      /\ buried[current].state = "TERMINATED"
  BY BurySound DEF Sound
<1>2. CASE WaitsFor(marked, par, current)
  <2>1. proc' = SwitchTo(buried, current, par) /\ current' = par
    BY <1>2, Zenon DEF LeaveDead, Switch
  <2>2. par \in Pid /\ par # Idle /\ par # current /\ buried[par].state = "READY"
    BY <1>2, BurySound DEF Sound
  <2> HIDE DEF buried, par, marked
  <2>3. /\ Sane(proc', nextPid') /\ Single(proc', par)
        /\ proc'[par].state = "RUNNING"
        /\ \A p \in Pid : buried[p].state \notin {"FREE", "TERMINATED"} =>
                            proc'[p].state \notin {"FREE", "TERMINATED"}
    BY <1>1, <2>1, <2>2, SwitchToSane DEF Sound
  <2>4. Alive(proc', services')
    BY <1>1, <2>3, Zenon DEF Sound, Alive
  <2> QED
    BY <1>1, <2>1, <2>2, <2>3, <2>4, Zenon DEF Sound, Runs
<1>3. CASE ~WaitsFor(marked, par, current)
  <2>1. Schedule(buried)
    BY <1>3, Zenon DEF LeaveDead
  <2> HIDE DEF buried, par, marked
  <2> QED
    BY <1>1, <2>1, ScheduleOK, Zenon DEF Leaves
<1> QED
  BY <1>2, <1>3, Zenon

(* Removing a zombie from the list keeps the table sound. *)
LEMMA FreeSound ==
    ASSUME NEW pr, NEW c, NEW n, NEW sv, Sound(pr, c, n, sv),
           NEW z \in Pid, pr[z].state = "TERMINATED"
    PROVE  Sound([pr EXCEPT ![z] = FreeProc], c, n, sv)
<1> DEFINE new == [pr EXCEPT ![z] = FreeProc]
<1>1. /\ FreeProc \in ProcType /\ FreeProc.state = "FREE" /\ ~FreeProc.waiter
      /\ FreeProc.pc = "user"
  BY NewProcTyped, Zenon DEF FreeProc, NewProc
<1>2. Typed(new) /\ new[z] = FreeProc /\ \A p \in Pid \ {z} : new[p] = pr[p]
  BY <1>1, Zenon DEF Sound, Sane, Proper, Typed
<1> HIDE DEF new
<1>3. Mail(new)
  BY <1>1, <1>2, ZenonT(60) DEF Sound, Sane, Proper, Mail
<1>7. Targets(new)
  BY <1>1, <1>2, Zenon DEF Sound, Sane, Proper, Targets
<1>4. Fresh(new, n) /\ Single(new, c)
  BY <1>1, <1>2, Zenon DEF Sound, Sane, Proper, Fresh, Single
<1>5. Waits(new)
  <2>1. Waits(pr)
    BY Zenon DEF Sound, Sane
  <2>2. \A p \in Pid : new[p].state = "BLOCKED" => new[p] = pr[p]
    BY <1>1, <1>2, Zenon
  <2>3. \A p \in Pid : pr[p].state \notin {"FREE", "TERMINATED"} => new[p] = pr[p]
    BY <1>2, Zenon
  <2> QED
    BY <2>1, <2>2, <2>3, WaitsKept, Zenon
<1>6. Alive(new, sv)
  BY <1>1, <1>2, Zenon DEF Sound, Alive
<1> QED
  BY <1>2, <1>3, <1>4, <1>5, <1>6, <1>7, Zenon DEF Sound, Sane, Proper, new

(* One round of process_wait() keeps the table sound, whichever way it     *)
(* ends.                                                                   *)
LEMMA WaitRoundOK ==
    ASSUME Ordered, NEW pr, NEW n, NEW sv, Sound(pr, current, n, sv), Runs(pr, current),
           ~pr[current].waiter, slice \in 1 .. Timeslice,
           NEW target \in Pid \cup {Any}, NEW place \in {"wait", "ctrlc"},
           WaitRound(pr, current, target, place)
    PROVE  /\ Sound(proc', current', n, sv) /\ Runs(proc', current')
           /\ slice' \in 1 .. Timeslice
<1> DEFINE children == Children(pr, current, target)
           zombies  == {q \in children : pr[q].state = "TERMINATED"}
           z == Least(zombies)
           rec == [pr[current] EXCEPT !.waitFor = 0]
<1>1. /\ pr[current] \in ProcType /\ 0 \in Pid /\ current < n /\ current \in Pid
      /\ Pid \subseteq Nat
  BY CurrentBelow, ProcessAssumption DEF Sound, Sane, Proper, Typed, Pid
<1>2. /\ rec \in ProcType /\ rec.state = pr[current].state /\ rec.ppid = pr[current].ppid
      /\ rec.pc = pr[current].pc /\ rec.arg = pr[current].arg /\ ~rec.waiter
  BY <1>1, Zenon DEF ProcType
<1>3. ASSUME NEW tab, Sound(tab, current, n, sv), tab[current] = pr[current]
      PROVE  /\ Sound([tab EXCEPT ![current] = rec], current, n, sv)
             /\ Runs([tab EXCEPT ![current] = rec], current)
             /\ ~[tab EXCEPT ![current] = rec][current].waiter
  <2> HIDE DEF rec
  <2>1. [tab EXCEPT ![current] = rec][current] = rec
    BY <1>1, <1>3, Zenon DEF Sound, Sane, Proper, Typed
  <2>2. /\ pr[current].state = "BLOCKED" /\ pr[current].pc \in {"recv", "rpc"} =>
             pr[current].waiter
        /\ pr[current].pc \in {"wait", "ctrlc"} => pr[current].arg \in Pid \cup {Any}
    BY <1>1, Zenon DEF Sound, Sane, Proper, Mail, Targets
  <2>3. pr[current].state = "BLOCKED" => current = Idle
    BY Zenon DEF Runs
  <2>4. Sound([tab EXCEPT ![current] = rec], current, n, sv)
    BY <1>1, <1>2, <1>3, <2>2, <2>3, UpdateSound, Zenon
  <2> QED
    BY <1>2, <2>1, <2>4, Zenon DEF Runs
<1>4. ASSUME NEW tab, Sound(tab, current, n, sv), Runs(tab, current),
             ~tab[current].waiter, AfterWait(tab, place)
      PROVE  /\ Sound(proc', current', n, sv) /\ Runs(proc', current')
             /\ slice' \in 1 .. Timeslice
  BY <1>4, FinishOK, PreemptOK, Zenon DEF AfterWait
<1>5. CASE zombies # {}
  <2>1. z \in zombies
    BY <1>1, <1>5, LeastIn, Zenon DEF Children, Live
  <2>2. z \in Pid /\ pr[z].state = "TERMINATED"
    BY <2>1, Zenon DEF Children, Live
  <2>3. AfterWait([pr EXCEPT ![z] = FreeProc, ![current] = rec], place)
    BY <1>5, Zenon DEF WaitRound
  <2> DEFINE tab == [pr EXCEPT ![z] = FreeProc]
  <2>4. Sound(tab, current, n, sv)
    BY <2>2, FreeSound, Zenon
  <2>5. CASE z = current
    <3>1. [pr EXCEPT ![z] = FreeProc, ![current] = rec] = [pr EXCEPT ![current] = rec]
      BY <2>5, Zenon DEF Sound, Sane, Proper, Typed
    <3> HIDE DEF rec, z
    <3> QED
      BY <1>3, <1>4, <2>3, <3>1, Zenon
  <2>6. CASE z # current
    <3>1. tab[current] = pr[current]
      BY <1>1, <2>6, Zenon DEF Sound, Sane, Proper, Typed
    <3>2. AfterWait([tab EXCEPT ![current] = rec], place)
      BY <2>3, Zenon
    <3> HIDE DEF rec, z, tab
    <3> QED
      BY <1>3, <1>4, <2>4, <3>1, <3>2, Zenon
  <2> QED
    BY <2>5, <2>6, Zenon
<1>6. CASE children = {}
  <2>1. AfterWait([pr EXCEPT ![current] = rec], place)
    BY <1>6, Zenon DEF WaitRound
  <2> HIDE DEF rec
  <2> QED
    BY <1>3, <1>4, <2>1, Zenon
<1>7. CASE children # {} /\ zombies = {}
  <2> DEFINE wait == [pr[current] EXCEPT !.waitFor = target, !.state = "BLOCKED",
                                         !.pc = place, !.arg = target]
  <2>1. Schedule([pr EXCEPT ![current] = wait]) /\ slice' = slice
    BY <1>7, Zenon DEF WaitRound
  <2>2. /\ wait \in ProcType /\ wait.state = "BLOCKED" /\ wait.pc = place
        /\ wait.arg = target /\ wait.waitFor = target
        /\ ~wait.waiter /\ wait.ppid = pr[current].ppid
    <3>1. "BLOCKED" \in State /\ place \in Place
      BY Zenon DEF State, Place
    <3> QED
      BY <1>1, <3>1, ZenonT(60) DEF ProcType
  <2>3. PICK ch \in Pid : /\ pr[ch].ppid = current /\ target \in {ch, Any}
                          /\ pr[ch].state \notin {"FREE", "TERMINATED"}
    BY <1>7, Zenon DEF Children, Live
  <2> HIDE DEF wait
  <2>4. Sound([pr EXCEPT ![current] = wait], current, n, sv)
    BY <1>1, <2>2, <2>3, UpdateSound, ZenonT(60)
  <2>5. [pr EXCEPT ![current] = wait][current] = wait
    BY <1>1, Zenon DEF Sound, Sane, Proper, Typed
  <2> QED
    BY <2>1, <2>2, <2>4, <2>5, ScheduleOK, Zenon DEF Leaves
<1> QED
  BY <1>5, <1>6, <1>7, Zenon

(* process_sleep() keeps the table sound. *)
LEMMA SleepOK ==
    ASSUME Ordered, NEW n, NEW sv, Sound(proc, current, n, sv), Runs(proc, current),
           ~proc[current].waiter, NEW ticks \in 0 .. MaxTicks,
           NEW place \in {"ret", "poll"}, NEW rest \in Pid \cup 0 .. MaxTicks,
           Sleep(proc, current, ticks, place, rest)
    PROVE  Sound(proc', current', n, sv) /\ Runs(proc', current')
<1> DEFINE rec == [proc[current] EXCEPT !.wakeup = ticks, !.state = "SLEEPING",
                                        !.pc = place, !.arg = rest]
<1>1. proc[current] \in ProcType /\ current \in Pid /\ current < n
  BY CurrentBelow, Zenon DEF Sound, Sane, Proper, Typed
<1>2. /\ rec \in ProcType /\ rec.state = "SLEEPING" /\ rec.pc = place
      /\ ~rec.waiter /\ rec.ppid = proc[current].ppid
  <2>1. "SLEEPING" \in State /\ place \in Place
    BY Zenon DEF State, Place
  <2> QED
    BY <1>1, <2>1, Zenon DEF ProcType
<1>3. Schedule([proc EXCEPT ![current] = rec])
  BY Zenon DEF Sleep
<1> HIDE DEF rec
<1>4. Sound([proc EXCEPT ![current] = rec], current, n, sv)
  BY <1>1, <1>2, UpdateSound, Zenon
<1>5. [proc EXCEPT ![current] = rec][current] = rec
  BY <1>1, Zenon DEF Sound, Sane, Proper, Typed
<1> QED
  BY <1>2, <1>3, <1>4, <1>5, ScheduleOK, Zenon DEF Leaves

(* Blocking in mailbox_recv() on an empty mailbox keeps the table sound. *)
LEMMA BlockInRecvOK ==
    ASSUME Ordered, NEW pr, NEW n, NEW sv, Sound(pr, current, n, sv), current < n,
           pr[current].mbox = << >>,
           NEW place \in {"recv", "rpc"}, NEW arg \in Pid \cup {Any} \cup 0 .. MaxTicks,
           BlockInRecv(pr, current, place, arg)
    PROVE  Sound(proc', current', n, sv) /\ Runs(proc', current')
<1> DEFINE rec == [pr[current] EXCEPT !.waiter = TRUE, !.state = "BLOCKED",
                                      !.pc = place, !.arg = arg]
<1>1. pr[current] \in ProcType /\ current \in Pid
  BY Zenon DEF Sound, Sane, Proper, Typed
<1>2. /\ rec \in ProcType /\ rec.state = "BLOCKED" /\ rec.pc = place
      /\ rec.waiter /\ rec.ppid = pr[current].ppid /\ rec.mbox = << >>
  <2>1. "BLOCKED" \in State /\ place \in Place
    BY Zenon DEF State, Place
  <2> QED
    BY <1>1, <2>1, Zenon DEF ProcType
<1>3. Schedule([pr EXCEPT ![current] = rec])
  BY Zenon DEF BlockInRecv
<1> HIDE DEF rec
<1>4. Sound([pr EXCEPT ![current] = rec], current, n, sv)
  BY <1>1, <1>2, UpdateSound, Zenon
<1>5. [pr EXCEPT ![current] = rec][current] = rec
  BY <1>1, Zenon DEF Sound, Sane, Proper, Typed
<1> QED
  BY <1>2, <1>3, <1>4, <1>5, ScheduleOK, Zenon DEF Leaves

(* Taking messages out of the mailbox of the running process keeps the     *)
(* table sound.                                                            *)
LEMMA TakeMail ==
    ASSUME NEW pr, NEW n, NEW sv, Sound(pr, current, n, sv), Runs(pr, current),
           NEW box \in Seq(Pid), pr[current].waiter => box = << >>
    PROVE  LET tab == [pr EXCEPT ![current].mbox = box]
           IN  /\ Sound(tab, current, n, sv) /\ Runs(tab, current)
               /\ tab[current].waiter => pr[current].waiter
               /\ tab[current].mbox = box
<1> DEFINE rec == [pr[current] EXCEPT !.mbox = box]
           tab == [pr EXCEPT ![current].mbox = box]
<1>1. pr[current] \in ProcType /\ current \in Pid /\ current < n
  BY CurrentBelow, Zenon DEF Sound, Sane, Proper, Typed
<1>2. /\ rec \in ProcType /\ rec.state = pr[current].state /\ rec.pc = pr[current].pc
      /\ rec.waiter = pr[current].waiter
      /\ rec.ppid = pr[current].ppid /\ rec.mbox = box
      /\ rec.arg = pr[current].arg /\ rec.waitFor = pr[current].waitFor
  BY <1>1, Zenon DEF ProcType
<1>3. tab = [pr EXCEPT ![current] = rec]
  BY <1>1, Zenon DEF Sound, Sane, Proper, Typed, ProcType
<1>4. [pr EXCEPT ![current] = rec][current] = rec
  BY <1>1, Zenon DEF Sound, Sane, Proper, Typed
<1>5. /\ pr[current].state = "BLOCKED" /\ pr[current].pc \in {"recv", "rpc"} =>
           pr[current].waiter
      /\ pr[current].waiter => pr[current].pc \in {"recv", "rpc"}
      /\ pr[current].pc \in {"wait", "ctrlc"} => pr[current].arg \in Pid \cup {Any}
      /\ pr[current].state = "BLOCKED" => current = Idle
  BY <1>1, Zenon DEF Sound, Sane, Proper, Mail, Targets, Runs
<1> HIDE DEF rec
<1>6. Sound([pr EXCEPT ![current] = rec], current, n, sv)
  BY <1>1, <1>2, <1>5, UpdateSound, Zenon
<1> QED
  BY <1>2, <1>3, <1>4, <1>6, Zenon DEF Runs

(* mailbox_recv() that finds a message keeps the table sound. *)
LEMMA ReadMail ==
    ASSUME NEW pr, NEW n, NEW sv, Sound(pr, current, n, sv), Runs(pr, current),
           NEW box \in Seq(Pid), pr[current].mbox # << >>,
           Finish([pr EXCEPT ![current].mbox = box])
    PROVE  /\ Sound(proc', current', n, sv) /\ Runs(proc', current')
           /\ slice' = slice
<1>1. ~pr[current].waiter
  BY Zenon DEF Sound, Sane, Proper, Mail
<1> DEFINE tab == [pr EXCEPT ![current].mbox = box]
<1>2. Sound(tab, current, n, sv) /\ Runs(tab, current) /\ ~tab[current].waiter
  BY <1>1, TakeMail, Zenon
<1>3. Finish(tab)
  BY Zenon
<1> HIDE DEF tab
<1> QED
  BY <1>2, <1>3, FinishOK, Zenon

(* One round of mailbox_recv() without a timeout keeps the table sound. *)
LEMMA RecvRoundOK ==
    ASSUME Ordered, NEW n, NEW sv, Sound(proc, current, n, sv), Runs(proc, current),
           RecvRound(current)
    PROVE  /\ Sound(proc', current', n, sv) /\ Runs(proc', current')
           /\ slice' = slice
<1>1. proc[current].mbox \in Seq(Pid) /\ current < n /\ 0 \in Pid
  <2>1. proc[current].mbox \in Seq(Pid) /\ current < n
    BY CurrentBelow, Zenon DEF Sound, Sane, Proper, Typed, ProcType
  <2> QED
    BY <2>1, ProcessAssumption DEF Pid
<1>2. CASE proc[current].mbox # << >>
  <2>1. Tail(proc[current].mbox) \in Seq(Pid)
    BY <1>1, <1>2
  <2>2. Finish([proc EXCEPT ![current].mbox = Tail(proc[current].mbox)])
    BY <1>2, Zenon DEF RecvRound
  <2> QED
    BY <1>2, <2>1, <2>2, ReadMail, Zenon
<1>3. CASE proc[current].mbox = << >>
  <2>1. BlockInRecv(proc, current, "recv", 0) /\ slice' = slice
    BY <1>3, Zenon DEF RecvRound
  <2> QED
    BY <1>1, <1>3, <2>1, BlockInRecvOK, Zenon
<1> QED
  BY <1>2, <1>3, Zenon

(* One round of mailbox_recv() with a timeout keeps the table sound. *)
LEMMA PollRoundOK ==
    ASSUME Ordered, NEW n, NEW sv, Sound(proc, current, n, sv), Runs(proc, current),
           proc[current].pc \notin {"recv", "rpc"},
           NEW polls \in Pid \cup {Any} \cup 0 .. MaxTicks, PollRound(current, polls)
    PROVE  /\ Sound(proc', current', n, sv) /\ Runs(proc', current')
           /\ slice' = slice
<1>1. proc[current].mbox \in Seq(Pid) /\ ~proc[current].waiter
  BY Zenon DEF Sound, Sane, Proper, Typed, ProcType, Mail
<1>2. CASE proc[current].mbox # << >>
  <2>1. Tail(proc[current].mbox) \in Seq(Pid)
    BY <1>1, <1>2
  <2>2. Finish([proc EXCEPT ![current].mbox = Tail(proc[current].mbox)])
    BY <1>2, Zenon DEF PollRound
  <2> QED
    BY <1>2, <2>1, <2>2, ReadMail, Zenon
<1>3. CASE proc[current].mbox = << >> /\ polls = 0
  <2>1. Finish(proc)
    BY <1>3 DEF PollRound
  <2> QED
    BY <1>1, <2>1, FinishOK, Zenon
<1>4. CASE proc[current].mbox = << >> /\ polls > 0
  <2>1. Sleep(proc, current, 1, "poll", polls - 1) /\ slice' = slice
    BY <1>4 DEF PollRound
  <2>2. 1 \in 0 .. MaxTicks /\ polls - 1 \in Pid \cup 0 .. MaxTicks
    BY <1>4, ProcessAssumption DEF Pid, Any
  <2> QED
    BY <1>1, <2>1, <2>2, SleepOK, Zenon
<1> QED
  BY <1>2, <1>3, <1>4, Zenon DEF PollRound

(* One round of the loop of service_call() keeps the table sound. *)
LEMMA RpcRoundOK ==
    ASSUME Ordered, NEW pr, NEW n, NEW sv, Sound(pr, current, n, sv), Runs(pr, current),
           NEW s \in Pid \cup {Any} \cup 0 .. MaxTicks, RpcRound(pr, current, s)
    PROVE  /\ Sound(proc', current', n, sv) /\ Runs(proc', current')
           /\ slice' = slice
<1> DEFINE box == pr[current].mbox
           answers == Answers(box, s)
<1>1. box \in Seq(Pid) /\ current < n
  BY CurrentBelow, Zenon DEF Sound, Sane, Proper, Typed, ProcType
<1>2. CASE answers # {}
  <2>1. Least(answers) \in 1 .. Len(box)
    <3>1. answers \in SUBSET Nat /\ answers \subseteq 1 .. Len(box)
      BY <1>1 DEF Answers
    <3>2. Least(answers) \in answers
      BY <1>2, <3>1, LeastIn, Zenon
    <3> QED
      BY <3>1, <3>2, Zenon
  <2>2. SubSeq(box, Least(answers) + 1, Len(box)) \in Seq(Pid) /\ box # << >>
    BY <1>1, <2>1
  <2>3. Finish([pr EXCEPT ![current].mbox =
                    SubSeq(box, Least(answers) + 1, Len(box))])
    BY <1>2, Zenon DEF RpcRound
  <2> QED
    BY <2>2, <2>3, ReadMail, Zenon
<1>3. CASE answers = {}
  <2> DEFINE tab == [pr EXCEPT ![current].mbox = << >>]
  <2>1. BlockInRecv(tab, current, "rpc", s) /\ slice' = slice
    BY <1>3, Zenon DEF RpcRound
  <2>2. << >> \in Seq(Pid)
    OBVIOUS
  <2>3. Sound(tab, current, n, sv) /\ tab[current].mbox = << >>
    BY <2>2, TakeMail, Zenon
  <2> HIDE DEF tab
  <2> QED
    BY <1>1, <2>1, <2>3, BlockInRecvOK, Zenon
<1> QED
  BY <1>2, <1>3, Zenon

(* The end of a system call, for the running process. *)
LEMMA ReturnOK ==
    ASSUME NEW pr, NEW n, NEW sv, Sound(pr, current, n, sv), Runs(pr, current),
           ~pr[current].waiter
    PROVE  /\ Sound(Return(pr, current), current, n, sv)
           /\ Runs(Return(pr, current), current)
<1>1. current < n
  BY CurrentBelow, Zenon
<1>2. /\ Sane(Return(pr, current), n)
      /\ \A q \in Pid : Return(pr, current)[q].state = pr[q].state
  BY <1>1, ReturnSane, Zenon DEF Sound
<1> QED
  BY <1>2, Zenon DEF Sound, Runs, Single, Alive

(* Changing handlers, pending signal or alarm of the running process keeps *)
(* the table sound.                                                        *)
LEMMA TouchSound ==
    ASSUME NEW pr, NEW n, NEW sv, Sound(pr, current, n, sv), Runs(pr, current),
           ~pr[current].waiter, NEW rec \in ProcType,
           rec.state = pr[current].state, rec.ppid = pr[current].ppid,
           rec.pc = pr[current].pc, rec.arg = pr[current].arg,
           ~rec.waiter
    PROVE  /\ Sound([pr EXCEPT ![current] = rec], current, n, sv)
           /\ Runs([pr EXCEPT ![current] = rec], current)
           /\ [pr EXCEPT ![current] = rec][current] = rec
<1>1. current \in Pid /\ current < n
  BY CurrentBelow, Zenon DEF Sound
<1>2. /\ pr[current].state = "BLOCKED" /\ pr[current].pc \in {"recv", "rpc"} =>
           pr[current].waiter
      /\ pr[current].pc \in {"wait", "ctrlc"} => pr[current].arg \in Pid \cup {Any}
      /\ pr[current].state = "BLOCKED" => current = Idle
  BY <1>1, Zenon DEF Sound, Sane, Proper, Mail, Targets, Runs
<1>3. Sound([pr EXCEPT ![current] = rec], current, n, sv)
  BY <1>1, <1>2, UpdateSound, Zenon
<1>4. [pr EXCEPT ![current] = rec][current] = rec
  BY <1>1, Zenon DEF Sound, Sane, Proper, Typed
<1> QED
  BY <1>3, <1>4, Zenon DEF Runs

(* process_create() and process_fork() keep the table sound. *)
LEMMA CreateSound ==
    ASSUME NEW pr, NEW c, NEW n, NEW sv, Sound(pr, c, n, sv), n \in Pid,
           NEW rec \in ProcType, rec.state \in {"READY", "TERMINATED"},
           rec.pc = "user", ~rec.waiter
    PROVE  Sound([pr EXCEPT ![n] = rec], c, n + 1, sv)
<1> DEFINE new == [pr EXCEPT ![n] = rec]
<1>1. Typed(new) /\ new[n] = rec /\ \A p \in Pid \ {n} : new[p] = pr[p]
  BY Zenon DEF Sound, Sane, Proper, Typed
<1>2. pr[n].state = "FREE" /\ Pid \subseteq Nat
  <2>1. Pid \subseteq Nat
    BY ProcessAssumption DEF Pid
  <2>2. n >= n
    BY <2>1
  <2> QED
    BY <2>1, <2>2, Zenon DEF Sound, Sane, Proper, Fresh
<1> HIDE DEF new
<1>3. Mail(new)
  BY <1>1, Zenon DEF Sound, Sane, Proper, Mail
<1>8. Targets(new)
  BY <1>1, Zenon DEF Sound, Sane, Proper, Targets
<1>4. Fresh(new, n + 1)
  <2> SUFFICES ASSUME NEW p \in Pid, p >= n + 1 PROVE new[p].state = "FREE"
    BY Zenon DEF Fresh
  <2>1. p # n /\ p >= n
    BY <1>2
  <2> QED
    BY <2>1, <1>1, Zenon DEF Sound, Sane, Proper, Fresh
<1>7. Single(new, c)
  BY <1>1, Zenon DEF Sound, Single
<1>5. Waits(new)
  <2>1. Waits(pr)
    BY Zenon DEF Sound, Sane
  <2>2. \A p \in Pid : new[p].state = "BLOCKED" => new[p] = pr[p]
    BY <1>1, Zenon
  <2>3. \A p \in Pid : pr[p].state \notin {"FREE", "TERMINATED"} => new[p] = pr[p]
    BY <1>1, <1>2, Zenon
  <2> QED
    BY <2>1, <2>2, <2>3, WaitsKept, Zenon
<1>6. Alive(new, sv)
  BY <1>1, <1>2, Zenon DEF Sound, Alive
<1> QED
  BY <1>1, <1>3, <1>4, <1>5, <1>6, <1>7, <1>8 DEF Sound, Sane, Proper, new

=============================================================================
