--------------------------- MODULE ProcessActions ---------------------------
(***************************************************************************)
(* What a step of Process may never do to a process that has ended or is   *)
(* stopped, from the inductive invariant and one more fact: the idle       *)
(* process never ends and is never stopped.                                *)
(***************************************************************************)
EXTENDS ProcessLemmas

(* The time a leaf may take: SMT first, then Zenon. *)
USE SMTT(20), ZenonT(20)

(* A process that schedule() passes over until something else changes it. *)
Halted(r) == r.state \in {"STOPPED", "TERMINATED", "FREE"}

(* The idle process is what schedule() falls back on.  No alarm is armed   *)
(* for it, so SIGALRM cannot end it.                                       *)
Lively(r) == ~Halted(r) /\ r.alarm = Off

Tame(pr) == Typed(pr) /\ Lively(pr[Idle])

(* A process that is not the waiter of its mailbox stays ended if it has   *)
(* ended, and stopped or ended if it is stopped.                           *)
Rests(old, new) ==
    ~old.waiter /\ Halted(old) =>
        /\ ~new.waiter /\ Halted(new)
        /\ Ended(old) => Ended(new)

(* From pr to new nothing happens to the processes in the list that only   *)
(* SIGCONT may do.                                                         *)
Quiet(pr, new) == Tame(new) /\ \A q \in Pid : q < nextPid => Rests(pr[q], new[q])

(* The pieces of a handler can be put together. *)
LEMMA QuietTrans ==
    ASSUME NEW a, NEW b, NEW c, Quiet(a, b), Quiet(b, c)
    PROVE  Quiet(a, c)
BY Zenon DEF Quiet, Rests

(* A descriptor is written whose process is not halted before, or stays as *)
(* it is in this respect.                                                  *)
LEMMA UpdateQuiet ==
    ASSUME NEW pr, Tame(pr), NEW x \in Pid, NEW rec \in ProcType,
           Rests(pr[x], rec), x = Idle => Lively(rec)
    PROVE  Quiet(pr, [pr EXCEPT ![x] = rec])
<1> DEFINE new == [pr EXCEPT ![x] = rec]
<1>1. Typed(new) /\ new[x] = rec /\ \A q \in Pid \ {x} : new[q] = pr[q]
  BY Zenon DEF Tame, Typed
<1>2. Idle \in Pid
  BY ProcessAssumption DEF Pid, Idle
<1> HIDE DEF new
<1>3. Lively(new[Idle])
  BY <1>1, <1>2, Zenon DEF Tame
<1>4. \A q \in Pid : Rests(pr[q], new[q])
  BY <1>1, Zenon DEF Rests
<1> QED
  BY <1>1, <1>3, <1>4, Zenon DEF Quiet, Tame, new

(* What a descriptor must keep for its process to stay as it is. *)
LEMMA SameRests ==
    ASSUME NEW r, NEW s, s.state = r.state, s.waiter = r.waiter
    PROVE  Rests(r, s) /\ (s.alarm = r.alarm /\ Lively(r) => Lively(s))
BY Zenon DEF Rests, Lively, Halted, Ended

(* A process that is not halted may become anything. *)
LEMMA AwakeRests == ASSUME NEW r, NEW s, ~Halted(r) PROVE Rests(r, s)
BY Zenon DEF Rests

(* process_deliver_pending_signal() and the return to ring 3. *)
LEMMA ReturnQuiet ==
    ASSUME NEW pr, Tame(pr), NEW p \in Pid
    PROVE  Quiet(pr, Return(pr, p))
<1>1. Typed(pr)
  BY Zenon DEF Tame
<1>2. PICK rec \in ProcType : Returned(pr, p, rec)
  BY <1>1, ReturnIs, Zenon
<1>3. Rests(pr[p], rec) /\ (p = Idle => Lively(rec))
  BY <1>2, SameRests, Zenon DEF Tame, Returned
<1>4. Quiet(pr, [pr EXCEPT ![p] = rec])
  BY <1>3, UpdateQuiet, Zenon
<1> QED
  BY <1>2, <1>4, Zenon DEF Returned

(* switch_to_process() to a READY process, to the idle one, or to the      *)
(* running one.                                                            *)
LEMMA SwitchQuiet ==
    ASSUME NEW pr, Tame(pr), NEW c \in Pid, NEW d \in Pid,
           d = Idle \/ pr[d].state = "READY" \/ d = c
    PROVE  Quiet(pr, SwitchTo(pr, c, d))
<1>1. CASE d = c
  BY <1>1, SameRests, Zenon DEF SwitchTo, Quiet
<1>2. CASE d # c
  <2> DEFINE st == IF pr[c].state = "RUNNING" THEN "READY" ELSE pr[c].state
             r1 == [pr[c] EXCEPT !.state = st]
             r2 == [pr[d] EXCEPT !.state = "RUNNING"]
             mid == [pr EXCEPT ![c] = r1]
  <2>1. pr[c] \in ProcType /\ pr[d] \in ProcType /\ pr \in [Pid -> ProcType]
    BY Zenon DEF Tame, Typed
  <2>2. st \in State /\ "RUNNING" \in State
    BY <2>1, Zenon DEF State, ProcType
  <2>3. /\ r1 \in ProcType /\ r1.state = st /\ r1.waiter = pr[c].waiter
        /\ r1.alarm = pr[c].alarm
        /\ r2 \in ProcType /\ r2.state = "RUNNING" /\ r2.alarm = pr[d].alarm
    <3> HIDE DEF st
    <3> QED
      BY <2>1, <2>2, SetState, ZenonT(60)
  <2>4. Quiet(pr, mid)
    <3> HIDE DEF r1
    <3>1. Rests(pr[c], r1) /\ (c = Idle => Lively(r1))
      BY <2>3, Zenon DEF Tame, Rests, Lively, Halted, Ended
    <3> QED
      BY <2>3, <3>1, UpdateQuiet, Zenon
  <2>5. mid[d] = pr[d] /\ Tame(mid)
    BY <1>2, <2>1, <2>4, Zenon DEF Quiet
  <2>6. SwitchTo(pr, c, d) = [mid EXCEPT ![d] = r2]
    BY <1>2, <2>1, Zenon DEF SwitchTo
  <2> HIDE DEF mid, r2
  <2>7. Rests(mid[d], r2) /\ (d = Idle => Lively(r2))
    BY <2>3, <2>5, <1>2, Zenon DEF Tame, Rests, Lively, Halted
  <2>8. Quiet(mid, [mid EXCEPT ![d] = r2])
    BY <2>3, <2>5, <2>7, UpdateQuiet, Zenon
  <2> QED
    BY <2>4, <2>6, <2>8, QuietTrans, Zenon
<1> QED
  BY <1>1, <1>2, Zenon

(* schedule(). *)
LEMMA ScheduleQuiet ==
    ASSUME Ordered, NEW pr, Tame(pr), current \in Pid, Schedule(pr)
    PROVE  Quiet(pr, proc')
BY PickNextIn, SwitchQuiet, Zenon DEF Schedule, Switch, Tame

(* mailbox_send() wakes waiters only, and stops nobody. *)
LEMMA SendQuiet ==
    ASSUME NEW pr, Tame(pr), NEW dest \in Pid, NEW from \in Pid
    PROVE  /\ Quiet(pr, Send(pr, dest, from))
           /\ \A q \in Pid : ~Halted(pr[q]) => ~Halted(Send(pr, dest, from)[q])
<1>1. CASE ~CanSend(pr, dest)
  BY <1>1, SameRests, Zenon DEF Send, Quiet
<1>2. CASE CanSend(pr, dest)
  <2> DEFINE r == pr[dest]
             box == Append(r.mbox, from)
             st == IF r.waiter THEN "READY" ELSE r.state
             rec == [r EXCEPT !.mbox = box, !.waiter = FALSE, !.state = st]
  <2>1. r \in ProcType /\ pr \in [Pid -> ProcType]
    BY Zenon DEF Tame, Typed
  <2>2. st \in State /\ box \in Seq(Pid)
    BY <2>1 DEF State, ProcType
  <2>3. Send(pr, dest, from) = [pr EXCEPT ![dest] = rec]
    BY <1>2, Zenon DEF Send
  <2>4. /\ rec \in ProcType /\ rec.state = st /\ ~rec.waiter /\ rec.alarm = r.alarm
    <3>1. FALSE \in BOOLEAN
      BY Zenon
    <3> HIDE DEF st, box
    <3>2. rec \in ProcType
      BY <2>1, <2>2, <3>1, SetMail, Zenon
    <3> QED
      BY <2>1, <3>2, Zenon DEF ProcType
  <2> HIDE DEF rec
  <2>5. Rests(pr[dest], rec) /\ (~Halted(pr[dest]) => ~Halted(rec))
    BY <2>4, Zenon DEF Rests, Halted, Ended
  <2>6. dest = Idle => Lively(rec)
    BY <2>4, <2>5, Zenon DEF Tame, Lively
  <2>7. Quiet(pr, [pr EXCEPT ![dest] = rec])
    BY <2>4, <2>5, <2>6, UpdateQuiet, Zenon
  <2>8. \A q \in Pid : ~Halted(pr[q]) => ~Halted([pr EXCEPT ![dest] = rec][q])
    BY <2>1, <2>5, Zenon
  <2> QED
    BY <2>3, <2>7, <2>8, Zenon
<1> QED
  BY <1>1, <1>2, Zenon

(* process_signal() to a process with a handler wakes only what is blocked *)
(* or asleep.                                                              *)
LEMMA CatchQuiet ==
    ASSUME NEW pr, Tame(pr), NEW t \in Pid, NEW sig \in Catchable
    PROVE  /\ Quiet(pr, Catch(pr, t, sig))
           /\ \A q \in Pid : ~Halted(pr[q]) => ~Halted(Catch(pr, t, sig)[q])
<1> DEFINE r == pr[t]
           st == IF r.state \in {"BLOCKED", "SLEEPING"} THEN "READY" ELSE r.state
           rec == [r EXCEPT !.pending = sig, !.state = st]
<1>1. r \in ProcType /\ pr \in [Pid -> ProcType]
  BY Zenon DEF Tame, Typed
<1>2. st \in State
  BY <1>1, Zenon DEF State, ProcType
<1>3. Catch(pr, t, sig) = [pr EXCEPT ![t] = rec]
  BY Zenon DEF Catch
<1>4. /\ rec \in ProcType /\ rec.state = st /\ rec.waiter = r.waiter
      /\ rec.alarm = r.alarm
  <2> HIDE DEF st
  <2> QED
    BY <1>1, <1>2, Zenon DEF ProcType
<1> HIDE DEF rec
<1>5. Rests(pr[t], rec) /\ (~Halted(pr[t]) => ~Halted(rec))
  BY <1>4, Zenon DEF Rests, Halted, Ended
<1>6. t = Idle => Lively(rec)
  BY <1>4, <1>5, Zenon DEF Tame, Lively
<1>7. Quiet(pr, [pr EXCEPT ![t] = rec])
  BY <1>4, <1>5, <1>6, UpdateQuiet, Zenon
<1>8. \A q \in Pid : ~Halted(pr[q]) => ~Halted([pr EXCEPT ![t] = rec][q])
  BY <1>1, <1>5, Zenon
<1> QED
  BY <1>3, <1>7, <1>8, Zenon

(* A new process disturbs nobody in the list. *)
LEMMA CreateQuiet ==
    ASSUME NEW pr, Tame(pr), nextPid \in Pid \ {Idle}, NEW rec \in ProcType
    PROVE  Quiet(pr, [pr EXCEPT ![nextPid] = rec])
<1> DEFINE new == [pr EXCEPT ![nextPid] = rec]
<1>1. Idle \in Pid /\ Pid \subseteq Nat
  BY ProcessAssumption DEF Pid, Idle
<1>2. Typed(new) /\ \A q \in Pid \ {nextPid} : new[q] = pr[q]
  BY Zenon DEF Tame, Typed
<1> HIDE DEF new
<1>3. \A q \in Pid : q < nextPid => Rests(pr[q], new[q])
  BY <1>1, <1>2, SameRests
<1> QED
  BY <1>1, <1>2, <1>3, Zenon DEF Quiet, Tame, new

(* The death of p changes nobody else for the worse: the window manager    *)
(* and the waiting parent are woken, a new shell has a pid of its own.     *)
LEMMA BuryQuiet ==
    ASSUME NEW pr, Tame(pr), NEW p \in Pid \ {Idle}, NEW r \in Outcome,
           nextPid \in Nat \ {0}, r # "none" => nextPid \in Pid,
           current \in Pid, services["wm"] \in Pid
    PROVE  /\ Quiet(pr, Bury(pr, p, r))
           /\ \A q \in Pid \ {p} : q < nextPid /\ ~Halted(pr[q]) =>
                                     ~Halted(Bury(pr, p, r)[q])
<1> DEFINE rec == [pr[p] EXCEPT !.state = "TERMINATED"]
           dead == [pr EXCEPT ![p] = rec]
           told == IF services["wm"] \in {0, p} THEN dead
                   ELSE Send(dead, services["wm"], Kernel)
           marked == Mark(pr, p, r)
           buried == Bury(pr, p, r)
<1>1. pr[p] \in ProcType /\ pr \in [Pid -> ProcType] /\ Pid \subseteq Nat
  BY ProcessAssumption DEF Tame, Typed, Pid
<1>2. rec \in ProcType /\ rec.state = "TERMINATED" /\ rec.waiter = pr[p].waiter
  BY <1>1, SetState, Zenon DEF State
<1>3. Quiet(pr, dead) /\ \A q \in Pid \ {p} : dead[q] = pr[q]
  <2> HIDE DEF rec
  <2>1. Rests(pr[p], rec)
    BY <1>2, Zenon DEF Rests, Halted, Ended
  <2> QED
    BY <1>1, <1>2, <2>1, UpdateQuiet, Zenon
<1> HIDE DEF dead
<1>4. /\ Quiet(dead, told)
      /\ \A q \in Pid : ~Halted(dead[q]) => ~Halted(told[q])
  <2>1. Tame(dead) /\ Kernel \in Pid
    BY <1>3, ProcessAssumption DEF Quiet, Kernel, Pid
  <2> QED
    BY <2>1, SendQuiet, SameRests, Zenon DEF Quiet
<1>5. marked = CASE r = "none" -> told
                 [] r = "shell" -> [told EXCEPT ![nextPid] = NewProc(current, TRUE)]
                 [] r = "stillborn" ->
                      [told EXCEPT ![nextPid] =
                          [NewProc(current, FALSE) EXCEPT !.state = "TERMINATED"]]
  BY Zenon DEF Mark, dead
<1> HIDE DEF told
<1>6. /\ Quiet(told, marked)
      /\ \A q \in Pid : q < nextPid => marked[q] = told[q]
  <2>1. CASE r = "none"
    BY <1>4, <1>5, <2>1, SameRests, Zenon DEF Quiet
  <2>2. CASE r # "none"
    <3>1. PICK new \in ProcType : marked = [told EXCEPT ![nextPid] = new]
      <4>1. /\ NewProc(current, TRUE) \in ProcType
            /\ [NewProc(current, FALSE) EXCEPT !.state = "TERMINATED"] \in ProcType
        BY NewProcTyped, Zenon
      <4> QED
        BY <1>5, <2>2, <4>1, Zenon DEF Outcome
    <3>2. nextPid \in Pid \ {Idle} /\ Tame(told)
      BY <1>4, <2>2, Zenon DEF Quiet, Idle
    <3>3. \A q \in Pid : q < nextPid => marked[q] = told[q]
      BY <1>1, <3>1, <3>2 DEF Tame, Typed
    <3>4. Quiet(told, [told EXCEPT ![nextPid] = new])
      BY <3>2, CreateQuiet, Zenon
    <3> QED
      BY <3>1, <3>3, <3>4, Zenon
  <2> QED
    BY <2>1, <2>2, Zenon
<1>7. buried = WakeWaitingParent(marked, p)
  BY Zenon DEF Bury
<1> HIDE DEF marked
<1>8. /\ Quiet(marked, buried)
      /\ \A q \in Pid : ~Halted(marked[q]) => ~Halted(buried[q])
  <2> DEFINE par == marked[p].ppid
  <2>1. CASE ~WaitsFor(marked, par, p)
    BY <1>6, <1>7, <2>1, SameRests, Zenon DEF WakeWaitingParent, Quiet
  <2>2. CASE WaitsFor(marked, par, p)
    <3> DEFINE new == [marked[par] EXCEPT !.waitFor = 0, !.state = "READY"]
    <3>1. par \in Pid /\ marked[par] \in ProcType /\ marked \in [Pid -> ProcType]
      BY <1>6, Zenon DEF Quiet, Tame, Typed, ProcType
    <3>2. buried = [marked EXCEPT ![par] = new]
      BY <1>7, <2>2, Zenon DEF WakeWaitingParent
    <3>3. par # Idle /\ marked[par].state = "BLOCKED"
      BY <2>2, Zenon DEF WaitsFor
    <3>4. new \in ProcType /\ new.state = "READY"
      <4>1. 0 \in Pid /\ "READY" \in State
        BY ProcessAssumption DEF Pid, State
      <4> QED
        BY <3>1, <4>1, Zenon DEF ProcType
    <3> HIDE DEF new, par
    <3>5. Rests(marked[par], new) /\ ~Halted(new) /\ Tame(marked)
      BY <1>6, <3>3, <3>4, Zenon DEF Rests, Halted, Quiet
    <3>6. Quiet(marked, [marked EXCEPT ![par] = new])
      BY <3>1, <3>3, <3>4, <3>5, UpdateQuiet, Zenon
    <3>7. \A q \in Pid : ~Halted(marked[q]) => ~Halted([marked EXCEPT ![par] = new][q])
      BY <3>1, <3>5, Zenon
    <3> QED
      BY <3>2, <3>6, <3>7, Zenon
  <2> QED
    BY <2>1, <2>2, Zenon
<1> HIDE DEF buried
<1>9. Quiet(pr, buried)
  BY <1>3, <1>4, <1>6, <1>8, QuietTrans, Zenon
<1>10. \A q \in Pid \ {p} : q < nextPid /\ ~Halted(pr[q]) => ~Halted(buried[q])
  BY <1>3, <1>4, <1>6, <1>8, Zenon
<1> QED
  BY <1>9, <1>10, Zenon DEF buried

(* The end of a system call. *)
LEMMA FinishQuiet ==
    ASSUME NEW pr, Tame(pr), current \in Pid, Finish(pr)
    PROVE  Quiet(pr, proc')
BY ReturnQuiet, Zenon DEF Finish

(* A descriptor of the running process is written that it leaves awake or, *)
(* unless it is the idle process, not.                                     *)
LEMMA OwnQuiet ==
    ASSUME NEW pr, Tame(pr), NEW c \in Pid, ~Halted(pr[c]), NEW rec \in ProcType,
           c = Idle => ~Halted(rec) /\ rec.alarm = pr[c].alarm
    PROVE  Quiet(pr, [pr EXCEPT ![c] = rec])
<1>1. Rests(pr[c], rec) /\ (c = Idle => Lively(rec))
  BY AwakeRests, Zenon DEF Tame, Lively
<1> QED
  BY <1>1, UpdateQuiet, Zenon

(* The end of the timer handler, with or without preemption. *)
LEMMA PreemptQuiet ==
    ASSUME Ordered, NEW pr, Tame(pr), current \in Pid, ~Halted(pr[current]), Preempt(pr)
    PROVE  Quiet(pr, proc')
<1> DEFINE rec == [pr[current] EXCEPT !.pc = "user", !.arg = 0]
           back == [pr EXCEPT ![current] = rec]
<1>1. pr[current] \in ProcType /\ "user" \in Place /\ 0 \in Pid
  BY ProcessAssumption DEF Tame, Typed, Place, Pid
<1>2. /\ rec \in ProcType /\ rec.state = pr[current].state
      /\ rec.alarm = pr[current].alarm
  BY <1>1, Zenon DEF ProcType
<1>3. proc' = back \/ Schedule(back)
  BY Zenon DEF Preempt
<1> HIDE DEF rec
<1>4. Quiet(pr, back)
  BY <1>2, OwnQuiet, Zenon DEF Halted
<1> HIDE DEF back
<1>5. Tame(back)
  BY <1>4, Zenon DEF Quiet
<1> QED
  BY <1>3, <1>4, <1>5, ScheduleQuiet, QuietTrans, Zenon

(* One round of process_wait(): a zombie is removed, or the caller blocks. *)
LEMMA WaitRoundQuiet ==
    ASSUME Ordered, NEW pr, Tame(pr), current \in Pid, ~Halted(pr[current]),
           NEW target \in Pid \cup {Any}, NEW place \in {"wait", "ctrlc"},
           WaitRound(pr, current, target, place)
    PROVE  Quiet(pr, proc')
<1> DEFINE children == Children(pr, current, target)
           zombies  == {q \in children : pr[q].state = "TERMINATED"}
           z == Least(zombies)
           rec == [pr[current] EXCEPT !.waitFor = 0]
           asleep == [pr[current] EXCEPT !.waitFor = target, !.state = "BLOCKED",
                                         !.pc = place, !.arg = target]
           freed == [pr EXCEPT ![z] = FreeProc]
<1>1. /\ pr[current] \in ProcType /\ pr \in [Pid -> ProcType]
      /\ 0 \in Pid /\ Pid \subseteq Nat /\ Idle \in Pid
      /\ "BLOCKED" \in State /\ place \in Place
  BY ProcessAssumption DEF Tame, Typed, Pid, Idle, State, Place
<1>2. /\ rec \in ProcType /\ rec.state = pr[current].state
      /\ rec.alarm = pr[current].alarm
      /\ asleep \in ProcType /\ asleep.state = "BLOCKED"
      /\ asleep.alarm = pr[current].alarm
  BY <1>1, ZenonT(60) DEF ProcType
<1> HIDE DEF rec, asleep
<1>3. ASSUME NEW tab, Tame(tab), tab[current] = pr[current], Quiet(pr, tab),
             AfterWait([tab EXCEPT ![current] = rec], place)
      PROVE  Quiet(pr, proc')
  <2> DEFINE new == [tab EXCEPT ![current] = rec]
  <2>1. ~Halted(tab[current]) /\ ~Halted(rec) /\ rec.alarm = tab[current].alarm
    BY <1>2, <1>3, Zenon DEF Halted
  <2>2. Quiet(tab, new)
    BY <1>2, <1>3, <2>1, OwnQuiet, Zenon
  <2>3. Tame(new) /\ new[current] = rec
    BY <2>2, <1>3, Zenon DEF Quiet, Tame, Typed
  <2>4. Preempt(new) \/ Finish(new)
    BY <1>3, Zenon DEF AfterWait
  <2> HIDE DEF new
  <2>5. Quiet(new, proc')
    BY <2>1, <2>3, <2>4, PreemptQuiet, FinishQuiet, Zenon
  <2> QED
    BY <1>3, <2>2, <2>5, QuietTrans, Zenon
<1>4. CASE /\ zombies # {}
           /\ AfterWait([pr EXCEPT ![z] = FreeProc, ![current] = rec], place)
  <2>1. z \in Pid /\ pr[z].state = "TERMINATED"
    <3>1. zombies \subseteq Nat
      BY <1>1, Zenon DEF Children, Live
    <3>2. z \in zombies
      BY <1>4, <3>1, LeastIn, Zenon
    <3> QED
      BY <3>2, Zenon DEF Children, Live
  <2>2. /\ FreeProc \in ProcType /\ FreeProc.state = "FREE" /\ ~FreeProc.waiter
    BY <1>1, NewProcTyped, Zenon DEF FreeProc, NewProc
  <2> HIDE DEF z
  <2>3. Rests(pr[z], FreeProc) /\ z # Idle /\ z # current
    BY <2>1, <2>2, Zenon DEF Rests, Halted, Ended, Tame, Lively
  <2>4. Quiet(pr, freed)
    BY <2>1, <2>2, <2>3, UpdateQuiet, Zenon
  <2>5. freed[current] = pr[current] /\ Tame(freed)
    BY <1>1, <2>3, <2>4, Zenon DEF Quiet
  <2>6. AfterWait([freed EXCEPT ![current] = rec], place)
    <3>1. [pr EXCEPT ![z] = FreeProc, ![current] = rec] = [freed EXCEPT ![current] = rec]
      BY Zenon
    <3> QED
      BY <1>4, <3>1, Zenon
  <2> HIDE DEF freed
  <2> QED
    BY <1>3, <2>4, <2>5, <2>6, Zenon
<1>5. CASE AfterWait([pr EXCEPT ![current] = rec], place)
  <2>1. Quiet(pr, pr)
    BY SameRests, Zenon DEF Quiet
  <2> QED
    BY <1>3, <1>5, <2>1, Zenon
<1>6. CASE Schedule([pr EXCEPT ![current] = asleep])
  <2>1. Quiet(pr, [pr EXCEPT ![current] = asleep])
    BY <1>2, OwnQuiet, Zenon DEF Halted
  <2>2. Tame([pr EXCEPT ![current] = asleep])
    BY <2>1, Zenon DEF Quiet
  <2> QED
    BY <1>6, <2>1, <2>2, ScheduleQuiet, QuietTrans, Zenon
<1>7. \/ /\ zombies # {}
         /\ AfterWait([pr EXCEPT ![z] = FreeProc, ![current] = rec], place)
      \/ AfterWait([pr EXCEPT ![current] = rec], place)
      \/ Schedule([pr EXCEPT ![current] = asleep])
  BY Zenon DEF WaitRound, rec, asleep
<1> QED
  BY <1>4, <1>5, <1>6, <1>7, Zenon

(* A process puts itself to sleep or blocks in mailbox_recv(). *)
LEMMA OwnScheduleQuiet ==
    ASSUME Ordered, NEW pr, Tame(pr), current \in Pid, ~Halted(pr[current]),
           NEW rec \in ProcType,
           current = Idle => ~Halted(rec) /\ rec.alarm = pr[current].alarm,
           Schedule([pr EXCEPT ![current] = rec])
    PROVE  Quiet(pr, proc')
<1>1. Quiet(pr, [pr EXCEPT ![current] = rec])
  BY OwnQuiet, Zenon
<1>2. Tame([pr EXCEPT ![current] = rec])
  BY <1>1, Zenon DEF Quiet
<1> QED
  BY <1>1, <1>2, ScheduleQuiet, QuietTrans, Zenon

(* mailbox_recv() that finds no message. *)
LEMMA BlockQuiet ==
    ASSUME Ordered, NEW pr, Tame(pr), current \in Pid, ~Halted(pr[current]),
           NEW place \in {"recv", "rpc"}, NEW arg \in Pid \cup {Any} \cup 0 .. MaxTicks,
           BlockInRecv(pr, current, place, arg)
    PROVE  Quiet(pr, proc')
<1> DEFINE rec == [pr[current] EXCEPT !.waiter = TRUE, !.state = "BLOCKED",
                                      !.pc = place, !.arg = arg]
<1>1. /\ pr[current] \in ProcType /\ "BLOCKED" \in State /\ place \in Place
      /\ TRUE \in BOOLEAN
  BY Zenon DEF Tame, Typed, State, Place
<1>2. rec \in ProcType /\ rec.state = "BLOCKED" /\ rec.alarm = pr[current].alarm
  BY <1>1, Zenon DEF ProcType
<1>3. Schedule([pr EXCEPT ![current] = rec])
  BY Zenon DEF BlockInRecv
<1> HIDE DEF rec
<1>4. ~Halted(rec)
  BY <1>2, Zenon DEF Halted
<1> QED
  BY <1>2, <1>3, <1>4, OwnScheduleQuiet, Zenon

(* process_sleep(). *)
LEMMA SleepQuiet ==
    ASSUME Ordered, Tame(proc), current \in Pid, ~Halted(proc[current]),
           NEW ticks \in 0 .. MaxTicks, NEW place \in {"ret", "poll"},
           NEW rest \in Pid \cup 0 .. MaxTicks, Sleep(proc, current, ticks, place, rest)
    PROVE  Quiet(proc, proc')
<1> DEFINE rec == [proc[current] EXCEPT !.wakeup = ticks, !.state = "SLEEPING",
                                        !.pc = place, !.arg = rest]
<1>1. proc[current] \in ProcType /\ "SLEEPING" \in State /\ place \in Place
  BY Zenon DEF Tame, Typed, State, Place
<1>2. rec \in ProcType /\ rec.state = "SLEEPING" /\ rec.alarm = proc[current].alarm
  BY <1>1, Zenon DEF ProcType
<1>3. Schedule([proc EXCEPT ![current] = rec])
  BY Zenon DEF Sleep
<1> HIDE DEF rec
<1>4. ~Halted(rec)
  BY <1>2, Zenon DEF Halted
<1> QED
  BY <1>2, <1>3, <1>4, OwnScheduleQuiet, Zenon

(* A process takes messages out of its mailbox. *)
LEMMA MailQuiet ==
    ASSUME NEW pr, Tame(pr), current \in Pid, ~Halted(pr[current]), NEW box \in Seq(Pid)
    PROVE  LET tab == [pr EXCEPT ![current].mbox = box]
           IN  Quiet(pr, tab) /\ Tame(tab) /\ ~Halted(tab[current])
<1> DEFINE rec == [pr[current] EXCEPT !.mbox = box]
           tab == [pr EXCEPT ![current] = rec]
<1>1. pr[current] \in ProcType
  BY Zenon DEF Tame, Typed
<1>2. /\ rec \in ProcType /\ rec.state = pr[current].state
      /\ rec.alarm = pr[current].alarm
  BY <1>1, Zenon DEF ProcType
<1> HIDE DEF rec
<1>3. Quiet(pr, tab) /\ ~Halted(rec)
  BY <1>2, OwnQuiet, Zenon DEF Halted
<1>4. Tame(tab) /\ tab[current] = rec
  BY <1>3, Zenon DEF Quiet, Tame, Typed
<1> QED
  BY <1>3, <1>4, Zenon DEF rec

(* A call that ends with a message. *)
LEMMA ReadQuiet ==
    ASSUME NEW pr, Tame(pr), current \in Pid, ~Halted(pr[current]), NEW box \in Seq(Pid),
           Finish([pr EXCEPT ![current].mbox = box])
    PROVE  Quiet(pr, proc')
<1> DEFINE tab == [pr EXCEPT ![current].mbox = box]
<1>1. Quiet(pr, tab) /\ Tame(tab) /\ Finish(tab)
  BY MailQuiet, Zenon
<1> HIDE DEF tab
<1> QED
  BY <1>1, FinishQuiet, QuietTrans, Zenon

(* mailbox_recv() without a timeout. *)
LEMMA RecvRoundQuiet ==
    ASSUME Ordered, Tame(proc), current \in Pid, ~Halted(proc[current]), RecvRound(current)
    PROVE  Quiet(proc, proc')
<1>1. proc[current].mbox \in Seq(Pid) /\ 0 \in Pid
  BY ProcessAssumption DEF Tame, Typed, ProcType, Pid
<1>2. CASE proc[current].mbox # << >>
  <2>1. Tail(proc[current].mbox) \in Seq(Pid)
    BY <1>1, <1>2
  <2>2. Finish([proc EXCEPT ![current].mbox = Tail(proc[current].mbox)])
    BY <1>2, Zenon DEF RecvRound
  <2> QED
    BY <2>1, <2>2, ReadQuiet, Zenon
<1>3. CASE proc[current].mbox = << >>
  BY <1>1, <1>3, BlockQuiet, Zenon DEF RecvRound
<1> QED
  BY <1>2, <1>3, Zenon

(* mailbox_recv() with a timeout. *)
LEMMA PollRoundQuiet ==
    ASSUME Ordered, Tame(proc), current \in Pid, ~Halted(proc[current]),
           NEW polls \in Pid \cup {Any} \cup 0 .. MaxTicks, PollRound(current, polls)
    PROVE  Quiet(proc, proc')
<1>1. proc[current].mbox \in Seq(Pid)
  BY Zenon DEF Tame, Typed, ProcType
<1>2. CASE proc[current].mbox # << >>
  <2>1. Tail(proc[current].mbox) \in Seq(Pid)
    BY <1>1, <1>2
  <2>2. Finish([proc EXCEPT ![current].mbox = Tail(proc[current].mbox)])
    BY <1>2, Zenon DEF PollRound
  <2> QED
    BY <2>1, <2>2, ReadQuiet, Zenon
<1>3. CASE proc[current].mbox = << >> /\ polls = 0
  BY <1>3, FinishQuiet DEF PollRound
<1>4. CASE proc[current].mbox = << >> /\ polls > 0
  <2>1. Sleep(proc, current, 1, "poll", polls - 1)
    BY <1>4 DEF PollRound
  <2>2. 1 \in 0 .. MaxTicks /\ polls - 1 \in Pid \cup 0 .. MaxTicks
    BY <1>4, ProcessAssumption DEF Pid, Any
  <2> QED
    BY <2>1, <2>2, SleepQuiet, Zenon
<1> QED
  BY <1>2, <1>3, <1>4, Zenon DEF PollRound

(* The loop of service_call(). *)
LEMMA RpcRoundQuiet ==
    ASSUME Ordered, NEW pr, Tame(pr), current \in Pid, ~Halted(pr[current]),
           NEW s \in Pid \cup {Any} \cup 0 .. MaxTicks, RpcRound(pr, current, s)
    PROVE  Quiet(pr, proc')
<1> DEFINE box == pr[current].mbox
           answers == Answers(box, s)
<1>1. box \in Seq(Pid)
  BY Zenon DEF Tame, Typed, ProcType
<1>2. CASE answers # {}
  <2>1. Least(answers) \in 1 .. Len(box)
    <3>1. answers \in SUBSET Nat /\ answers \subseteq 1 .. Len(box)
      BY <1>1 DEF Answers
    <3>2. Least(answers) \in answers
      BY <1>2, <3>1, LeastIn, Zenon
    <3> QED
      BY <3>1, <3>2, Zenon
  <2>2. SubSeq(box, Least(answers) + 1, Len(box)) \in Seq(Pid)
    BY <1>1, <2>1
  <2>3. Finish([pr EXCEPT ![current].mbox =
                    SubSeq(box, Least(answers) + 1, Len(box))])
    BY <1>2, Zenon DEF RpcRound
  <2> QED
    BY <2>2, <2>3, ReadQuiet, Zenon
<1>3. CASE answers = {}
  <2> DEFINE tab == [pr EXCEPT ![current].mbox = << >>]
  <2>1. BlockInRecv(tab, current, "rpc", s)
    BY <1>3, Zenon DEF RpcRound
  <2>2. << >> \in Seq(Pid)
    OBVIOUS
  <2>3. Quiet(pr, tab) /\ Tame(tab) /\ ~Halted(tab[current])
    BY <2>2, MailQuiet, Zenon
  <2> HIDE DEF tab
  <2> QED
    BY <2>1, <2>3, BlockQuiet, QuietTrans, Zenon
<1> QED
  BY <1>2, <1>3, Zenon

(* What every step may use. *)
LEMMA StepFacts ==
    ASSUME IInv, Tame(proc)
    PROVE  /\ current \in Pid /\ ~Halted(proc[current])
           /\ nextPid \in Nat \ {0} /\ services["wm"] \in Pid
           /\ Sound(proc, current, nextPid, services)
<1>1. Sound(proc, current, nextPid, services) /\ Runs(proc, current)
  BY Zenon DEF IInv
<1>2. ~Halted(proc[current])
  BY <1>1, Zenon DEF Runs, Halted, Tame, Lively
<1> QED
  BY <1>1, <1>2, ProcessAssumption, Zenon DEF Sound

(* process_exit(), and the death of the running process by a signal. *)
LEMMA LeaveDeadQuiet ==
    ASSUME Ordered, NEW pr, Tame(pr), Sound(pr, current, nextPid, services), current # Idle,
           pr[current].state # "FREE", NEW r \in Outcome, r # "none" => nextPid \in Pid,
           LeaveDead(pr, r), Unregister(current, r)
    PROVE  Quiet(pr, proc')
<1> DEFINE buried == Bury(pr, current, r)
           par == pr[current].ppid
<1>1. /\ current \in Pid \ {Idle} /\ nextPid \in Nat \ {0} /\ services["wm"] \in Pid
  BY ProcessAssumption, Zenon DEF Sound
<1>2. Quiet(pr, buried)
  BY <1>1, BuryQuiet, Zenon
<1>3. Tame(buried)
  BY <1>2, Zenon DEF Quiet
<1>4. CASE WaitsFor(Mark(pr, current, r), par, current)
  <2>1. par \in Pid /\ buried[par].state = "READY"
    BY <1>1, <1>4, BurySound
  <2>2. proc' = SwitchTo(buried, current, par)
    BY <1>4, Zenon DEF LeaveDead, Switch
  <2> HIDE DEF buried, par
  <2>3. Quiet(buried, proc')
    BY <1>1, <1>3, <2>1, <2>2, SwitchQuiet, Zenon
  <2> QED
    BY <1>2, <2>3, QuietTrans, Zenon
<1>5. CASE ~WaitsFor(Mark(pr, current, r), par, current)
  <2>1. Schedule(buried)
    BY <1>5, Zenon DEF LeaveDead
  <2> HIDE DEF buried
  <2> QED
    BY <1>1, <1>2, <1>3, <2>1, ScheduleQuiet, QuietTrans, Zenon
<1> QED
  BY <1>4, <1>5, Zenon

(* The actions *)

(* A call that changes the table quietly and returns. *)
LEMMA ReturnStepQuiet ==
    ASSUME NEW pr, Quiet(proc, pr), current \in Pid, proc' = Return(pr, current)
    PROVE  Quiet(proc, proc')
<1>1. Quiet(pr, proc')
  BY ReturnQuiet, Zenon DEF Quiet
<1> QED
  BY <1>1, QuietTrans, Zenon

(* A call that writes its caller's signal fields. *)
LEMMA TouchQuiet ==
    ASSUME IInv, Tame(proc), NEW rec \in ProcType, current # Idle
    PROVE  Quiet(proc, [proc EXCEPT ![current] = rec])
BY StepFacts, OwnQuiet, Zenon

(* SYS_FORK. *)
LEMMA ForkQuiet ==
    ASSUME IInv, Tame(proc), NEW p \in Pid, SysFork(p)
    PROVE  Quiet(proc, proc')
<1> DEFINE rec == [NewProc(p, FALSE) EXCEPT !.handlers = proc[p].handlers]
<1>1. p = current /\ nextPid \in Nat \ {0}
  BY StepFacts, Zenon DEF SysFork, InUser
<1>2. rec \in ProcType
  <2>1. proc[p].handlers \in SUBSET Catchable
    BY Zenon DEF Tame, Typed, ProcType
  <2>2. NewProc(p, FALSE) \in ProcType
    BY NewProcTyped, Zenon
  <2> QED
    BY <2>1, <2>2, Zenon DEF ProcType
<1>3. \/ nextPid <= MaxPid /\ proc' = Return([proc EXCEPT ![nextPid] = rec], current)
      \/ proc' = Return(proc, current)
  BY <1>1, Zenon DEF SysFork
<1> HIDE DEF rec
<1>4. CASE nextPid <= MaxPid /\ proc' = Return([proc EXCEPT ![nextPid] = rec], current)
  <2>1. nextPid \in Pid \ {Idle}
    BY <1>1, <1>4, ProcessAssumption DEF Pid, Idle
  <2>2. Quiet(proc, [proc EXCEPT ![nextPid] = rec])
    BY <1>2, <2>1, CreateQuiet, Zenon
  <2> QED
    BY <1>4, <2>2, StepFacts, ReturnStepQuiet, Zenon
<1>5. CASE proc' = Return(proc, current)
  BY <1>5, StepFacts, ReturnQuiet, Zenon
<1> QED
  BY <1>3, <1>4, <1>5, Zenon

(* SYS_EXEC. *)
LEMMA ExecQuiet ==
    ASSUME IInv, Tame(proc), NEW p \in Pid, SysExec(p)
    PROVE  Quiet(proc, proc')
<1> DEFINE rec == [proc[p] EXCEPT !.handlers = {}, !.pending = 0,
                                  !.inHandler = FALSE, !.alarm = Off]
<1>1. p = current /\ p # Idle /\ proc' = [proc EXCEPT ![p] = rec]
  BY Zenon DEF SysExec, InUser
<1>2. rec \in ProcType
  <2>1. Off \in Off .. MaxTicks
    BY ProcessAssumption DEF Off
  <2>2. proc[p] \in ProcType
    BY Zenon DEF Tame, Typed
  <2> QED
    BY <2>1, <2>2, Zenon DEF ProcType
<1> HIDE DEF rec
<1> QED
  BY <1>1, <1>2, TouchQuiet, Zenon

(* SYS_SIGACTION. *)
LEMMA SigactionQuiet ==
    ASSUME IInv, Tame(proc), NEW p \in Pid, SysSigaction(p) PROVE Quiet(proc, proc')
<1>1. PICK sig \in Handled, set \in BOOLEAN :
          proc' = Return([proc EXCEPT ![p].handlers =
                            IF set THEN @ \cup {sig} ELSE @ \ {sig}], p)
  BY Zenon DEF SysSigaction
<1> DEFINE hs == IF set THEN proc[p].handlers \cup {sig}
                 ELSE proc[p].handlers \ {sig}
           rec == [proc[p] EXCEPT !.handlers = hs]
<1>2. p = current /\ p # Idle /\ proc' = Return([proc EXCEPT ![p] = rec], p)
  BY <1>1, Zenon DEF SysSigaction, InUser
<1>3. hs \in SUBSET Catchable /\ proc[p] \in ProcType
  BY ProcessAssumption, Zenon DEF ProcType, Tame, Typed
<1> HIDE DEF hs
<1>4. rec \in ProcType
  BY <1>3, Zenon DEF ProcType
<1> HIDE DEF rec
<1>5. Quiet(proc, [proc EXCEPT ![current] = rec])
  BY <1>2, <1>4, TouchQuiet, Zenon
<1> QED
  BY <1>2, <1>5, ReturnStepQuiet, Zenon

(* SYS_SIGRETURN. *)
LEMMA SigreturnQuiet ==
    ASSUME IInv, Tame(proc), NEW p \in Pid, SysSigreturn(p) PROVE Quiet(proc, proc')
<1> DEFINE rec == [proc[p] EXCEPT !.inHandler = FALSE]
<1>1. p = current /\ p # Idle /\ proc' = Return([proc EXCEPT ![p] = rec], p)
  BY Zenon DEF SysSigreturn, InUser
<1>2. rec \in ProcType
  <2>1. proc[p] \in ProcType
    BY Zenon DEF Tame, Typed
  <2> QED
    BY <2>1, Zenon DEF ProcType
<1> HIDE DEF rec
<1>3. Quiet(proc, [proc EXCEPT ![current] = rec])
  BY <1>1, <1>2, TouchQuiet, Zenon
<1> QED
  BY <1>1, <1>3, ReturnStepQuiet, Zenon

(* SYS_ALARM. *)
LEMMA AlarmQuiet ==
    ASSUME IInv, Tame(proc), NEW p \in Pid, SysAlarm(p) PROVE Quiet(proc, proc')
<1>1. PICK ticks \in 0 .. MaxTicks :
          proc' = Return([proc EXCEPT ![p].alarm =
                            IF ticks = 0 THEN Off ELSE ticks], p)
  BY Zenon DEF SysAlarm
<1> DEFINE al == IF ticks = 0 THEN Off ELSE ticks
           rec == [proc[p] EXCEPT !.alarm = al]
<1>2. p = current /\ p # Idle /\ proc' = Return([proc EXCEPT ![p] = rec], p)
  BY <1>1, Zenon DEF SysAlarm, InUser
<1>3. al \in Off .. MaxTicks /\ proc[p] \in ProcType
  BY ProcessAssumption DEF Off, Tame, Typed
<1> HIDE DEF al
<1>4. rec \in ProcType
  BY <1>3, Zenon DEF ProcType
<1> HIDE DEF rec
<1>5. Quiet(proc, [proc EXCEPT ![current] = rec])
  BY <1>2, <1>4, TouchQuiet, Zenon
<1> QED
  BY <1>2, <1>5, ReturnStepQuiet, Zenon

(* The calls that change only registrations. *)
LEMMA PlainQuiet ==
    ASSUME IInv, Tame(proc), NEW p \in Pid,
           SysOther(p) \/ SysSetForeground(p) \/ SysRegister(p) \/ SysUnregister(p)
    PROVE  Quiet(proc, proc')
<1>1. proc' = Return(proc, p)
  BY Zenon DEF SysOther, SysSetForeground, SysRegister, SysUnregister
<1> QED
  BY <1>1, ReturnQuiet, Zenon

(* SYS_EXIT. *)
LEMMA ExitQuiet ==
    ASSUME Ordered, IInv, Tame(proc), NEW p \in Pid, SysExit(p)
    PROVE  Quiet(proc, proc')
<1>1. p = current /\ p # Idle
  BY Zenon DEF SysExit, InUser
<1>2. PICK r \in Respawn(proc, p) : LeaveDead(proc, r) /\ Unregister(p, r)
  BY Zenon DEF SysExit
<1>3. r \in Outcome /\ (r # "none" => nextPid \in Pid)
  BY RespawnIn, Zenon DEF IInv
<1>4. proc[current].state # "FREE"
  BY StepFacts, Zenon DEF Halted
<1> QED
  BY <1>1, <1>2, <1>3, <1>4, StepFacts, LeaveDeadQuiet, Zenon

(* SYS_YIELD. *)
LEMMA YieldQuiet ==
    ASSUME Ordered, IInv, Tame(proc), NEW p \in Pid, SysYield(p)
    PROVE  Quiet(proc, proc')
<1> DEFINE rec == [proc[p] EXCEPT !.pc = "ret"]
<1>1. p = current /\ p # Idle /\ Schedule([proc EXCEPT ![p] = rec])
  BY Zenon DEF SysYield, InUser
<1>2. rec \in ProcType
  <2>1. "ret" \in Place
    BY Zenon DEF Place
  <2>2. proc[p] \in ProcType
    BY Zenon DEF Tame, Typed
  <2> QED
    BY <2>1, <2>2, Zenon DEF ProcType
<1> HIDE DEF rec
<1> QED
  BY <1>1, <1>2, StepFacts, OwnScheduleQuiet, Zenon

(* SYS_SLEEP. *)
LEMMA SleepCallQuiet ==
    ASSUME Ordered, IInv, Tame(proc), NEW p \in Pid, SysSleep(p) PROVE Quiet(proc, proc')
<1>1. PICK ticks \in 1 .. MaxTicks : Sleep(proc, current, ticks, "ret", 0)
  BY Zenon DEF SysSleep, InUser
<1>2. ticks \in 0 .. MaxTicks /\ 0 \in 0 .. MaxTicks
  BY ProcessAssumption
<1> QED
  BY <1>1, <1>2, StepFacts, SleepQuiet, Zenon

(* SYS_WAIT. *)
LEMMA WaitQuiet ==
    ASSUME Ordered, IInv, Tame(proc), NEW p \in Pid, SysWait(p)
    PROVE  Quiet(proc, proc')
<1>1. PICK target \in (Pid \ {Idle}) \cup {Any} : WaitRound(proc, current, target, "wait")
  BY Zenon DEF SysWait, InUser
<1> QED
  BY <1>1, StepFacts, WaitRoundQuiet, Zenon

(* SYS_IPC_SEND. *)
LEMMA IpcSendQuiet ==
    ASSUME IInv, Tame(proc), NEW p \in Pid, SysIpcSend(p) PROVE Quiet(proc, proc')
<1>1. PICK dest \in Pid : proc' = Return(Send(proc, dest, p), p)
  BY Zenon DEF SysIpcSend, Live
<1>2. Quiet(proc, Send(proc, dest, p)) /\ p = current
  BY SendQuiet, Zenon DEF SysIpcSend, InUser
<1> QED
  BY <1>1, <1>2, ReturnStepQuiet, Zenon

(* service_call(). *)
LEMMA ServiceCallQuiet ==
    ASSUME Ordered, IInv, Tame(proc), NEW p \in Pid, SysServiceCall(p)
    PROVE  Quiet(proc, proc')
<1>1. PICK s \in Service : IF CanSend(proc, services[s])
                          THEN RpcRound(Send(proc, services[s], p), current, services[s])
                          ELSE Finish(proc)
  BY Zenon DEF SysServiceCall, InUser
<1>2. services[s] \in Pid /\ current \in Pid
  BY Zenon DEF IInv, Sound
<1>3. CASE Finish(proc)
  BY <1>2, <1>3, FinishQuiet, Zenon
<1>4. CASE RpcRound(Send(proc, services[s], p), current, services[s])
  <2> DEFINE sent == Send(proc, services[s], p)
  <2>1. Quiet(proc, sent) /\ ~Halted(sent[current])
    BY <1>2, StepFacts, SendQuiet, Zenon
  <2>2. RpcRound(sent, current, services[s]) /\ Tame(sent)
    BY <1>4, <2>1, Zenon DEF Quiet
  <2> HIDE DEF sent
  <2>3. Quiet(sent, proc')
    BY <1>2, <2>1, <2>2, RpcRoundQuiet, Zenon
  <2> QED
    BY <2>1, <2>3, QuietTrans, Zenon
<1> QED
  BY <1>1, <1>3, <1>4, Zenon

(* SYS_KILL of a process with a handler. *)
LEMMA KillCaughtQuiet ==
    ASSUME IInv, Tame(proc), NEW p \in Pid, InUser(p, "kill"), NEW t \in Pid, NEW sig,
           KillCaught(p, t, sig)
    PROVE  Quiet(proc, proc')
<1>1. sig \in Catchable
  BY Zenon DEF KillCaught, Caught, Tame, Typed, ProcType
<1>2. Quiet(proc, Catch(proc, t, sig))
  BY <1>1, CatchQuiet, Zenon
<1>3. current \in Pid /\ proc' = Return(Catch(proc, t, sig), current)
  BY Zenon DEF KillCaught, InUser
<1> QED
  BY <1>2, <1>3, ReturnStepQuiet, Zenon

(* SYS_KILL of a process that dies of it. *)
LEMMA KillFatalQuiet ==
    ASSUME Ordered, IInv, Tame(proc), NEW p \in Pid, InUser(p, "kill"),
           NEW t \in Live(proc) \ {Idle}, NEW sig, KillFatal(p, t, sig)
    PROVE  Quiet(proc, proc')
<1>1. p = current /\ p # Idle /\ t \in Pid \ {Idle} /\ proc[t].state # "FREE"
  BY Zenon DEF InUser, Live
<1>2. CASE proc' = Return(proc, p)
  BY <1>2, ReturnQuiet, Zenon
<1>3. ASSUME NEW r \in Respawn(proc, t), Unregister(t, r),
             IF t = p THEN LeaveDead(proc, r)
             ELSE proc' = Return(Bury(proc, t, r), p) /\ UNCHANGED current
      PROVE  Quiet(proc, proc')
  <2>1. r \in Outcome /\ (r # "none" => nextPid \in Pid)
    BY RespawnIn, Zenon DEF IInv
  <2>2. CASE t = p
    BY <1>1, <1>3, <2>1, <2>2, StepFacts, LeaveDeadQuiet, Zenon
  <2>3. CASE t # p
    <3>1. Quiet(proc, Bury(proc, t, r))
      BY <1>1, <2>1, StepFacts, BuryQuiet, Zenon
    <3> QED
      BY <1>1, <1>3, <2>3, <3>1, ReturnStepQuiet, Zenon
  <2> QED
    BY <2>2, <2>3, Zenon
<1> QED
  BY <1>2, <1>3, Zenon DEF KillFatal

(* SIGSTOP leaves a zombie dead and a stopped process stopped. *)
LEMMA KillStopQuiet ==
    ASSUME Ordered, IInv, Tame(proc), NEW p \in Pid, InUser(p, "kill"),
           NEW t \in Live(proc) \ {Idle}, KillStop(p, t)
    PROVE  Quiet(proc, proc')
<1> DEFINE st == IF proc[t].state = "TERMINATED" THEN "TERMINATED" ELSE "STOPPED"
           rec == [proc[t] EXCEPT !.state = st]
           tab == [proc EXCEPT ![t] = rec]
<1>1. /\ p = current /\ p # Idle /\ t \in Pid \ {Idle} /\ proc[t].state # "FREE"
      /\ proc[t] \in ProcType /\ proc \in [Pid -> ProcType]
  BY Zenon DEF InUser, Live, Tame, Typed
<1>2. st \in State
  BY Zenon DEF State
<1>3. rec \in ProcType /\ rec.state = st /\ rec.waiter = proc[t].waiter
  <2> HIDE DEF st
  <2> QED
    BY <1>1, <1>2, SetState, ZenonT(60)
<1>4. tab = [proc EXCEPT ![t].state = IF @ = "TERMINATED" THEN @ ELSE "STOPPED"]
  BY Zenon
<1> HIDE DEF rec
<1>5. Quiet(proc, tab)
  <2>1. Rests(proc[t], rec)
    BY <1>1, <1>3, Zenon DEF Rests, Halted, Ended
  <2> QED
    BY <1>1, <1>3, <2>1, UpdateQuiet, Zenon
<1>6. CASE t = p
  <2> DEFINE gone == [rec EXCEPT !.pc = "ret"]
  <2>1. tab[p] = rec
    BY <1>1, <1>6, Zenon
  <2>2. Schedule([tab EXCEPT ![p].pc = "ret"])
    BY <1>4, <1>6, Zenon DEF KillStop
  <2>3. [tab EXCEPT ![p].pc = "ret"] = [proc EXCEPT ![current] = gone]
    BY <1>1, <1>6, <2>1, Zenon
  <2>4. gone \in ProcType
    <3>1. "ret" \in Place
      BY Zenon DEF Place
    <3> QED
      BY <1>3, <3>1, Zenon DEF ProcType
  <2> HIDE DEF gone, tab
  <2>5. Schedule([proc EXCEPT ![current] = gone])
    BY <2>2, <2>3, Zenon
  <2> QED
    BY <1>1, <2>4, <2>5, StepFacts, OwnScheduleQuiet, Zenon
<1>7. CASE t # p
  <2>1. proc' = Return(tab, current)
    BY <1>1, <1>4, <1>7, Zenon DEF KillStop
  <2> HIDE DEF tab
  <2> QED
    BY <1>5, <2>1, StepFacts, ReturnStepQuiet, Zenon
<1> QED
  BY <1>6, <1>7, Zenon

(* SIGCONT may change its target, if that is stopped, and nobody else. *)
LEMMA KillContQuiet ==
    ASSUME IInv, Tame(proc), NEW p \in Pid, InUser(p, "kill"),
           NEW t \in Live(proc) \ {Idle}, KillCont(p, t)
    PROVE  /\ Tame(proc')
           /\ \A q \in Pid : \/ Rests(proc[q], proc'[q])
                             \/ q = t /\ proc[t].state = "STOPPED"
<1> DEFINE st == IF proc[t].state = "STOPPED" THEN "READY" ELSE proc[t].state
           rec == [proc[t] EXCEPT !.state = st]
           tab == [proc EXCEPT ![t] = rec]
<1>1. /\ current \in Pid /\ t \in Pid \ {Idle}
      /\ proc[t] \in ProcType /\ proc \in [Pid -> ProcType] /\ Idle \in Pid
  BY StepFacts, ProcessAssumption DEF Live, Tame, Typed, Idle, Pid
<1>2. st \in State
  BY <1>1, Zenon DEF State, ProcType
<1>3. rec \in ProcType /\ rec.state = st /\ rec.waiter = proc[t].waiter
  <2> HIDE DEF st
  <2> QED
    BY <1>1, <1>2, SetState, Zenon
<1>4. proc' = Return(tab, current)
  <2>1. tab = [proc EXCEPT ![t].state = IF @ = "STOPPED" THEN "READY" ELSE @]
    BY Zenon
  <2> QED
    BY <2>1, Zenon DEF KillCont, InUser
<1> HIDE DEF rec
<1>5. Tame(tab) /\ tab[t] = rec /\ \A q \in Pid \ {t} : tab[q] = proc[q]
  BY <1>1, <1>3, Zenon DEF Tame, Typed
<1> HIDE DEF tab
<1>6. Tame(proc') /\ \A q \in Pid : proc'[q].state = tab[q].state
                                    /\ proc'[q].waiter = tab[q].waiter
  <2>1. Tame(proc')
    BY <1>1, <1>4, <1>5, ReturnQuiet, Zenon DEF Quiet
  <2>2. tab[current] \in ProcType /\ tab \in [Pid -> ProcType]
    BY <1>1, <1>5, Zenon DEF Tame, Typed
  <2> QED
    BY <1>1, <1>4, <2>1, <2>2, Zenon DEF Return, ProcType
<1>7. ASSUME NEW q \in Pid, ~(q = t /\ proc[t].state = "STOPPED")
      PROVE  Rests(proc[q], proc'[q])
  <2>1. tab[q].state = proc[q].state /\ tab[q].waiter = proc[q].waiter
    BY <1>3, <1>5, <1>7, Zenon
  <2> QED
    BY <1>6, <2>1, SameRests, Zenon
<1> QED
  BY <1>6, <1>7, Zenon

(* SYS_KILL: quiet but for a SIGCONT to a stopped process. *)
LEMMA KillQuiet ==
    ASSUME Ordered, IInv, Tame(proc), NEW p \in Pid, SysKill(p)
    PROVE  /\ Tame(proc')
           /\ \A q \in Pid : q < nextPid =>
                 \/ Rests(proc[q], proc'[q])
                 \/ proc[q].state = "STOPPED" /\ InUser(p, "kill") /\ KillCont(p, q)
<1>1. InUser(p, "kill")
  BY Zenon DEF SysKill
<1>2. PICK t \in Live(proc) \ {Idle}, sig \in Signals :
          \/ KillCaught(p, t, sig) \/ KillFatal(p, t, sig)
          \/ KillStop(p, t) \/ KillCont(p, t)
  BY Zenon DEF SysKill
<1>3. t \in Pid
  BY Zenon DEF Live
<1>4. CASE KillCaught(p, t, sig)
  BY <1>1, <1>3, <1>4, KillCaughtQuiet, Zenon DEF Quiet
<1>5. CASE KillFatal(p, t, sig)
  BY <1>1, <1>5, KillFatalQuiet, Zenon DEF Quiet
<1>6. CASE KillStop(p, t)
  BY <1>1, <1>6, KillStopQuiet, Zenon DEF Quiet
<1>7. CASE KillCont(p, t)
  BY <1>1, <1>7, KillContQuiet, Zenon
<1> QED
  BY <1>2, <1>4, <1>5, <1>6, <1>7, Zenon

(* SYS_IPC_RECV and SYS_IPC_POLL. *)
LEMMA IpcRecvQuiet ==
    ASSUME Ordered, IInv, Tame(proc), NEW p \in Pid, SysIpcRecv(p) \/ SysIpcPoll(p)
    PROVE  Quiet(proc, proc')
BY StepFacts, RecvRoundQuiet, PollRoundQuiet, Zenon DEF SysIpcRecv, SysIpcPoll, InUser

(* A tick changes deadlines and alarms only; the idle process has none. *)
LEMMA TimerIrqQuiet == ASSUME IInv, Tame(proc), TimerIrq PROVE Quiet(proc, proc')
<1> DEFINE down(p) == IF proc[p].wakeup > 0 THEN proc[p].wakeup - 1 ELSE 0
           left(p) == IF proc[p].alarm > 0 THEN proc[p].alarm - 1 ELSE proc[p].alarm
           rec(p) == [proc[p] EXCEPT !.wakeup = down(p), !.alarm = left(p)]
<1>1. proc' = [p \in Pid |-> rec(p)]
  BY Zenon DEF TimerIrq
<1>2. ASSUME NEW p \in Pid
      PROVE  /\ rec(p) \in ProcType /\ rec(p).state = proc[p].state
             /\ rec(p).waiter = proc[p].waiter
             /\ proc[p].alarm = Off => rec(p).alarm = Off
  <2>1. proc[p] \in ProcType
    BY Zenon DEF Tame, Typed
  <2>2. /\ down(p) \in 0 .. MaxTicks /\ left(p) \in Off .. MaxTicks
        /\ proc[p].alarm = Off => left(p) = Off
    BY <2>1, ProcessAssumption DEF ProcType, Off
  <2> HIDE DEF down, left
  <2> QED
    BY <2>1, <2>2, Zenon DEF ProcType
<1> HIDE DEF rec
<1>3. Typed(proc') /\ \A q \in Pid : Rests(proc[q], proc'[q])
  BY <1>1, <1>2, SameRests, Zenon DEF Typed
<1>4. Idle \in Pid
  BY ProcessAssumption DEF Pid, Idle
<1>5. Lively(proc'[Idle])
  BY <1>1, <1>2, <1>4, Zenon DEF Tame, Lively, Halted
<1> QED
  BY <1>3, <1>5, Zenon DEF Quiet, Tame

(* process_reap() removes the dead and nobody else. *)
LEMMA TimerReapQuiet == ASSUME IInv, Tame(proc), TimerReap PROVE Quiet(proc, proc')
<1>1. proc' = [p \in Pid |-> IF proc[p].state = "TERMINATED" /\ p # Idle
                             THEN FreeProc ELSE proc[p]]
  BY Zenon DEF TimerReap
<1>2. Idle \in Pid /\ FreeProc \in ProcType /\ FreeProc.state = "FREE" /\ ~FreeProc.waiter
  <2>1. Idle \in Pid
    BY ProcessAssumption DEF Pid, Idle
  <2> QED
    BY <2>1, NewProcTyped, Zenon DEF FreeProc, NewProc
<1>3. Typed(proc') /\ proc'[Idle] = proc[Idle]
  BY <1>1, <1>2, Zenon DEF Tame, Typed
<1>4. ASSUME NEW q \in Pid PROVE Rests(proc[q], proc'[q])
  <2>1. proc'[q] = proc[q] \/ (proc'[q] = FreeProc /\ proc[q].state = "TERMINATED")
    BY <1>1, Zenon
  <2> QED
    BY <1>2, <2>1, Zenon DEF Rests, Halted, Ended
<1> QED
  BY <1>3, <1>4, Zenon DEF Quiet, Tame

(* The timer's scan wakes sleepers, not the dead or the stopped. *)
LEMMA WokenQuiet ==
    ASSUME IInv, Tame(proc), NEW p \in Pid
    PROVE  /\ Quiet(proc, Woken(p))
           /\ \A q \in Pid : ~Halted(proc[q]) => ~Halted(Woken(p)[q])
<1> DEFINE st == IF Asleep(p) THEN "READY" ELSE proc[p].state
           al == IF proc[p].alarm = 0 THEN Off ELSE proc[p].alarm
           rec == [proc[p] EXCEPT !.state = st, !.alarm = al]
<1>1. proc[p] \in ProcType /\ proc \in [Pid -> ProcType]
  BY Zenon DEF Tame, Typed
<1>2. /\ st \in State /\ al \in Off .. MaxTicks
      /\ proc[p].alarm = Off => al = Off
      /\ st # proc[p].state => proc[p].state = "SLEEPING" /\ st = "READY"
  <2>1. "READY" \in State /\ proc[p].state \in State
    BY <1>1, Zenon DEF State, ProcType
  <2>2. Off \in Off .. MaxTicks /\ proc[p].alarm \in Off .. MaxTicks
    BY <1>1, ProcessAssumption DEF ProcType, Off
  <2> QED
    BY <2>1, <2>2, Zenon DEF Asleep
<1>3. Woken(p) = [proc EXCEPT ![p] = rec]
  BY Zenon DEF Woken
<1> HIDE DEF st, al
<1>4. rec \in ProcType /\ rec.state = st /\ rec.alarm = al /\ rec.waiter = proc[p].waiter
  BY <1>1, <1>2, Zenon DEF ProcType
<1> HIDE DEF rec
<1>5. Rests(proc[p], rec) /\ (~Halted(proc[p]) => ~Halted(rec))
  BY <1>2, <1>4, Zenon DEF Rests, Halted, Ended
<1>6. p = Idle => Lively(rec)
  BY <1>2, <1>4, <1>5, Zenon DEF Tame, Lively
<1>7. Quiet(proc, [proc EXCEPT ![p] = rec])
  BY <1>4, <1>5, <1>6, UpdateQuiet, Zenon
<1>8. \A q \in Pid : ~Halted(proc[q]) => ~Halted([proc EXCEPT ![p] = rec][q])
  BY <1>1, <1>5, Zenon
<1> QED
  BY <1>3, <1>7, <1>8, Zenon

(* A round of the scan: a wakeup, a caught SIGALRM, a death of SIGALRM.    *)
(* The idle process has no alarm that could end it.                        *)
LEMMA TimerScanQuiet == ASSUME Ordered, IInv, Tame(proc), TimerScan PROVE Quiet(proc, proc')
<1> DEFINE p == Least(Due)
           woken == Woken(p)
<1>1. scan \notin {NoScan, EndOfScan} /\ Due # {}
  BY Zenon DEF TimerScan
<1>2. p \in Pid /\ proc[p].state # "FREE"
  <2>1. Due \subseteq Nat
    BY ProcessAssumption DEF Due, Live, Pid
  <2>2. p \in Due
    BY <1>1, <2>1, LeastIn, Zenon
  <2> QED
    BY <2>1, <2>2, Zenon DEF Due, Live
<1>3. \/ proc' = woken
      \/ proc' = Catch(woken, p, SIGALRM)
      \/ /\ proc[p].alarm = 0
         /\ \E r \in Respawn(woken, p) :
               /\ Unregister(p, r)
               /\ IF p = current THEN LeaveDead(woken, r) ELSE proc' = Bury(woken, p, r)
  BY Zenon DEF TimerScan, Woken
<1> HIDE DEF p
<1>4. Quiet(proc, woken)
  BY <1>2, WokenQuiet, Zenon
<1>5. Sound(woken, current, nextPid, services) /\ woken[p].state # "FREE"
  BY <1>1, <1>2, WokenSound, Zenon
<1> HIDE DEF woken
<1>6. Tame(woken)
  BY <1>4, Zenon DEF Quiet
<1>7. CASE proc' = woken
  BY <1>4, <1>7, Zenon
<1>8. CASE proc' = Catch(woken, p, SIGALRM)
  <2>1. SIGALRM \in Catchable
    BY Zenon DEF Catchable
  <2>2. Quiet(woken, proc')
    BY <1>2, <1>6, <1>8, <2>1, CatchQuiet, Zenon
  <2> QED
    BY <1>4, <2>2, QuietTrans, Zenon
<1>9. ASSUME proc[p].alarm = 0, NEW r \in Respawn(woken, p), Unregister(p, r),
             IF p = current THEN LeaveDead(woken, r) ELSE proc' = Bury(woken, p, r)
      PROVE  Quiet(proc, proc')
  <2>1. r \in Outcome /\ (r # "none" => nextPid \in Pid)
    BY RespawnIn, Zenon DEF IInv
  <2>2. p # Idle
    BY <1>9 DEF Tame, Lively, Off
  <2>3. Quiet(woken, proc')
    <3>1. CASE p = current
      BY <1>5, <1>6, <1>9, <2>1, <2>2, <3>1, LeaveDeadQuiet, Zenon
    <3>2. CASE p # current
      BY <1>2, <1>6, <1>9, <2>1, <2>2, <3>2, StepFacts, BuryQuiet, Zenon
    <3> QED
      BY <3>1, <3>2, Zenon
  <2> QED
    BY <1>4, <2>3, QuietTrans, Zenon
<1> QED
  BY <1>3, <1>7, <1>8, <1>9, Zenon

(* shell_handle_ctrl_c(): the foreground process dies or catches SIGINT,   *)
(* and may be reaped by the wait that follows.                             *)
LEMMA CtrlCQuiet ==
    ASSUME Ordered, IInv, Tame(proc), proc[current].pc = "user", CtrlC
    PROVE  Quiet(proc, proc')
<1> DEFINE fg == foreground
<1>1. /\ current \in Pid /\ ~Halted(proc[current]) /\ current < nextPid
      /\ fg \in Pid
  BY StepFacts, UserFacts, Zenon DEF IInv, Globals
<1>2. CASE Preempt(proc)
  BY <1>1, <1>2, PreemptQuiet, Zenon
<1>3. CASE WaitRound(Catch(proc, fg, SIGINT), current, fg, "ctrlc")
  <2> DEFINE tab == Catch(proc, fg, SIGINT)
  <2>1. SIGINT \in Catchable
    BY Zenon DEF Catchable
  <2>2. Quiet(proc, tab) /\ ~Halted(tab[current])
    BY <1>1, <2>1, CatchQuiet, Zenon
  <2>3. WaitRound(tab, current, fg, "ctrlc")
    BY <1>3, Zenon
  <2> HIDE DEF tab
  <2>4. Quiet(tab, proc')
    BY <1>1, <2>2, <2>3, WaitRoundQuiet, Zenon DEF Quiet
  <2> QED
    BY <2>2, <2>4, QuietTrans, Zenon
<1>4. ASSUME fg # 0, proc[fg].state # "FREE", NEW r \in Respawn(proc, fg),
             Unregister(fg, r),
             IF fg = current THEN LeaveDead(proc, r)
             ELSE WaitRound(Bury(proc, fg, r), current, fg, "ctrlc")
      PROVE  Quiet(proc, proc')
  <2>1. r \in Outcome /\ (r # "none" => nextPid \in Pid)
    BY RespawnIn, Zenon DEF IInv
  <2>2. fg # Idle
    BY <1>4, Zenon DEF Idle
  <2>3. CASE fg = current
    BY <1>4, <2>1, <2>2, <2>3, StepFacts, LeaveDeadQuiet, Zenon
  <2>4. CASE fg # current
    <3> DEFINE tab == Bury(proc, fg, r)
    <3>1. Quiet(proc, tab) /\ ~Halted(tab[current])
      BY <1>1, <2>1, <2>2, <2>4, StepFacts, BuryQuiet, Zenon
    <3>2. WaitRound(tab, current, fg, "ctrlc")
      BY <1>4, <2>4, Zenon
    <3> HIDE DEF tab
    <3>3. Quiet(tab, proc')
      BY <1>1, <3>1, <3>2, WaitRoundQuiet, Zenon DEF Quiet
    <3> QED
      BY <3>1, <3>3, QuietTrans, Zenon
  <2> QED
    BY <2>3, <2>4, Zenon
<1> QED
  BY <1>2, <1>3, <1>4, Zenon DEF CtrlC

(* The end of the timer handler. *)
LEMMA TimerTailQuiet == ASSUME Ordered, IInv, Tame(proc), TimerTail PROVE Quiet(proc, proc')
<1>1. proc[current].pc = "user"
  BY ProcessAssumption DEF TimerTail, IInv, EndOfScan, NoScan
<1>2. CASE CtrlC
  BY <1>1, <1>2, CtrlCQuiet, Zenon
<1>3. CASE Preempt(proc)
  BY <1>3, StepFacts, PreemptQuiet, Zenon
<1> QED
  BY <1>2, <1>3, Zenon DEF TimerTail

(* The keyboard interrupt sends a message at most. *)
LEMMA KeyCtrlCQuiet == ASSUME IInv, Tame(proc), KeyCtrlC PROVE Quiet(proc, proc')
<1>1. services["wm"] \in Pid /\ Kernel \in Pid
  BY StepFacts, ProcessAssumption DEF Kernel, Pid
<1>2. proc' = proc \/ proc' = Send(proc, services["wm"], Kernel)
  BY Zenon DEF KeyCtrlC
<1> QED
  BY <1>1, <1>2, SendQuiet, SameRests, Zenon DEF Quiet

(* The idle loop, and the continuation of a blocked call. *)
LEMMA ResumeQuiet ==
    ASSUME Ordered, IInv, Tame(proc), IdleSchedule \/ Resume
    PROVE  Quiet(proc, proc')
<1> DEFINE r == proc[current]
<1>1. CASE IdleSchedule
  BY <1>1, StepFacts, ScheduleQuiet, Zenon DEF IdleSchedule
<1>2. CASE Resume
  <2>1. /\ r \in ProcType /\ current \in Pid /\ ~Halted(r)
        /\ r.pc \in {"wait", "ctrlc"} => r.arg \in Pid \cup {Any}
    BY StepFacts, Zenon DEF IInv, Sound, Sane, Proper, Typed, Targets
  <2>2. r.arg \in Pid \cup {Any} \cup 0 .. MaxTicks
    BY <2>1, Zenon DEF ProcType
  <2>3. CASE Finish(proc)
    BY <2>1, <2>3, FinishQuiet, Zenon
  <2>4. CASE r.pc = "wait" /\ WaitRound(proc, current, r.arg, "wait")
    BY <2>1, <2>4, WaitRoundQuiet, Zenon
  <2>5. CASE r.pc = "ctrlc" /\ WaitRound(proc, current, r.arg, "ctrlc")
    BY <2>1, <2>5, WaitRoundQuiet, Zenon
  <2>6. CASE RecvRound(current)
    BY <2>1, <2>6, RecvRoundQuiet, Zenon
  <2>7. CASE PollRound(current, r.arg)
    BY <2>1, <2>2, <2>7, PollRoundQuiet, Zenon
  <2>8. CASE RpcRound(proc, current, r.arg)
    BY <2>1, <2>2, <2>8, RpcRoundQuiet, Zenon
  <2> QED
    BY <1>2, <2>3, <2>4, <2>5, <2>6, <2>7, <2>8, Zenon DEF Resume
<1> QED
  BY <1>1, <1>2, Zenon

(* What a step does to a process that is not the waiter of its mailbox: if *)
(* it has ended it stays so; if it is stopped it stays so or ends, or      *)
(* somebody sends it SIGCONT.                                              *)
Spared(q) ==
    \/ Rests(proc[q], proc'[q])
    \/ /\ proc[q].state = "STOPPED"
       /\ \E p \in Pid : InUser(p, "kill") /\ KillCont(p, q)

(* Every step of the kernel spares every process that was ever created, and *)
(* leaves the idle process out of the reach of SYS_KILL and the timer.      *)
LEMMA StepSpares ==
    ASSUME Ordered, IInv, Tame(proc), [Next]_vars
    PROVE  Tame(proc') /\ \A q \in Pid : q < nextPid => Spared(q)
<1>1. ASSUME Quiet(proc, proc')
      PROVE  Tame(proc') /\ \A q \in Pid : q < nextPid => Spared(q)
  BY <1>1, Zenon DEF Quiet, Spared
<1>2. ASSUME NEW p \in Pid, SysKill(p)
      PROVE  Tame(proc') /\ \A q \in Pid : q < nextPid => Spared(q)
  BY <1>2, KillQuiet, Zenon DEF Spared
<1>3. ASSUME NEW p \in Pid, Syscall(p), ~SysKill(p) PROVE Quiet(proc, proc')
  BY <1>3, ForkQuiet, ExecQuiet, ExitQuiet, YieldQuiet, SleepCallQuiet, WaitQuiet,
     SigactionQuiet, SigreturnQuiet, AlarmQuiet, PlainQuiet, IpcSendQuiet,
     IpcRecvQuiet, ServiceCallQuiet, Zenon
  DEF Syscall
<1>4. CASE TimerIrq \/ KeyCtrlC \/ KernelStep
  BY <1>1, <1>4, TimerIrqQuiet, KeyCtrlCQuiet, TimerScanQuiet, TimerReapQuiet,
     TimerTailQuiet, ResumeQuiet, Zenon
  DEF KernelStep
<1>5. CASE UNCHANGED vars
  BY <1>1, <1>5, SameRests, Zenon DEF vars, Quiet
<1> QED
  BY <1>1, <1>2, <1>3, <1>4, <1>5, Zenon DEF Next

(* Whoever is not free is in the list. *)
LEMMA ListedBelow == ASSUME IInv, NEW q \in Pid, proc[q].state # "FREE" PROVE q < nextPid
BY LiveBelow, Zenon DEF IInv

=============================================================================
