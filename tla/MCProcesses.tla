---------------------------- MODULE MCProcesses -----------------------------
(***************************************************************************)
(* Module Process for TLC, in three instances that are checked side by     *)
(* side: one is chosen at the start.  Each has the system calls whose      *)
(* interplay is its question; all of them at once are out of TLC's reach.  *)
(*   "ipc"     mailboxes, polling and service calls: the constants of      *)
(*             MCProcesses.cfg;                                            *)
(*   "life"    fork, exit, wait, sleep and kill, with allocation failures; *)
(*   "signal"  handlers, alarms, Ctrl+C, exec and the foreground process,  *)
(*             from when the first shell has exited and a second one runs. *)
(* The properties are those of Process; they do not depend on the          *)
(* constants in which the instances differ.                                *)
(***************************************************************************)
EXTENDS Process

VARIABLE which

Life == INSTANCE Process WITH
    Timeslice <- 2, Oom <- TRUE,
    Calls <- {"fork", "exit", "wait", "sleep", "yield", "kill"},
    Signals <- {9, 18, 19}

Signal == INSTANCE Process WITH
    Calls <- {"fork", "exec", "exit", "wait", "foreground", "ctrlc", "sigaction",
              "sigreturn", "alarm", "other", "kill"},
    Signals <- {2}, Handled <- {2, 14}

SecondShell ==
    /\ proc = [p \in Pid |-> IF p = Idle THEN NewProc(Idle, FALSE)
                             ELSE IF p = 2 THEN [NewProc(1, TRUE) EXCEPT !.state = "RUNNING"]
                             ELSE FreeProc]
    /\ current = 2 /\ nextPid = 3 /\ foreground = 0
    /\ services = [s \in Service |-> 0]
    /\ ctrlc = FALSE /\ slice = Timeslice /\ scan = NoScan

MCInit ==
    \/ which = "ipc" /\ Init
    \/ which = "life" /\ Life!Init
    \/ which = "signal" /\ SecondShell

MCNext ==
    /\ UNCHANGED which
    /\ \/ which = "ipc" /\ Next
       \/ which = "life" /\ Life!Next
       \/ which = "signal" /\ Signal!Next

MCSpec == MCInit /\ [][MCNext]_<<vars, which>>
=============================================================================
