----------------------------- MODULE MCProcess -----------------------------
(* Process for TLC: the constants are given in MCProcess_*.cfg. *)
EXTENDS Process

(***************************************************************************)
(* FairSpec for programs that fork, sleep, kill and catch signals: with    *)
(* the Calls of MCProcess_live.cfg no other system call can be made, so    *)
(* that LiveNext is Next.                                                  *)
(***************************************************************************)
LiveNext ==
    \/ \E p \in Pid : SysFork(p) \/ SysSleep(p) \/ SysKill(p) \/ SysSigaction(p)
    \/ TimerIrq
    \/ KernelStep

LiveSpec == Init /\ [][LiveNext]_vars /\ Fairness
=============================================================================
