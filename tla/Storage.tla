------------------------------ MODULE Storage -------------------------------
(***************************************************************************)
(* The disk LufiraFS lives on (drivers/disk/): disk_init() takes the first *)
(* of AHCI, NVMe and legacy ATA that answers, and every read or write is   *)
(* one polled command to it.  AHCI and NVMe move the data by DMA through   *)
(* one bounce buffer that all calls share; ATA moves it through a port.    *)
(*                                                                         *)
(* A call is at "begin" (nothing issued), "wait" (command issued) or       *)
(* "flush" (ATA, the sector handed over); several sectors of a call go     *)
(* through the same steps one after the other, so a call moves one.  The   *)
(* controllers are external: AHCI and ATA keep one command, NVMe fetches   *)
(* from a submission queue and answers into a completion queue, whose      *)
(* entries carry the phase bit of the controller's current lap.  Waiting   *)
(* loops end in the step that sees the answer or in Timeout.               *)
(***************************************************************************)
EXTENDS Integers, Sequences

CONSTANTS Sectors, Values,
          Depth,          \* NVME_ADMIN_QDEPTH = NVME_IO_QDEPTH
          Retries,        \* NVME_IDENT_RETRIES
          LbaLimit,       \* 2^28, what the ATA registers hold
          Machines,       \* sets of controllers a machine may have
          MaxCalls, MaxTimeouts, MaxErrors

VARIABLES use,       \* the driver in use: "none" before disk_init, "absent" for no disk
          stage,     \* how far nvme_init is
          disk,      \* what the sectors hold
          bounce,    \* g_bounce_virt
          call,      \* the call being served
          hw,        \* AHCI port or ATA drive: [st, cmd, err]
          q,         \* NVMe queue pairs 0 (admin) and 1 (I/O)
          ident,     \* the Identify page has been filled
          answer,    \* what the last call returned, and whether that is so
          calls, timeouts, errors

vars == <<use, stage, disk, bounce, call, hw, q, ident, answer, calls, timeouts, errors>>

NoCmd == [op |-> "none", lba |-> 0]
NoCall == [at |-> "idle", op |-> "none", lba |-> 0, v |-> 0]
NoAnswer == [ok |-> FALSE, right |-> TRUE]

\* memset of the queue pages; the driver's and the controller's indices.
Queue == [sq |-> [i \in 0..Depth - 1 |-> NoCmd],
          cq |-> [i \in 0..Depth - 1 |-> [phase |-> 0, ok |-> TRUE]],
          tail |-> 0, head |-> 0, phase |-> 0,
          fetched |-> 0, done |-> << >>, posted |-> 0, lap |-> 1]

Init ==
    /\ use = "none" /\ stage = "off"
    /\ disk = [s \in Sectors |-> 0] /\ bounce = 0
    /\ call = NoCall /\ hw = [st |-> "idle", cmd |-> NoCmd, err |-> FALSE]
    /\ q = [i \in {0, 1} |-> Queue] /\ ident = FALSE
    /\ answer = NoAnswer /\ calls = 0 /\ timeouts = 0 /\ errors = 0

------------------------------------------------------------------------------
\* NVMe queues.

Wrap(i) == (i + 1) % Depth

submit_cmd(p, cmd) == [p EXCEPT !.sq[p.tail] = cmd, !.tail = Wrap(p.tail)]

\* The test of wait_completion's loops, and the step behind it.
PhaseSeen(p) == p.cq[p.head].phase = p.phase
Advance(p) == [p EXCEPT !.head = Wrap(p.head),
                        !.phase = IF Wrap(p.head) = 0 THEN 1 - p.phase ELSE p.phase]

\* The admin command nvme_init sends at each stage.
Admin == [ident |-> "identify", cq |-> "createcq", sq |-> "createsq"]

\* nvme_init after the admin command was answered: Identify is sent again while the
\* page is empty; the queues are created one after the other.
AfterAdmin(ok, attempt) ==
    IF ~ok THEN "failed"
    ELSE CASE stage = "ident" -> IF ident THEN "cq"
                                 ELSE IF attempt < Retries THEN "ident" ELSE "failed"
           [] stage = "cq" -> "sq"
           [] stage = "sq" -> "up"

\* ata_detect finds the drive or not; there is nothing behind it to fall back to.
Fallback(machine) == IF "ata" \in machine THEN "ata" ELSE "absent"

\* disk_init: a controller that is absent or does not come up (no BAR, no memory in a
\* row for the bounce buffer, a port that does not stop, a controller not ready) is
\* passed over.
disk_init ==
    /\ use = "none"
    /\ \E machine \in Machines : \E up \in SUBSET (machine \cap {"ahci", "nvme"}) :
        IF "ahci" \in up THEN use' = "ahci" /\ stage' = "up" /\ UNCHANGED call
        ELSE IF "nvme" \in up
             THEN use' = "nvme" /\ stage' = "ident" /\ call' = [NoCall EXCEPT !.at = "begin", !.lba = 1]
        ELSE use' = Fallback(machine) /\ stage' = "up" /\ UNCHANGED call
    /\ UNCHANGED <<disk, bounce, hw, q, ident, answer, calls, timeouts, errors>>

\* admin_command in nvme_init, the page of Identify wiped before it.  call.lba counts
\* the attempts.
AdminSend ==
    /\ use = "nvme" /\ stage \in DOMAIN Admin /\ call.at = "begin"
    /\ q' = [q EXCEPT ![0] = submit_cmd(q[0], [op |-> Admin[stage], lba |-> 0])]
    /\ call' = [call EXCEPT !.at = "wait"]
    /\ ident' = (ident /\ stage # "ident")
    /\ UNCHANGED <<use, stage, disk, bounce, hw, answer, calls, timeouts, errors>>

AdminDone(ok, p) ==
    /\ use = "nvme" /\ stage \in DOMAIN Admin /\ call.at = "wait"
    /\ stage' = AfterAdmin(ok, call.lba)
    /\ q' = [q EXCEPT ![0] = p]
    /\ use' = IF stage' = "failed" THEN "absent" ELSE use
    /\ call' = IF stage' \in {"failed", "up"} THEN NoCall
               ELSE [NoCall EXCEPT !.at = "begin",
                                   !.lba = IF stage' = "ident" THEN call.lba + 1 ELSE 1]
    /\ UNCHANGED <<disk, bounce, hw, ident, answer, calls, errors>>

------------------------------------------------------------------------------
\* disk_read_sectors and disk_write_sectors.

\* A write fills the bounce buffer before anything is waited for.
Begin(op, s, v) ==
    /\ use \in {"ahci", "nvme", "ata"} /\ stage = "up" /\ call = NoCall
    /\ calls < MaxCalls /\ calls' = calls + 1
    /\ call' = [at |-> "begin", op |-> op, lba |-> s, v |-> v]
    /\ bounce' = IF op = "write" /\ use # "ata" THEN v ELSE bounce
    /\ answer' = NoAnswer
    /\ UNCHANGED <<use, stage, disk, hw, q, ident, timeouts, errors>>

ata_select_drive_lba(lba) == lba % LbaLimit

\* ahci_issue_command up to PxCI = 1, behind ahci_wait_tfd_free; ATA the same with
\* ata_wait_ready; NVMe asks nothing.  A halted port takes no new command.
Issue ==
    /\ stage = "up" /\ call.at = "begin"
    /\ LET lba == IF use = "ata" THEN ata_select_drive_lba(call.lba) ELSE call.lba
           cmd == [op |-> call.op, lba |-> lba]
       IN  IF use = "nvme" THEN q' = [q EXCEPT ![1] = submit_cmd(q[1], cmd)] /\ UNCHANGED hw
           ELSE /\ hw.st # "busy" /\ UNCHANGED q
                /\ hw' = IF hw.st = "halted" THEN hw ELSE [st |-> "busy", cmd |-> cmd, err |-> FALSE]
    /\ call' = [call EXCEPT !.at = "wait"]
    /\ UNCHANGED <<use, stage, disk, bounce, ident, answer, calls, timeouts, errors>>

\* The call returns; a read that returns 0 returns `got'.
Return(ok, got) ==
    /\ call' = NoCall
    /\ answer' = [ok |-> ok,
                  right |-> ok => IF call.op = "read" THEN got = disk[call.lba]
                                  ELSE disk'[call.lba] = call.v]

\* Fault: the command is over, whatever its status.
ahci_done_any == hw.st = "idle"

\* CI is clear, and neither PxIS.TFES nor PxTFD.ERR is set.
ahci_done == hw.st = "idle" /\ ~hw.err

AhciDone ==
    /\ use = "ahci" /\ call.at = "wait" /\ hw.st = "idle"
    /\ UNCHANGED <<use, stage, disk, bounce, hw, q, ident, calls, timeouts, errors>>
    /\ Return(ahci_done, bounce)

NvmeDone ==
    /\ use = "nvme" /\ stage = "up" /\ call.at = "wait" /\ PhaseSeen(q[1])
    /\ q' = [q EXCEPT ![1] = Advance(q[1])]
    /\ UNCHANGED <<use, stage, disk, bounce, hw, ident, calls, timeouts, errors>>
    /\ Return(q[1].cq[q[1].head].ok, bounce)

\* ata_wait_drq: an error ends the call, else the sector goes through the port.  A
\* write then waits for BSY again and returns 0 whatever comes of it.
AtaDone ==
    /\ use = "ata" /\ call.at = "wait" /\ hw.st = "drq"
    /\ IF call.op = "write" /\ ~hw.err
       THEN hw' = [hw EXCEPT !.st = "busy"] /\ bounce' = call.v
            /\ call' = [call EXCEPT !.at = "flush"] /\ UNCHANGED <<disk, answer>>
       ELSE hw' = [hw EXCEPT !.st = "idle"] /\ UNCHANGED <<bounce, disk>>
            /\ Return(~hw.err, bounce)
    /\ UNCHANGED <<use, stage, q, ident, calls, timeouts, errors>>

AtaFlushed ==
    /\ call.at = "flush" /\ hw.st = "idle"
    /\ UNCHANGED <<use, stage, disk, bounce, hw, q, ident, calls, timeouts, errors>>
    /\ Return(TRUE, bounce)

\* A waiting loop runs out.  The command stays with the controller.
Timeout ==
    /\ timeouts < MaxTimeouts /\ timeouts' = timeouts + 1
    /\ \/ /\ stage = "up" /\ hw.st \in {"busy", "halted"} /\ use # "nvme"
          /\ call.at \in {"begin", "wait", "flush"} /\ (call.at = "begin" => hw.st = "busy")
          /\ UNCHANGED <<use, stage, disk, bounce, hw, q, ident, calls, errors>>
          /\ Return(call.at = "flush", bounce)
       \/ /\ stage = "up" /\ use = "nvme" /\ call.at = "wait" /\ ~PhaseSeen(q[1])
          /\ UNCHANGED <<use, stage, disk, bounce, hw, q, ident, calls, errors>>
          /\ Return(FALSE, bounce)
       \/ ~PhaseSeen(q[0]) /\ AdminDone(FALSE, q[0])

AdminAnswered == PhaseSeen(q[0]) /\ UNCHANGED timeouts
                 /\ AdminDone(q[0].cq[q[0].head].ok, Advance(q[0]))

------------------------------------------------------------------------------
\* The controllers.

\* The data of a command moves, or the command fails.
Moves(cmd, ok) ==
    /\ errors' = errors + (IF ok THEN 0 ELSE 1) /\ errors' <= MaxErrors
    /\ bounce' = IF ok /\ cmd.op = "read" THEN disk[cmd.lba] ELSE bounce
    /\ disk' = IF ok /\ cmd.op = "write" THEN [disk EXCEPT ![cmd.lba] = bounce] ELSE disk
    /\ ident' = (ident \/ (ok /\ cmd.op = "identify"))

\* AHCI finishes: PxCI is cleared, or after an error the port halts with it set.
\* ATA reaches DRQ, and for a write, once it has the sector, is done.
PortWorks ==
    /\ hw.st = "busy"
    /\ \E ok \in BOOLEAN :
        IF use = "ata" /\ hw.cmd.op = "write" /\ call.at # "flush"
        THEN /\ hw' = [hw EXCEPT !.st = "drq", !.err = ~ok]
             /\ errors' = errors + (IF ok THEN 0 ELSE 1) /\ errors' <= MaxErrors
             /\ UNCHANGED <<bounce, disk, ident>>
        ELSE /\ \E st \in IF use = "ata" THEN {IF hw.cmd.op = "read" THEN "drq" ELSE "idle"}
                          ELSE {"idle"} \cup (IF ok THEN {} ELSE {"halted"}) :
                    hw' = [hw EXCEPT !.st = st, !.err = ~ok]
             /\ Moves(hw.cmd, ok)
    /\ UNCHANGED <<use, stage, call, q, answer, calls, timeouts>>

\* A command is fetched and carried out; queue 1 is taken to exist when it is used.
Fetch(i) ==
    LET p == q[i] cmd == p.sq[p.fetched] IN
    /\ use = "nvme" /\ p.fetched # p.tail /\ Len(p.done) < Depth
    /\ \E ok \in BOOLEAN :
        /\ Moves(cmd, ok)
        /\ q' = [q EXCEPT ![i].fetched = Wrap(p.fetched), ![i].done = Append(@, ok)]
    /\ UNCHANGED <<use, stage, call, hw, answer, calls, timeouts>>

\* An entry is posted unless the queue looks full.
Post(i) ==
    LET p == q[i] IN
    /\ p.done # << >> /\ Wrap(p.posted) # p.head
    /\ q' = [q EXCEPT ![i].cq[p.posted] = [phase |-> p.lap, ok |-> Head(p.done)],
                      ![i].done = Tail(p.done), ![i].posted = Wrap(p.posted),
                      ![i].lap = IF Wrap(p.posted) = 0 THEN 1 - p.lap ELSE p.lap]
    /\ UNCHANGED <<use, stage, disk, bounce, call, hw, ident, answer, calls, timeouts, errors>>

Next ==
    \/ disk_init \/ AdminSend \/ AdminAnswered
    \/ \E s \in Sectors : Begin("read", s, 0) \/ \E v \in Values : Begin("write", s, v)
    \/ Issue \/ AhciDone \/ NvmeDone \/ AtaDone \/ AtaFlushed \/ Timeout
    \/ PortWorks
    \/ \E i \in {0, 1} : Fetch(i) \/ Post(i)

Spec == Init /\ [][Next]_vars

------------------------------------------------------------------------------
\* A disk call of the AHCI driver that returns 0 has done what it was asked for: a
\* read returns what the sector holds, a write has put its data there, although
\* commands fail and the buffer is shared, as long as no command has been given up
\* after a timeout; so does the ATA driver, whose writes do not look at errors.
AnswerTrue ==
    (timeouts = 0 /\ (use = "ahci" \/ (use = "ata" /\ errors = 0))) => answer.right

\* The same for NVMe, as wait_completion has it (nvme.c:115).
NvmeAnswerTrue == (use = "nvme" /\ timeouts = 0 /\ errors = 0) => answer.right
=============================================================================
