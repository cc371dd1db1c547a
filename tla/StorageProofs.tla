--------------------------- MODULE StorageProofs ----------------------------
(***************************************************************************)
(* AnswerTrue of module Storage for any set of sectors and values, and any *)
(* number of calls, errors and timeouts.                                   *)
(***************************************************************************)
EXTENDS Storage, TLAPS

(* The time a leaf may take: SMT first, then Zenon. *)
USE SMTT(60), ZenonT(60)

(* The sectors of the partition are within reach of the 28-bit address of  *)
(* the legacy ATA registers, which ata_select_drive_lba() cuts off.        *)
SectorsFit == LbaLimit \in Nat \ {0} /\ Sectors \subseteq 0 .. LbaLimit - 1

(* The cases AnswerTrue is about. *)
Plain == timeouts = 0 /\ (use = "ahci" \/ (use = "ata" /\ errors = 0))

(* The command the port works on is the one of the call being served. *)
OwnCommand == hw.cmd.op = call.op /\ hw.cmd.lba = call.lba

(* The call has been carried out. *)
Carried == IF call.op = "read" THEN bounce = disk[call.lba] ELSE disk[call.lba] = call.v

(* AHCI: no command is left over from an earlier call, so the bounce       *)
(* buffer belongs to the call from the moment a write has filled it.       *)
AhciInOrder ==
    /\ call.at # "flush" /\ hw.st \in {"idle", "busy", "halted"}
    /\ call.op = "write" /\ (call.at = "begin" \/ (call.at = "wait" /\ hw.st = "busy")) =>
          bounce = call.v
    /\ call.at = "wait" /\ hw.st = "idle" /\ ~hw.err => Carried

(* ATA: the drive asks for the sector or has it ready, then is done. *)
AtaInOrder ==
    /\ hw.st \in {"idle", "busy", "drq"} /\ ~hw.err
    /\ call.at = "wait" => hw.st \in {"busy", "drq"} /\ OwnCommand
    /\ call.at = "wait" /\ hw.st = "drq" /\ call.op = "read" => Carried
    /\ call.at = "flush" => /\ call.op = "write" /\ hw.st \in {"idle", "busy"}
                            /\ hw.st = "busy" => bounce = call.v
                            /\ hw.st = "idle" => Carried

(* Records, sectors and counters are what they should be. *)
Calls == [at : {"idle", "begin", "wait", "flush"}, op : {"none", "read", "write"},
          lba : Int, v : Values \cup {0}]
Ports == [st : {"idle", "busy", "drq", "halted"},
          cmd : [op : {"none", "read", "write"}, lba : Int], err : BOOLEAN]

Shape ==
    /\ SectorsFit
    /\ DOMAIN disk = Sectors
    /\ hw \in Ports /\ call \in Calls
    /\ timeouts \in Nat /\ errors \in Nat
    /\ use = "none" => call = NoCall /\ hw.st = "idle" /\ ~hw.err /\ answer = NoAnswer

InOrder ==
    /\ answer.right
    /\ stage = "up"
    /\ call.at = "idle" => call = NoCall
    /\ call.at # "idle" => call.op \in {"read", "write"} /\ call.lba \in Sectors
    /\ hw.st = "busy" => call.at \in {"wait", "flush"} /\ OwnCommand
    /\ use = "ahci" => AhciInOrder
    /\ use = "ata" => AtaInOrder

IInv == Shape /\ (Plain => InOrder)

(* An address that fits is not cut off. *)
LEMMA ModFits ==
    ASSUME NEW n \in Nat \ {0}, NEW a \in Int
    PROVE  a % n \in Int /\ (a \in 0 .. n - 1 => a % n = a)
BY Z3

(* What the updates of a call's record give. *)
LEMMA CallUpdate ==
    ASSUME NEW c \in Calls, NEW at \in {"begin", "wait", "flush"}
    PROVE  LET d == [c EXCEPT !.at = at]
           IN  d \in Calls /\ d.at = at /\ d.op = c.op /\ d.lba = c.lba /\ d.v = c.v
BY DEF Calls

LEMMA NoCallOK == NoCall \in Calls
BY DEF Calls, NoCall

LEMMA AttemptOK ==
    ASSUME NEW c \in Calls, NEW n \in Int
    PROVE  [c EXCEPT !.at = "begin", !.lba = n] \in Calls
BY Zenon DEF Calls

(* ... and those of the port. *)
LEMMA HwMove ==
    ASSUME NEW h \in Ports, NEW st \in {"idle", "busy", "drq", "halted"}
    PROVE  LET g == [h EXCEPT !.st = st]
           IN  g \in Ports /\ g.st = st /\ g.cmd = h.cmd /\ g.err = h.err
BY DEF Ports

LEMMA HwUpdate ==
    ASSUME NEW h \in Ports, NEW st \in {"idle", "busy", "drq", "halted"}, NEW err \in BOOLEAN
    PROVE  LET g == [h EXCEPT !.st = st, !.err = err]
           IN  g \in Ports /\ g.st = st /\ g.cmd = h.cmd /\ g.err = err
BY Zenon DEF Ports

(* The data of a command moves, or the command fails. *)
LEMMA MovesFacts ==
    ASSUME Shape, NEW cmd, NEW ok \in BOOLEAN, Moves(cmd, ok)
    PROVE  /\ DOMAIN disk' = DOMAIN disk /\ errors' \in Nat
           /\ errors' = 0 => errors = 0 /\ ok
           /\ ok /\ cmd.op = "read" => bounce' = disk[cmd.lba] /\ disk' = disk
           /\ ok /\ cmd.op = "write" => bounce' = bounce /\ disk' = [disk EXCEPT ![cmd.lba] = bounce]
           /\ ~ok => bounce' = bounce /\ disk' = disk
<1>1. CASE ok
  BY <1>1 DEF Moves, Shape
<1>2. CASE ~ok
  BY <1>2 DEF Moves, Shape
<1> QED
  BY <1>1, <1>2

(* The rest of Shape where use is not "none" and the disk is written at    *)
(* most.                                                                   *)
LEMMA ShapeFrom ==
    ASSUME Shape, call' \in Calls, hw' \in Ports, use' # "none", DOMAIN disk' = DOMAIN disk,
           timeouts' \in Nat, errors' \in Nat
    PROVE  Shape'
BY DEF Shape, SectorsFit

(* disk_init() has not run yet. *)
LEMMA InitOK == SectorsFit /\ Init => IInv
BY DEF SectorsFit, Init, IInv, Shape, Plain, NoCall, NoAnswer, NoCmd, Calls, Ports

LEMMA DiskInitOK == ASSUME IInv, disk_init PROVE IInv'
<1> USE DEF IInv
<1>0. call' \in Calls /\ use' # "none"
  <2>1. \/ use' = "nvme" /\ call' = [NoCall EXCEPT !.at = "begin", !.lba = 1]
        \/ use' \in {"ahci", "ata", "absent"} /\ call' = call
    BY DEF disk_init, Fallback
  <2>2. 1 \in Int
    OBVIOUS
  <2>3. [NoCall EXCEPT !.at = "begin", !.lba = 1] \in Calls
    BY <2>2, NoCallOK, AttemptOK, Zenon
  <2> QED
    BY <2>1, <2>3 DEF Shape
<1>1. Shape'
  BY <1>0, ShapeFrom DEF Shape, disk_init
<1>2. ASSUME Plain' PROVE InOrder'
  BY <1>1, <1>2 DEF Shape, disk_init, Plain, InOrder, AhciInOrder, AtaInOrder, NoCall, NoAnswer, Fallback
<1> QED
  BY <1>1, <1>2

(* nvme_init(): another driver's business. *)
LEMMA AdminDoneOK ==
    ASSUME Shape, NEW ok, NEW p, AdminDone(ok, p)
    PROVE  call' \in Calls /\ use' \in {"nvme", "absent"} /\ UNCHANGED <<disk, hw, errors>>
<1> DEFINE n == IF stage' = "ident" THEN call.lba + 1 ELSE 1
<1>1. n \in Int
  BY DEF Shape, Calls
<1>2. [NoCall EXCEPT !.at = "begin", !.lba = n] \in Calls
  BY <1>1, NoCallOK, AttemptOK, Zenon
<1>3. call' = NoCall \/ call' = [NoCall EXCEPT !.at = "begin", !.lba = n]
  BY DEF AdminDone
<1> QED
  BY <1>2, <1>3, NoCallOK DEF AdminDone

LEMMA AdminOK == ASSUME IInv, AdminSend \/ AdminAnswered PROVE IInv'
<1> USE DEF IInv
<1>1. CASE AdminSend
  <2>1. call' \in Calls
    BY <1>1, CallUpdate, Zenon DEF AdminSend, Shape
  <2> QED
    BY <1>1, <2>1, ShapeFrom DEF AdminSend, Shape, Plain
<1>2. CASE AdminAnswered
  <2>1. call' \in Calls /\ use' \in {"nvme", "absent"} /\ UNCHANGED <<disk, hw, errors, timeouts>>
    BY <1>2, AdminDoneOK DEF AdminAnswered
  <2> QED
    BY <2>1, ShapeFrom DEF Shape, Plain
<1> QED
  BY <1>1, <1>2

(* disk_read_sectors(), disk_write_sectors(): the port is idle or halted,  *)
(* as the call before waited for it.                                       *)
LEMMA BeginOK ==
    ASSUME IInv, NEW op \in {"read", "write"}, NEW s \in Sectors, NEW v \in Values \cup {0}, Begin(op, s, v)
    PROVE  IInv'
<1> USE DEF IInv
<1>1. Shape'
  BY ShapeFrom DEF Shape, Begin, Calls, NoCall, SectorsFit
<1>2. ASSUME Plain' PROVE InOrder'
  BY <1>2 DEF Shape, Begin, Plain, InOrder, AhciInOrder, AtaInOrder, NoCall, NoAnswer, OwnCommand, Carried
<1> QED
  BY <1>1, <1>2

(* ahci_issue_command() and its ATA counterpart *)
LEMMA IssueOK == ASSUME IInv, Issue PROVE IInv'
<1> USE DEF IInv
<1>0. hw' \in Ports /\ call' \in Calls /\ use # "none"
  <2>1. call' \in Calls /\ use # "none"
    <3>1. use # "none"
      BY DEF Shape, Issue, NoCall
    <3>2. call' \in Calls
      BY CallUpdate, Zenon DEF Shape, Issue
    <3> QED
      BY <3>1, <3>2
  <2>2. ata_select_drive_lba(call.lba) \in Int /\ call.lba \in Int /\ call.op \in {"none", "read", "write"}
    BY ModFits DEF Shape, Calls, ata_select_drive_lba, SectorsFit
  <2>3. \A lba \in Int : [st |-> "busy", cmd |-> [op |-> call.op, lba |-> lba], err |-> FALSE] \in Ports
    BY <2>2 DEF Ports
  <2> QED
    BY <2>1, <2>2, <2>3 DEF Issue, Shape
<1>1. Shape'
  BY <1>0, ShapeFrom DEF Shape, Issue
<1>2. ASSUME Plain' PROVE InOrder'
  <2>1. InOrder /\ use' = use /\ use # "nvme" /\ call.lba \in Sectors
    BY <1>2 DEF Issue, Plain, InOrder
  <2>2. ata_select_drive_lba(call.lba) = call.lba
    BY <2>1, ModFits DEF ata_select_drive_lba, Shape, Calls, SectorsFit
  <2>3. /\ hw.st # "busy"
        /\ hw' = IF hw.st = "halted" THEN hw
                 ELSE [st |-> "busy", cmd |-> [op |-> call.op, lba |-> call.lba], err |-> FALSE]
    BY <2>1, <2>2 DEF Issue
  <2>4. call'.at = "wait" /\ call'.op = call.op /\ call'.lba = call.lba /\ call'.v = call.v
    BY CallUpdate DEF Issue, Shape
  <2> QED
    BY <2>1, <2>3, <2>4 DEF Issue, Plain, InOrder, AhciInOrder, AtaInOrder, OwnCommand, Carried
<1> QED
  BY <1>1, <1>2

(* The end of a call *)
LEMMA AnswerOK == ASSUME IInv, AhciDone \/ AtaFlushed PROVE IInv'
<1> USE DEF IInv
<1>1. Shape'
  BY NoCallOK, ShapeFrom DEF Shape, AhciDone, AtaFlushed, Return, NoCall
<1>2. ASSUME Plain' PROVE InOrder'
  <2>1. InOrder /\ hw.st = "idle" /\ UNCHANGED <<use, stage, disk, bounce, hw>> /\ call' = NoCall
    BY <1>2 DEF Plain, AhciDone, AtaFlushed, Return
  <2>2. answer'.right
    <3>1. CASE AhciDone
      <4>1. ahci_done => Carried
        BY <1>2, <2>1, <3>1 DEF InOrder, AhciInOrder, AhciDone, ahci_done
      <4> QED
        BY <2>1, <3>1, <4>1, Zenon DEF AhciDone, Return, Carried
    <3>2. CASE AtaFlushed
      <4>1. Carried /\ call.op = "write"
        BY <1>2, <2>1, <3>2 DEF Plain, InOrder, AhciInOrder, AtaInOrder, AtaFlushed
      <4> QED
        BY <2>1, <3>2, <4>1, Zenon DEF AtaFlushed, Return, Carried
    <3> QED
      BY <3>1, <3>2
  <2> QED
    BY <1>2, <2>1, <2>2 DEF InOrder, AhciInOrder, AtaInOrder, OwnCommand, Carried, NoCall
<1> QED
  BY <1>1, <1>2

(* ata_wait_drq() *)
LEMMA AtaDoneOK == ASSUME IInv, AtaDone PROVE IInv'
<1> USE DEF IInv
<1>1. CASE call.op = "write" /\ ~hw.err
  <2>1. hw' \in Ports /\ hw'.st = "busy" /\ hw'.cmd = hw.cmd /\ hw'.err = hw.err
    <3>1. hw' = [hw EXCEPT !.st = "busy"] /\ hw \in Ports
      BY <1>1 DEF AtaDone, Shape
    <3> QED
      BY <3>1, HwMove, Zenon
  <2>2. /\ call' \in Calls /\ call'.at = "flush" /\ call'.op = call.op
        /\ call'.lba = call.lba /\ call'.v = call.v
    <3>1. call' = [call EXCEPT !.at = "flush"] /\ call \in Calls
      BY <1>1 DEF AtaDone, Shape
    <3> QED
      BY <3>1, CallUpdate, Zenon
  <2>3. UNCHANGED <<use, stage, disk, answer, timeouts, errors>> /\ bounce' = call.v /\ use = "ata"
    BY <1>1 DEF AtaDone
  <2>4. Shape'
    BY <2>1, <2>2, <2>3, ShapeFrom DEF Shape
  <2>5. ASSUME Plain' PROVE InOrder'
    BY <1>1, <2>1, <2>2, <2>3, <2>5 DEF Plain, AtaDone, InOrder, AtaInOrder, OwnCommand
  <2> QED
    BY <2>4, <2>5
<1>2. CASE ~(call.op = "write" /\ ~hw.err)
  <2>1. hw' \in Ports /\ hw'.st = "idle" /\ hw'.cmd = hw.cmd /\ hw'.err = hw.err
    <3>1. hw' = [hw EXCEPT !.st = "idle"] /\ hw \in Ports
      BY <1>2 DEF AtaDone, Shape
    <3> QED
      BY <3>1, HwMove, Zenon
  <2>2. UNCHANGED <<use, stage, disk, bounce, timeouts, errors>> /\ call' = NoCall /\ use = "ata"
    BY <1>2 DEF AtaDone, Return
  <2>3. Shape'
    BY <2>1, <2>2, NoCallOK, ShapeFrom DEF Shape
  <2>4. ASSUME Plain' PROVE InOrder'
    <3>1. InOrder /\ AtaInOrder
      BY <2>2, <2>4 DEF Plain, InOrder
    <3>2. call.op = "read" /\ Carried
      BY <1>2, <3>1 DEF AtaDone, InOrder, AtaInOrder
    <3>3. Return(~hw.err, bounce)
      BY <1>2 DEF AtaDone
    <3>4. answer'.right
      BY <2>2, <3>2, <3>3, Zenon DEF Return, Carried
    <3> QED
      BY <2>1, <2>2, <3>1, <3>4 DEF InOrder, AtaInOrder, NoCall
  <2> QED
    BY <2>3, <2>4
<1> QED
  BY <1>1, <1>2

(* From a timeout on nothing is claimed. *)
LEMMA TimeoutOK == ASSUME IInv, Timeout PROVE IInv'
<1> USE DEF IInv
<1>1. ~Plain'
  BY DEF Timeout, Plain, Shape
<1>2. call' \in Calls /\ use' # "none" /\ UNCHANGED <<disk, hw, errors>>
  <2>1. CASE AdminDone(FALSE, q[0])
    BY <2>1, AdminDoneOK, Zenon DEF AdminDone
  <2>2. CASE call' = NoCall /\ UNCHANGED <<use, disk, hw, errors>> /\ call.at # "idle"
    BY <2>2, NoCallOK DEF Shape, NoCall
  <2> QED
    BY <2>1, <2>2, Zenon DEF Timeout, Return, Shape
<1>3. Shape'
  BY <1>2, ShapeFrom DEF Shape, Timeout
<1> QED
  BY <1>1, <1>3

(* NVMe keeps to its own queues. *)
LEMMA NvmeOK == ASSUME IInv, NvmeDone \/ \E i \in {0, 1} : Fetch(i) \/ Post(i) PROVE IInv'
<1> USE DEF IInv
<1>1. CASE NvmeDone
  BY <1>1, NoCallOK, ShapeFrom, Zenon DEF NvmeDone, Return, Shape, Plain
<1>2. ASSUME NEW i \in {0, 1}, Fetch(i) PROVE IInv'
  <2>1. use' = "nvme" /\ UNCHANGED <<call, hw, timeouts>>
    BY <1>2, Zenon DEF Fetch
  <2>2. DOMAIN disk' = DOMAIN disk /\ errors' \in Nat
    BY <1>2, MovesFacts, Zenon DEF Fetch
  <2> QED
    BY <2>1, <2>2, ShapeFrom, Zenon DEF Shape, Plain
<1>3. ASSUME NEW i \in {0, 1}, Post(i) PROVE IInv'
  BY <1>3, ZenonT(120) DEF Post, Shape, Plain, InOrder, AhciInOrder, AtaInOrder,
                          OwnCommand, Carried, NoCall, SectorsFit
<1> QED
  BY <1>1, <1>2, <1>3, Zenon

(* The port carries out the command of the call, or fails. *)
LEMMA PortOK == ASSUME IInv, PortWorks PROVE IInv'
<1> USE DEF IInv
<1> DEFINE asks == use = "ata" /\ hw.cmd.op = "write" /\ call.at # "flush"
<1>1. hw.st = "busy" /\ UNCHANGED <<use, stage, call, q, answer, calls, timeouts>> /\ use # "none"
  BY ZenonT(30) DEF PortWorks, Shape
<1>2. PICK ok \in BOOLEAN, st \in {"idle", "drq", "halted"} :
        /\ hw' = [hw EXCEPT !.st = st, !.err = ~ok]
        /\ asks => /\ st = "drq" /\ errors' = errors + (IF ok THEN 0 ELSE 1)
                   /\ UNCHANGED <<bounce, disk>>
        /\ ~asks => Moves(hw.cmd, ok)
        /\ ~asks /\ use = "ata" => st = IF hw.cmd.op = "read" THEN "drq" ELSE "idle"
        /\ use # "ata" => st \in {"idle", "halted"} /\ (ok => st = "idle")
  BY Zenon DEF PortWorks
<1>3. PICK err \in BOOLEAN : err = ~ok
  BY Zenon
<1>4. /\ hw' \in Ports /\ hw'.st = st /\ hw'.cmd = hw.cmd /\ hw'.err = err
      /\ err <=> ~ok
  <2>1. hw' = [hw EXCEPT !.st = st, !.err = err]
    BY <1>2, <1>3
  <2>2. hw \in Ports
    BY DEF Shape
  <2>3. hw' \in Ports /\ hw'.st = st /\ hw'.cmd = hw.cmd /\ hw'.err = err
    <3>1. st \in {"idle", "busy", "drq", "halted"}
      OBVIOUS
    <3> DEFINE g == [hw EXCEPT !.st = st, !.err = err]
    <3>2. g \in Ports /\ g.st = st /\ g.cmd = hw.cmd /\ g.err = err
      BY <2>2, <3>1, Zenon DEF Ports
    <3> QED
      BY <2>1, <3>2, Zenon
  <2>4. err <=> ~ok
    BY <1>3, Zenon
  <2> QED
    BY <2>3, <2>4
<1>5. DOMAIN disk' = DOMAIN disk /\ errors' \in Nat /\ (errors' = 0 => errors = 0 /\ ok)
  <2>1. CASE asks
    <3>1. CASE ok
      BY <1>2, <2>1, <3>1 DEF Shape
    <3>2. CASE ~ok
      BY <1>2, <2>1, <3>2 DEF Shape
    <3> QED
      BY <3>1, <3>2
  <2>2. CASE ~asks
    BY <1>2, <2>2, MovesFacts
  <2> QED
    BY <2>1, <2>2
<1>6. Shape'
  BY <1>1, <1>4, <1>5, ShapeFrom DEF Shape
<1>7. ASSUME Plain' PROVE InOrder'
  <2>1. InOrder /\ OwnCommand /\ call.at \in {"wait", "flush"} /\ call.op \in {"read", "write"}
        /\ call.lba \in DOMAIN disk
    BY <1>1, <1>5, <1>7 DEF Plain, InOrder, Shape
  <2>2. ~asks /\ ok => Carried' \/ (call.op = "write" /\ bounce # call.v)
    <3> SUFFICES ASSUME ~asks, ok PROVE Carried' \/ (call.op = "write" /\ bounce # call.v)
      OBVIOUS
    <3>1. Moves(hw.cmd, ok)
      BY <1>2, Zenon
    <3>2. /\ hw.cmd.op = "read" => bounce' = disk[hw.cmd.lba] /\ disk' = disk
          /\ hw.cmd.op = "write" => disk' = [disk EXCEPT ![hw.cmd.lba] = bounce]
      BY <3>1, MovesFacts, Zenon
    <3> QED
      BY <1>1, <2>1, <3>2 DEF OwnCommand, Carried
  <2>3. CASE use = "ahci"
    BY <1>1, <1>2, <1>4, <2>1, <2>2, <2>3 DEF InOrder, AhciInOrder, OwnCommand
  <2>4. CASE use = "ata"
    <3>1. ok
      BY <1>1, <1>5, <1>7, <2>4 DEF Plain
    <3> QED
      BY <1>1, <1>2, <1>4, <2>1, <2>2, <2>4, <3>1 DEF InOrder, AtaInOrder, OwnCommand
  <2> QED
    BY <1>1, <1>7, <2>3, <2>4 DEF Plain
<1> QED
  BY <1>6, <1>7

(* AHCI and ATA calls that return 0 have done what they were asked for     *)
(* (AnswerTrue), although commands fail and all calls share one buffer.    *)
THEOREM AnswersAreTrue == SectorsFit /\ Spec => []AnswerTrue
<1>1. IInv /\ [Next]_vars => IInv'
  <2> SUFFICES ASSUME IInv, [Next]_vars PROVE IInv'
    BY Zenon
  <2>1. CASE UNCHANGED vars
    BY <2>1, Zenon DEF vars, IInv, Shape, Plain, InOrder, AhciInOrder, AtaInOrder, OwnCommand, Carried,
                SectorsFit, NoCall, NoAnswer
  <2> QED
    BY <2>1, DiskInitOK, AdminOK, BeginOK, IssueOK, AnswerOK, AtaDoneOK, TimeoutOK, NvmeOK, PortOK
    DEF Next
<1>2. IInv => AnswerTrue
  BY DEF IInv, Plain, InOrder, AnswerTrue
<1> QED
  BY <1>1, <1>2, InitOK, PTL DEF Spec

=============================================================================
