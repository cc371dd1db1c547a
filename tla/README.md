# LufiraOS in TLA+

Specifications of the LufiraOS kernel (`src/kernel/`) and of the allocator of its C library,
translated from the C code, checked with TLC on small instances and, in part, proved with TLAPS for
every value of the constants.

`PROJECT.json` lists the parts of the system, the runs, the source lines behind every definition,
the hazards of the code, the disagreements found and the theorems.

## The system

The kernel runs on one CPU. A system call runs with interrupts disabled until it returns or calls
`schedule()`; the timer preempts ring-3 code only. So the unit of interleaving is *what a handler
does up to its next `schedule()`*, and the difficulty is in what may have changed when a call goes on.
Two drivers are different: the USB driver enables interrupts while it waits, so timer ticks fall into
its waits, and the disk drivers poll a controller that works on its own.

| Part | Modules | What makes it hard |
|---|---|---|
| Processes, scheduler, signals, timer, mailboxes, services (`process.c`, `pit.c`, `shell.c`, `mailbox.c`) | `Process` | death, reaping and wakeups race with waits; the timer handler reaps, kills and may itself wait; lost wakeups, wakeups of the dead |
| Descriptors, pipes, console input (`vfs.c`, `input.c`) | `Files`, `Ring`, `Stream` | reference counts across fork, dup2, close and death; blocking ends; full tables; rings that wrap |
| Keyboard and mouse (`keyboard.c`, `mouse.c`, `usb_hid.c`, `input.c`) | `Input` | one key seen by two drivers; repeats; focus that changes while a key is down |
| Memory (`pmm.c`, `paging.c`, `shm.c`, mmap calls) | `Memory` | counts by page; failures in the middle of a loop; reuse of addresses |
| Kernel heap and `malloc()` (`heap.c`, `malloc.c`) | `Heap` | splitting and merging of linked blocks |
| Programs and libc (`elf.c`, `dynlink.c`) | `Loader` | sharing of pages; memory that runs out half way |
| Drivers in user space (`driver.c`, `irq.c`) | `Driver` | interrupts before, during and after a wait; restarts of daemons |
| USB (`xhci.c`) | `Usb` | answers later than the timeout; devices that go while a wait is on; one event ring for all |
| Disks (`ahci.c`, `nvme.c`, `ata.c`, `disk.c`) | `Storage` | errors and timeouts of a controller that shares a buffer with all calls |
| LufiraFS (`fs/lufirafs`) | `LufiraFS`, `FileTree` | loss of power between two disk writes; full disks |
| FAT, exFAT, ext2, ramfs | `Volumes`, `Fat`, `ExFat`, `Ext2`, `RamFs`, `Units`, `FileTree` | one tree of names over four layouts; failures half way |
| Mounts (`*_mount.c`, `mount.c`) | `Mounts` | order of registries; write back with retries, sticks that are unplugged |
| Accounts (`users.c`) | `Users` | two copies, in RAM and in files, under writes that fail |
| Text console (`console.c`) | `Console` | back buffer, history, screen and a window manager that draws over all of it |

## How the modules are built

State is kept at the grain of the C structures, and one action is one handler up to the point where
it gives up the CPU. A call that blocks leaves its place (`pc` in `Process`, `op` in `Files`,
`inWait` in `Driver`, `act` in `Usb`) and goes on in a later action. Where one call changes many
variables the handlers work on a record of the whole state (`Now`, `Become` in `Files` and `Memory`;
volumes in `Volumes`; `w` in `LufiraFS`).

Definitions the comments call *Fault* are mutated forms of the definition that follows. Nothing uses
them; they show that a property notices a bug in that place.

**Process.** `proc` is the process table. Every system call is an action `Sys...`; `Resume` takes the
next round of a blocked call's loop. The timer handler is `TimerIrq`, one `TimerScan` for each
process that is due, `TimerReap`, then `TimerTail` with Ctrl+C and preemption. Processes are appended
with growing pids, so the order of the list is the order of the pids. A message is the pid of its
sender.

**Files.** A process is reduced to whether it can run. `file` is the table of open files with their
reference counts, `pipe` holds the pipes and, as channel 0, the console ring. `moved` records the
bytes the last step copied, which ties the rings to `Stream`: `StreamSpec` is `Stream!Spec` with
`open` mapped to the live pipes and `queue` to the contents of the rings. What
`vfs_close_all_fds()` and `vfs_dup_fd_table()` do one descriptor after another is written as what they do
to the set of descriptors (`Close`, `Dup`): a file's count falls by the descriptors that go, a
channel wakes its waiter when the last end goes. The two forms give the same states as long as the
counts are exact, which is what `DescriptorsValid` and `EndsCounted` say; where a count is already
wrong (only with `Oom`) the loop may free a file in its middle and the closed form does not follow it.

**Memory.** Addresses are counted in pages, only the mmap area of an address space is kept, and every
loop that maps pages may stop after any page (`Mapped`). Pages for page tables are not counted; that
one is missing is the failure of a mapping. `Failures` selects cases in which the code is known not
to give everything back: a fork that runs out of pages (accepted in the comment at `process.c:275`),
the client of a net fetch that is killed during the call, and a driver that forks with its device
mapped. The run leaves these three out, so **its result does not speak for them**: with `"fork"` TLC
finds pages lost and references wrong, with `"client"` references wrong, with `"driver"` a device
page given to the page bitmap.

**Driver.** `WaitRound` is one round of the loop of `driver_irq_wait()`; `Interrupt` writes READY to
the waiter whatever its state, as the code does. `driver_release_device()` leaves the interrupt line
to its former owner; this is modelled, and no property is stated about it.

**Usb.** `act` is what the sequential driver does; `todo`, `ev` and `hw` are the controller, which
completes in any order between rings. An answer may come after its timeout, and a device may go
while it is asked.

**Storage.** `disk_init()` takes AHCI, NVMe or ATA. The controllers are external and modelled from
how the drivers use them: one command at a time for AHCI and ATA, two queues with phase bits for
NVMe.

**LufiraFS and Volumes.** Both implement `FileTree`, a map from paths to contents. In `LufiraFS` a
call logs the blocks it writes and the power may fail after any of them (`Finish`). `Damage` in
`Volumes` names the calls that leave a block lost or shared when they fail half way; from then on
nothing is claimed of that volume.

**Heap, Loader, Users, Mounts, Console, Input** are described in their headers.

## Runs

TLC checks each run completely. Passing runs:

| Run | Checks | Distinct states |
|---|---|---|
| `process` | one RUNNING process; a wait has a live child; no lost mail; registrations are of live processes; the dead stay dead but for mail, the stopped stopped until SIGCONT | 694,099 |
| `process_live` | whoever is READY or asleep runs; zombies go; a caught signal reaches its handler | 117,651 |
| `files` | descriptors and pipe ends counted exactly; nobody sleeps on a channel that could serve it; every channel is a `Stream`; no key stays down that is up | 359,637 |
| `memory` | areas disjoint; every page has its owner; exact references | 74,703 |
| `driver` | exclusive claims; no interrupt slept through; a fired wait ends | 262,592 |
| `usb` | an answer is taken for its own request; the keyboard keeps being asked; an index leads to its stick | 2,217,904 |
| `system` | disks, heaps, accounts, loader, mounts, console: eight invariants | 725,432 |
| `lufirafs` | exclusive blocks; `cwd` leads back to the root; a power failure costs at most the file in hand; refinement of `FileTree` | 48,984 |
| `volumes` | the same for the four mounted formats, without failures of power | 19,576 |

Some runs check several parts or instances **side by side**: a variable `which` picks one at the start
(`MCProcesses`, `MCIo`, `MCSystem`). These parts do not interact in such a run; the form only saves
runs. `MCProcesses` has three instances of `Process` because all system calls at once are out of
TLC's reach: mailboxes and services; life and death with failing allocations; handlers, alarms,
Ctrl+C and exec.

### Disagreements between code and comments

Three have a run whose property TLC violates:

- `process_dead`: a process killed while it waits for a message is made READY again by the next
  `mailbox_send()` (`mailbox.c:53`). `DeadWithoutMail` is what does hold, and is proved.
- `usb_ctrlc`: Ctrl+C on the USB keyboard while the driver waits terminates the waiting process, so
  the counter of waits stays up and `usb_poll()` does nothing from then on (`xhci.c:686`).
- `disk_nvme`: the phase the driver waits for is the one an untouched completion entry has
  (`nvme.c:128`): commands are reported a lap before they are done.

Others were refuted by TLC in the same way and are recorded with the hazards, in `PROJECT.json`:
`process_reap()` takes a zombie whose parent was woken and has not run yet; Ctrl+C on a process that
handles SIGINT blocks whoever was interrupted; `vfs_pipe()` without a descriptor for its second end
leaks the pipe; a process that dies while it blocks in a read stays the registered waiter; the
directory cache of exFAT keeps a removed directory; a mount prefix can be in two registries.

### Bounds

- `process`, `process_live`: `MaxPid` 3 (with the idle process): a parent, its child and a bystander,
  the most that any condition of `process.c` relates. `Timeslice`, `MaxTicks` 1 or 2, `MailboxSlots`
  1: a full mailbox, an expiring slice and a sleep that another event cuts short all happen.
  `process_live` has the calls that a process can be kept waiting by (fork, sleep, kill, sigaction)
  and the whole timer handler.
- `files`: 2 processes, 2 descriptors, 3 files and 1 pipe, so that every table runs full; a pipe of
  2 bytes and writes of 1 and 3, so that a write blocks half way and the ring wraps; a console of 1 key, so that
  keys are dropped. `Shared = FALSE` keeps the assumption of `vfs.c:218` that one process waits on
  each side; without it TLC finds `BlockedIsServed` violated. `Oom = FALSE`: `vfs_create_inode()`
  is not checked for NULL by its callers. Input: one key and Ctrl, with both keyboards, four strokes.
- `memory`: 3 pages, 2 processes, an area of 2 pages with 2 regions and 1 free range: memory, the
  tables of regions and the list of ranges all run out.
- `driver`: 3 processes (none comes back from the dead, so a restart is a new one), 2 claims for 3
  devices, a line shared by two of them, 1 interrupt pending.
- `usb`: a keyboard and a stick on 2 ports and 2 slots, rings of 2 entries that wrap, 2 moves of
  plugs, 1 timeout, 2 unread events. With more timeouts than a ring has entries a late answer can be
  taken for a new request of the same place; the driver has 255, so one timeout is the case
  in which the properties are claimed.
- `system`: each part at the size where its tables run full; see `MCSystem`. One fault in each of
  disks, accounts and mounts.
- `lufirafs`: 3 inodes, 4 data blocks, 1 direct and 1 indirect pointer, one failure of power.
  `volumes`: 4 clusters, directories of 1 to 3 slots, files of up to 3 units, one open handle.

`lufirafs` and `volumes` use the symmetry of names, which no operation orders. No other run uses
symmetry: pids, slots and pages are ordered, and "the first free one" is part of the code.

`CHECK_DEADLOCK FALSE` is set where the bounds on calls, moves or timeouts stop the model (`usb`,
`volumes`, `disk_nvme`); the parts of `MCIo` and `MCSystem` that stop for this reason stutter.

### Fairness

`Process!Fairness`: the steps of the timer handler and of a resumed call follow with interrupts
disabled (weak fairness); the timer interrupt comes again and again and is taken as soon as ring-3
code or the idle loop runs (strong); the idle loop calls `schedule()` after each `hlt` (strong).
Nothing is assumed of programs. `Driver!FairSpec` assumes that a READY process inside
`driver_irq_wait()` goes on, which is what `ReadyRuns` shows of the scheduler.

## Proofs

All proofs are checked by TLAPS without gaps. The constants are only assumed to be what
`ProcessAssumption` and `DriverAssumption` say: bounds are positive, signals are the kernel's
signals, no device is on the timer's line.

**Process: invariants** (`ProcessLemmas`, `ProcessRounds`, `ProcessProofs`; the theorems about Process
are in `ProcessTheorems`). `Types`, `OneCpu`, `NoOrphanedWait`,
`NoLostWakeup`, `ServicesStayAlive`: the invariants `TypeOK`, `OneRunning`, `WaiterHasLiveChild`,
`NoLostMail` (with `WaiterInRecv`) and `ServicesAlive` hold for any number of processes, any mailbox
size, slice and set of services. None of them is inductive alone. `IInv` adds what they need from
each other:

- *one RUNNING process* needs that wakeups never hit the running one: `mailbox_send()` writes READY
  to a waiter unseen, so a waiter must be inside `mailbox_recv()` with an empty mailbox (`Mail`);
- *a wait has a live child* needs that a death either wakes the waiting parent or leaves it another
  child (`Waits`, and `Orphaned` between the two halves of a death), and that a call inside
  `process_wait()` remembers a proper target (`Targets`);
- *a new process disturbs nobody* needs that no pid from `next_pid` on is in use (`Fresh`);
- *the timer handler finds ring-3 code or the idle loop*: `scan # NoScan => proc[current].pc = "user"`.

`ProcessLemmas` defines `IInv` and proves for the pieces of a handler (`Send`, `Bury`,
`WakeWaitingParent`, ...) what they do to any sound table; `ProcessRounds` does so for the pieces that
switch processes (`Schedule`, `Preempt`, `WaitRound`, `Return`, ...). `ProcessProofs` has one lemma for
each action and puts them together in `StepOK`. That `Least` picks the least pid of a non-empty set
rests on the well-order of the natural numbers: the lemmas that need it take it as the hypothesis
`Ordered`, which `ProcessTheorems` discharges once (`PidsOrdered`), so no theorem assumes it.

**Process: what no step may do** (`ProcessActions`, `ProcessTheorems`). `TheDeadStayDead`: a ZOMBIE becomes nothing but
a free entry, unless a message is sent to it (`DeadWithoutMail`). `TheStoppedStayStopped`: a STOPPED process
goes on only when SIGCONT comes or it dies (`StoppedUntilCont`). Both follow from one lemma per
action about what the action spares; they need `IInv` (the process that is chosen to run was READY,
a waiter is BLOCKED) and that the idle process is alive and never the target of a call, which is
an invariant of its own (`IdleStaysAlive`).

**Ring** (`RingProofs`). `PutAppends` and `TakeRemoves`: for every size and position, writing appends
to the contents of the ring and reading removes their head, in order, across the wrap;
`PutKeepsRing` and `TakeKeepsRing` keep the positions consistent. The arithmetic of `%` is in lemmas
over integers.

**Driver** (`DriverProofs`). `ClaimsStayExclusive` and `InterruptsReachWaiters`: the two invariants of the run hold
for any devices and lines. The inductive invariant adds that a blocked process is inside some
`driver_irq_wait()` and that a line with a waiter has nothing pending.

**Storage** (`StorageProofs`). `AnswersAreTrue`: on AHCI without timeouts, and on ATA without errors
either, a call that reports success has moved the data, for any disk. The invariant (`InOrder`)
says what port, bounce buffer and disk hold at each place of a call.

**Only model-checked.** Liveness (`process_live`, `InterruptServed`) is out of reach of this prover.
`LufiraFS`, `Volumes` and their formats, and `Heap`, `Loader`, `Users`, `Mounts`, `Console`, `Input`
compute with folds, recursion and sequences of lines, whose results for every input need induction over
data. `AnswerIsOwn` and `IndexReachesItsDevice` of `Usb` are not true for every value of the
constants (see the bounds). `Files` and `Memory` have no proofs.

## Not modelled

Page tables as memory, kernel stacks and registers; opening, seeking and permission checks of files;
the sound ring and the streaming form of net fetch; discovery of controllers, DMA memory and
descriptor parsing of USB; the MBR; the second FAT front end, which is not built; pixel graphics,
serial line, PCI enumeration; CPU tables, APIC, ACPI, HPET and RTC, which are set up once; the text
commands of the shell; boot loaders; the rest of libc and host tools. The reasons are with the
components in `PROJECT.json`.

Each module models its part alone and reduces the others to what it needs of them. fork, exec and
death touch several parts in the kernel; the modules have each its own share of these calls, and
their composition in one state is not modelled.
