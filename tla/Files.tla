------------------------------- MODULE Files --------------------------------
(***************************************************************************)
(* Descriptor tables, open files, pipes and the console input:             *)
(* kernel/fs/vfs/vfs.c, kernel/drivers/input/input.c and the places of     *)
(* kernel/system/process/process.c that create, copy and close descriptor  *)
(* tables.                                                                 *)
(*                                                                         *)
(* A system call is atomic up to the point where it blocks.  Of a process  *)
(* it matters here only whether it can run, is blocked, is a zombie or is  *)
(* gone from the list.  A call that blocks is kept in op, and goes on with *)
(* another round of its loop when the process can run.                     *)
(***************************************************************************)
EXTENDS Ring, FiniteSets

CONSTANTS
    MaxProcs,   \* bound on the number of processes ever created
    MaxFd,      \* MAX_FD_PER_PROCESS
    MaxFiles,   \* MAX_FILES_SYSTEM
    StdFds,     \* the descriptors opened on the console for a new process
    MaxPipes,   \* bound on the number of pipes at the same time
    PipeSize,   \* PIPE_BUF_SIZE
    KeySize,    \* CONSOLE_INPUT_BUF_SIZE
    Byte,       \* the bytes that are read and written
    Keys,       \* those the keyboard sends
    Texts,      \* the strings of bytes programs write
    MaxCount,   \* bound on the count of one read
    Shared,     \* whether two processes may use one end at the same time
    Oom         \* whether allocations may fail

ASSUME FilesAssumption ==
    /\ {MaxProcs, MaxFd, MaxFiles, PipeSize, KeySize, MaxCount} \subseteq Nat \ {0}
    /\ Keys \subseteq Byte /\ Texts \subseteq Seq(Byte) \ {<< >>}
    /\ StdFds \in 0 .. MaxFd /\ MaxPipes \in Nat
    /\ Byte # {} /\ Shared \in BOOLEAN /\ Oom \in BOOLEAN

Proc == 1 .. MaxProcs
Fd == 0 .. MaxFd - 1
File == 1 .. MaxFiles
None == 0
Console == 0                \* the ring of input.c
Pipe == 1 .. MaxPipes
Channel == Pipe \cup {Console}
Size == [c \in Channel |-> IF c = Console THEN KeySize ELSE PipeSize]

VARIABLES
    state,   \* of each process: "none", "ready", "blocked", "zombie", "gone"
    fdt,     \* fd_table.files
    op,      \* the read or write a process is in the middle of
    file,    \* file_table, a file_t with its inode_t
    pipe,    \* the pipes, and the console input under Console
    moved    \* what the last step copied from or to a program's buffer

vars == <<state, fdt, op, file, pipe, moved>>

NoOp == [call |-> "none", on |-> Console, bytes |-> << >>, count |-> 0]

FreeFile == [kind |-> "free", on |-> Console, inode |-> FALSE, refs |-> 0]

(* A file_t with the inode_t of vfs_create_inode(), which may be missing *)
NewFile(kind, c, inode) ==
    [kind |-> kind, on |-> IF inode THEN c ELSE Console, inode |-> inode,
     refs |-> IF inode THEN 1 ELSE 0]

NewPipe(c) ==
    [live |-> TRUE, ring |-> EmptyRing(Size[c], CHOOSE b \in Byte : TRUE),
     readers |-> 1, writers |-> 1, rwait |-> None, wwait |-> None]

FreePipe(c) == [NewPipe(c) EXCEPT !.live = FALSE, !.readers = 0, !.writers = 0]

(* What the handlers work on *)
Now == [state |-> state, fdt |-> fdt, file |-> file, pipe |-> pipe]

Become(k) ==
    /\ state' = k.state /\ fdt' = k.fdt /\ file' = k.file /\ pipe' = k.pipe

(* Whether an allocation succeeds *)
Made == IF Oom THEN BOOLEAN ELSE {TRUE}

-----------------------------------------------------------------------------
(* alloc_fd() and alloc_file(): the lowest free one, None or -1 without one *)

LowestFree(S) == CHOOSE x \in S : \A y \in S : x <= y

FreeFds(k, p) == {d \in Fd : k.fdt[p][d] = None}
FreeFiles(k) == {f \in File : k.file[f].kind = "free"}

(* A new file in the lowest free descriptor of p *)
Install(k, p, new) ==
    LET f == LowestFree(FreeFiles(k))
    IN  [k EXCEPT !.file[f] = new, !.fdt[p][LowestFree(FreeFds(k, p))] = f]

(* pipe_wake(): the waiter becomes READY whatever its state is.  One whose *)
(* descriptor was freed is nobody: the write goes to memory of the heap.   *)
Woken(k, w) ==
    IF w = None \/ k.state[w] = "gone" THEN k
    ELSE [k EXCEPT !.state[w] = "ready"]

WakeReader(k, c) ==
    [Woken(k, k.pipe[c].rwait) EXCEPT !.pipe[c].rwait = None]

WakeWriter(k, c) ==
    [Woken(k, k.pipe[c].wwait) EXCEPT !.pipe[c].wwait = None]

(* Those of the descriptors D of p that are an end of channel c *)
Ends(k, p, D, kind, c) ==
    {d \in D : LET r == k.file[k.fdt[p][d]]
               IN  r.inode /\ r.kind = kind /\ r.on = c}

(* Fault: the reader is not told that the last writer is gone. *)
HungUpQuietly(k, p, D) ==
    {k.pipe[c].wwait : c \in {x \in Channel : Ends(k, p, D, "read", x) # {}}}

(* pipe_close_read() and pipe_close_write(): whom they wake, *)
HungUp(k, p, D) ==
    {k.pipe[c].wwait : c \in {x \in Channel : Ends(k, p, D, "read", x) # {}}}
    \cup {k.pipe[c].rwait : c \in {x \in Channel : Ends(k, p, D, "write", x) # {}}}

(* and what is left of the pipe, with pipe_free_if_orphaned() *)
Shut(k, p, D, c) ==
    LET r == Ends(k, p, D, "read", c)
        w == Ends(k, p, D, "write", c)
        left == [k.pipe[c] EXCEPT !.readers = @ - Cardinality(r),
                                  !.writers = @ - Cardinality(w),
                                  !.rwait = IF w = {} THEN @ ELSE None,
                                  !.wwait = IF r = {} THEN @ ELSE None]
    IN  IF r \cup w # {} /\ left.readers = 0 /\ left.writers = 0 THEN FreePipe(c)
        ELSE left

(* How many of the descriptors D of p are file f *)
Times(k, p, D, f) == Cardinality({d \in D : k.fdt[p][d] = f})

(* Fault: the file_t goes with the first descriptor that is closed. *)
ReleasedAtOnce(k, p, D, f) == IF Times(k, p, D, f) = 0 THEN k.file[f] ELSE FreeFile

(* The part of vfs_close() that counts references *)
Released(k, p, D, f) ==
    LET n == Times(k, p, D, f)
        r == k.file[f]
    IN  CASE n = 0 -> r
          [] n > 0 /\ (~r.inode \/ r.refs <= n) -> FreeFile
          [] OTHER -> [r EXCEPT !.refs = @ - n]

(* vfs_close() of the descriptors D of p, one after the other: where the   *)
(* counts are exact, a file or a pipe goes with the last of them.          *)
Close(k, p, D) ==
    [k EXCEPT
        !.state = [q \in Proc |-> IF q \in HungUp(k, p, D) /\ @[q] # "gone"
                                  THEN "ready" ELSE @[q]],
        !.fdt[p] = [d \in Fd |-> IF d \in D THEN None ELSE @[d]],
        !.file = [f \in File |-> Released(k, p, D, f)],
        !.pipe = [c \in Channel |-> Shut(k, p, D, c)]]

(* Fault: vfs_dup_fd() counts the inode and forgets the end of the pipe. *)
DupInode(k, p, D) ==
    [k EXCEPT !.file = [f \in File |-> IF @[f].inode
                           THEN [@[f] EXCEPT !.refs = @ + Times(k, p, D, f)]
                           ELSE @[f]]]

(* vfs_dup_fd() of the descriptors D of p *)
Dup(k, p, D) ==
    [k EXCEPT
        !.file = [f \in File |-> IF @[f].inode
                     THEN [@[f] EXCEPT !.refs = @ + Times(k, p, D, f)]
                     ELSE @[f]],
        !.pipe = [c \in Channel |-> [@[c] EXCEPT
                     !.readers = @ + Cardinality(Ends(k, p, D, "read", c)),
                     !.writers = @ + Cardinality(Ends(k, p, D, "write", c))]]]

(* Descriptors in use *)
Opened(k, p) == {d \in Fd : k.fdt[p][d] # None}

(***************************************************************************)
(* vfs_init_fd_table(): the first free files for descriptors 0, 1, ...;    *)
(* without a free file the descriptor stays empty.                         *)
(***************************************************************************)
FirstFiles(k) ==
    LET free == FreeFiles(k)
        n == IF StdFds < Cardinality(free) THEN StdFds ELSE Cardinality(free)
    IN  {s \in [0 .. n - 1 -> free] :
            \A i \in 0 .. n - 1 :
                /\ \A j \in 0 .. i - 1 : s[j] < s[i]
                /\ \A f \in free : f < s[i] => \E j \in 0 .. n - 1 : s[j] = f}

OpenStdio(k, p, s, inode) ==
    [k EXCEPT
        !.file = [f \in File |-> IF \E i \in DOMAIN s : s[i] = f
                                 THEN NewFile("console", Console, inode) ELSE @[f]],
        !.fdt[p] = [d \in Fd |-> IF d \in DOMAIN s THEN s[d] ELSE None]]

-----------------------------------------------------------------------------
(* The loops of pipe_read(), console_input_read() and pipe_write() *)

EndOfFile(k, c) == c # Console /\ k.pipe[c].writers = 0

(* As many of the n bytes as there are; with none it blocks, or at the end *)
(* of the file returns.                                                    *)
ReadRound(p, c, n) ==
    LET k == Now
        count == k.pipe[c].ring.count
        got == IF n < count THEN n ELSE count
    IN  \/ /\ count > 0
           /\ Become(WakeWriter(
                [k EXCEPT !.pipe[c].ring = Take(@, Size[c], got)], c))
           /\ moved' = SubSeq(Contents(k.pipe[c].ring, Size[c]), 1, got)
           /\ op' = [op EXCEPT ![p] = NoOp]
        \/ /\ count = 0 /\ EndOfFile(k, c)
           /\ op' = [op EXCEPT ![p] = NoOp]
           /\ moved' = << >>
           /\ UNCHANGED <<state, fdt, file, pipe>>
        \/ /\ count = 0 /\ ~EndOfFile(k, c)
           /\ Become([k EXCEPT !.pipe[c].rwait = p, !.state[p] = "blocked"])
           /\ op' = [op EXCEPT ![p] = [NoOp EXCEPT !.call = "read", !.on = c,
                                                   !.count = n]]
           /\ moved' = << >>

(* As many of the bytes as there is space for, and the rest after a block; *)
(* without readers the call ends.                                          *)
WriteRound(p, c, bytes) ==
    LET k == Now
        space == Space(k.pipe[c].ring, Size[c])
        n == IF Len(bytes) < space THEN Len(bytes) ELSE space
        put == IF n = 0 THEN k
               ELSE WakeReader([k EXCEPT !.pipe[c].ring =
                        Put(@, Size[c], SubSeq(bytes, 1, n))], c)
    IN  \/ /\ k.pipe[c].readers = 0
           /\ moved' = << >>
           /\ op' = [op EXCEPT ![p] = NoOp]
           /\ UNCHANGED <<state, fdt, file, pipe>>
        \/ /\ k.pipe[c].readers > 0 /\ n = Len(bytes)
           /\ Become(put)
           /\ moved' = bytes
           /\ op' = [op EXCEPT ![p] = NoOp]
        \/ /\ k.pipe[c].readers > 0 /\ n < Len(bytes)
           /\ moved' = SubSeq(bytes, 1, n)
           /\ Become([put EXCEPT !.pipe[c].wwait = p, !.state[p] = "blocked"])
           /\ op' = [op EXCEPT ![p] = [NoOp EXCEPT !.call = "write", !.on = c,
                            !.bytes = SubSeq(bytes, n + 1, Len(bytes))]]

-----------------------------------------------------------------------------
(* System calls *)

Calls(p) == state[p] = "ready" /\ op[p] = NoOp

(* One process at a time on each end, if the programs keep to that *)
EndIsIdle(call, c) ==
    Shared \/ \A q \in Proc : ~(state[q] \in {"ready", "blocked"}
                                /\ op[q].call = call /\ op[q].on = c)

SysRead(p) ==
    /\ Calls(p)
    /\ \E d \in Fd, n \in 1 .. MaxCount :
          LET r == file[fdt[p][d]]
          IN  /\ fdt[p][d] # None
              /\ r.kind \in {"read", "console"} /\ (r.kind = "read" => r.inode)
              /\ EndIsIdle("read", r.on)
              /\ ReadRound(p, r.on, n)

SysWrite(p) ==
    /\ Calls(p)
    /\ \E d \in Fd, bytes \in Texts :
          LET r == file[fdt[p][d]]
          IN  /\ fdt[p][d] # None /\ r.kind = "write" /\ r.inode
              /\ EndIsIdle("write", r.on)
              /\ WriteRound(p, r.on, bytes)

Resume(p) ==
    /\ state[p] = "ready"
    /\ \/ op[p].call = "read" /\ ReadRound(p, op[p].on, op[p].count)
       \/ op[p].call = "write" /\ WriteRound(p, op[p].on, op[p].bytes)

SysClose(p) ==
    /\ Calls(p)
    /\ \E d \in Opened(Now, p) : Become(Close(Now, p, {d}))
    /\ moved' = << >>
    /\ UNCHANGED op

SysDup2(p) ==
    /\ Calls(p)
    /\ \E old \in Opened(Now, p) : \E new \in Fd \ {old} :
          LET k == Close(Now, p, {new} \cap Opened(Now, p))
          IN  Become([Dup(k, p, {old}) EXCEPT !.fdt[p][new] = fdt[p][old]])
    /\ moved' = << >>
    /\ UNCHANGED op

(***************************************************************************)
(* vfs_pipe().  Without a descriptor or a file for the write end the read  *)
(* end is closed again; writers stays 1.                                   *)
(***************************************************************************)
SysPipe(p) ==
    /\ Calls(p)
    /\ FreeFds(Now, p) # {} /\ FreeFiles(Now) # {}
    /\ \E c \in Pipe, ri \in Made, wi \in Made :
          /\ ~pipe[c].live /\ \A b \in Pipe : ~pipe[b].live => c <= b
          /\ LET half == Install([Now EXCEPT !.pipe[c] = NewPipe(c)], p,
                                 NewFile("read", c, ri))
                 undone == Close(half, p, {LowestFree(FreeFds(Now, p))})
             IN  IF FreeFds(half, p) # {} /\ FreeFiles(half) # {}
                 THEN Become(Install(half, p, NewFile("write", c, wi)))
                 ELSE Become(undone)
    /\ moved' = << >>
    /\ UNCHANGED op

-----------------------------------------------------------------------------
(* Processes *)

NewProcs == {p \in Proc : state[p] = "none"}

(* process_fork(): the child's own stdio is opened and closed again.  When *)
(* process_create() fails on the way its stdio stays open.                 *)
SysFork(p) ==
    /\ Calls(p) /\ NewProcs # {}
    /\ LET c == LowestFree(NewProcs)
       IN  \E created \in Made :
              IF created
              THEN Become([Dup(Now, p, Opened(Now, p)) EXCEPT
                              !.fdt[c] = fdt[p], !.state[c] = "ready"])
              ELSE \E s \in FirstFiles(Now) :
                      Become([OpenStdio(Now, c, s, TRUE) EXCEPT
                                 !.fdt[c] = fdt[c], !.state[c] = "gone"])
    /\ moved' = << >>
    /\ UNCHANGED op

(* A program started by the kernel or by SYS_SPAWN has its own stdio. *)
Start ==
    /\ NewProcs # {}
    /\ \E inode \in Made, s \in FirstFiles(Now) :
          LET c == LowestFree(NewProcs)
          IN  Become([OpenStdio(Now, c, s, inode) EXCEPT !.state[c] = "ready"])
    /\ moved' = << >>
    /\ UNCHANGED op

(* process_exit() and terminate_process_by_signal(): the files stay open *)
Die(p) ==
    /\ state[p] \in {"ready", "blocked"}
    /\ state' = [state EXCEPT ![p] = "zombie"]
    /\ moved' = << >>
    /\ UNCHANGED <<fdt, op, file, pipe>>

(* free_process_resources(), when the zombie is collected *)
Reap(p) ==
    /\ state[p] = "zombie"
    /\ Become([Close(Now, p, Opened(Now, p)) EXCEPT !.state[p] = "gone"])
    /\ op' = [op EXCEPT ![p] = NoOp]
    /\ moved' = << >>

(* process_signal(): a caught signal wakes a blocked process *)
Signal(p) ==
    /\ state[p] = "blocked"
    /\ state' = [state EXCEPT ![p] = "ready"]
    /\ moved' = << >>
    /\ UNCHANGED <<fdt, op, file, pipe>>

(* console_input_push(): a key that finds the ring full is dropped *)
Key ==
    /\ \E b \in Keys :
          \/ /\ Space(pipe[Console].ring, KeySize) > 0
             /\ Become(WakeReader([Now EXCEPT !.pipe[Console].ring =
                                      Put(@, KeySize, <<b>>)], Console))
             /\ moved' = <<b>>
          \/ /\ Space(pipe[Console].ring, KeySize) = 0
             /\ moved' = << >>
             /\ UNCHANGED <<state, fdt, file, pipe>>
    /\ UNCHANGED op

-----------------------------------------------------------------------------
Init ==
    /\ state = [p \in Proc |-> "none"]
    /\ fdt = [p \in Proc |-> [d \in Fd |-> None]]
    /\ op = [p \in Proc |-> NoOp]
    /\ file = [f \in File |-> FreeFile]
    /\ pipe = [c \in Channel |-> IF c = Console THEN NewPipe(c)
                                 ELSE FreePipe(c)]
    /\ moved = << >>

Next ==
    \/ \E p \in Proc : \/ SysRead(p) \/ SysWrite(p) \/ SysClose(p) \/ SysDup2(p)
                       \/ SysPipe(p) \/ SysFork(p) \/ Resume(p)
                       \/ Die(p) \/ Reap(p) \/ Signal(p)
    \/ Start
    \/ Key

Spec == Init /\ [][Next]_vars

-----------------------------------------------------------------------------
Uses(f) == {u \in Proc \X Fd : fdt[u[1]][u[2]] = f}

(* vfs_close() frees a file_t with its last descriptor and not before: a   *)
(* file that some descriptor names is in the table, and ref_count is the   *)
(* number of descriptors, over fork(), dup2(), close() and dying processes. *)
DescriptorsValid ==
    \A f \in File :
        Uses(f) # {} =>
            file[f].kind # "free" /\ file[f].refs = Cardinality(Uses(f))

Holders(c, kind) ==
    {u \in Proc \X Fd : LET f == fdt[u[1]][u[2]]
                        IN  f # None /\ file[f].kind = kind /\ file[f].on = c}

(* The pipe of an open descriptor exists, and readers and writers are the   *)
(* numbers of descriptors on its ends, so that the end of file and the      *)
(* broken pipe are seen exactly when the last descriptor is closed.         *)
EndsCounted ==
    \A c \in Pipe :
        Holders(c, "read") \cup Holders(c, "write") # {} =>
            /\ pipe[c].live
            /\ pipe[c].readers = Cardinality(Holders(c, "read"))
            /\ pipe[c].writers = Cardinality(Holders(c, "write"))

(* No lost wakeup: a process blocked in a read or write is the registered  *)
(* waiter of a channel that is still as it found it: empty and with a      *)
(* writer, or full and with a reader.                                      *)
BlockedIsServed ==
    \A p \in Proc :
        state[p] = "blocked" =>
            LET c == op[p].on
            IN  /\ pipe[c].live
                /\ op[p].call = "read" =>
                      /\ pipe[c].rwait = p /\ pipe[c].ring.count = 0
                      /\ ~EndOfFile(Now, c)
                /\ op[p].call = "write" =>
                      /\ pipe[c].wwait = p /\ pipe[c].ring.count = Size[c]
                      /\ pipe[c].readers > 0

(* The rings of pipes and console are first-in first-out streams. *)
AsStream ==
    INSTANCE Stream WITH
        open <- [c \in Channel |-> pipe[c].live],
        queue <- [c \in Channel |->
                    IF pipe[c].live THEN Contents(pipe[c].ring, Size[c])
                    ELSE << >>]

StreamSpec == AsStream!Spec

-----------------------------------------------------------------------------
(* What comments say of the code *)

(* vfs.c: when the write end cannot be made the read end is undone          *)
(* completely.  A pipe exists only while a descriptor refers to it.         *)
NoPipeLeak ==
    \A c \in Pipe :
        pipe[c].live => Holders(c, "read") \cup Holders(c, "write") # {}

(* vfs.c: read_waiter and write_waiter are the processes that are blocked  *)
(* in pipe_read() and pipe_write().  They are in the middle of such a call  *)
(* and not gone from the process list.                                      *)
WaiterInside ==
    \A c \in Channel :
        /\ pipe[c].rwait # None =>
              op[pipe[c].rwait].call = "read" /\ op[pipe[c].rwait].on = c
        /\ pipe[c].wwait # None =>
              op[pipe[c].wwait].call = "write" /\ op[pipe[c].wwait].on = c

=============================================================================
