------------------------------ MODULE LufiraFS ------------------------------
(***************************************************************************)
(* LufiraFS, the kernel's own filesystem (fs/lufirafs).  Superblock, block *)
(* bitmap and inode table are kept in RAM and written by lufirafs_sync();  *)
(* data blocks (files, directories, indirect blocks) are read and written  *)
(* directly.  A call runs with interrupts disabled, so a call is one step; *)
(* what can happen in its middle is that the power goes, after any of its  *)
(* disk writes.                                                            *)
(*                                                                         *)
(* An operation works on a record w: the metadata of `ram', the data       *)
(* blocks, and the log of the data blocks written so far.  Finish makes it *)
(* a step, or cuts it off.                                                 *)
(*                                                                         *)
(* Assumed of the callers: they name a directory as the parent, remove no  *)
(* file that is open and no directory by its name ".".  The code refuses   *)
(* none of the three (see the hazards).  The kernel heap does not run out, *)
(* and the disk makes no errors.                                           *)
(***************************************************************************)
EXTENDS Integers, FiniteSets, Sequences, SequencesExt

CONSTANTS
    InodeCount,        \* inodes, the root is inode 1
    DataBlocks,        \* blocks of the data region
    DIRECT_BLOCKS,     \* pointers in an inode
    PTRS_PER_BLOCK,    \* pointers in an indirect block
    DIRENTS_PER_BLOCK, \* entries in a block of a directory
    BLOCK_SIZE,        \* units of file data in a block
    InodesPerBlock,    \* inodes in a block of the inode table
    Names, Data,       \* names and units of data that programs use
    MaxWrite,          \* the longest write, in units
    MaxFd,             \* open files
    MaxCrash,          \* how often the power fails
    Off, Dir, Lost     \* no metadata in RAM; a directory and the end in FileTree

ASSUME LufiraAssumption ==
    /\ {InodeCount, DataBlocks, DIRECT_BLOCKS, BLOCK_SIZE, InodesPerBlock} \subseteq Nat \ {0}
    /\ {PTRS_PER_BLOCK, MaxWrite, MaxFd, MaxCrash} \subseteq Nat
    /\ DIRENTS_PER_BLOCK \in Nat \ {0, 1}
    /\ {".", "..", "", "0", "?"} \cap (Names \cup Data) = {}

VARIABLES
    ram,      \* lufirafs_t: metadata, cursor of alloc_block(), dirty blocks; or Off
    disk,     \* what the disk holds: metadata and data blocks
    fd,       \* open files
    crashes,  \* power failures so far
    exposed   \* history: the last one hit a call that frees or hangs blocks unsynced

vars == <<ram, disk, fd, crashes, exposed>>

Inodes == 1..InodeCount
Blocks == 1..DataBlocks
RootInode == 1
MaxFile == (DIRECT_BLOCKS + PTRS_PER_BLOCK) * BLOCK_SIZE

------------------------------------------------------------------------------
\* Blocks of data.  A block is tagged with what was last written to it; one
\* that was just allocated holds zeros and reads as nothing of any kind.

ZeroBlock == <<"zero">>
NoPtrs == [i \in 0..PTRS_PER_BLOCK - 1 |-> 0]
NoEnts == [i \in 0..DIRENTS_PER_BLOCK - 1 |-> [ino |-> 0, name |-> ""]]
PtrsIn(c) == IF c[1] = "ptrs" THEN c[2] ELSE NoPtrs
EntsIn(c) == IF c[1] = "ents" THEN c[2] ELSE NoEnts
UnitsIn(c) == CASE c[1] = "data" -> c[2]
                [] c[1] = "zero" -> [i \in 0..BLOCK_SIZE - 1 |-> "0"]
                [] OTHER -> [i \in 0..BLOCK_SIZE - 1 |-> "?"]

\* A free slot of the inode table is all zeros.
FreeInode == [mode |-> "free", size |-> 0, indirect |-> 0,
              direct |-> [i \in 0..DIRECT_BLOCKS - 1 |-> 0]]

\* Metadata blocks: 0 the superblock, 1 the bitmap, from 2 on the inode table.
InodeBlock(ino) == 2 + (ino - 1) \div InodesPerBlock
MetaBlocks == 0..InodeBlock(InodeCount)

\* F(v), with v evaluated once.
With(v, F(_)) == CHOOSE y \in {F(x) : x \in {v}} : TRUE

NBlocks(size) == (size + BLOCK_SIZE - 1) \div BLOCK_SIZE

write_data_block(w, b, c) == [w EXCEPT !.data[b] = c, !.log = Append(@, <<b, c>>)]

write_inode(w, ino, n) == [w EXCEPT !.inode[ino] = n, !.dirty = @ \cup {InodeBlock(ino)}]

\* Fault: the second pass stops short of the cursor's own block and the bit is
\* not tested again.
alloc_block_blind(w) ==
    LET b == IF w.cursor \in Blocks THEN w.cursor ELSE Min(Blocks)
    IN  [b |-> b, w |-> [write_data_block(w, b, ZeroBlock) EXCEPT
            !.used = @ \cup {b}, !.cursor = b + 1, !.dirty = @ \cup {0, 1}]]

\* The first free block from the cursor on, else the first one at all; 0: none.
alloc_block(w) ==
    LET free == Blocks \ w.used
        ahead == {b \in free : b >= w.cursor}
    IN  With(IF ahead # {} THEN Min(ahead) ELSE IF free # {} THEN Min(free) ELSE 0, LAMBDA b :
            [b |-> b,
             w |-> IF b = 0 THEN w
                   ELSE [write_data_block(w, b, ZeroBlock) EXCEPT
                            !.used = @ \cup {b}, !.free = IF @ > 0 THEN @ - 1 ELSE 0,
                            !.cursor = b + 1, !.dirty = @ \cup {0, 1}]])

free_data_blocks(w, B) ==
    IF B = {} THEN w
    ELSE [w EXCEPT !.used = @ \ B, !.free = @ + Cardinality(B), !.dirty = @ \cup {0, 1}]

\* Block i of an inode, 0 where there is none (inode_get_block with create = 0).
get_block(w, n, i) ==
    IF i < DIRECT_BLOCKS THEN n.direct[i]
    ELSE IF i - DIRECT_BLOCKS >= PTRS_PER_BLOCK \/ n.indirect = 0 THEN 0
    ELSE PtrsIn(w.data[n.indirect])[i - DIRECT_BLOCKS]

\* The same with create = 1: allocates what is missing.  A pointer added to an
\* indirect block reaches the disk at once, before the bitmap does: `risky'.
make_block(w, n, i) ==
    LET idx == i - DIRECT_BLOCKS
        Point(ind, new) ==
            IF new.b = 0 THEN [w |-> ind.w, n |-> [n EXCEPT !.indirect = ind.b], b |-> 0]
            ELSE [w |-> [write_data_block(new.w, ind.b,
                            <<"ptrs", [PtrsIn(new.w.data[ind.b]) EXCEPT ![idx] = new.b]>>)
                         EXCEPT !.risky = @ \/ n.indirect # 0],
                  n |-> [n EXCEPT !.indirect = ind.b], b |-> new.b]
    IN  CASE get_block(w, n, i) # 0 -> [w |-> w, n |-> n, b |-> get_block(w, n, i)]
          [] get_block(w, n, i) = 0 /\ i < DIRECT_BLOCKS ->
                With(alloc_block(w), LAMBDA a : [w |-> a.w, n |-> [n EXCEPT !.direct[i] = a.b], b |-> a.b])
          [] idx >= PTRS_PER_BLOCK -> [w |-> w, n |-> n, b |-> 0]
          [] OTHER ->
                With(IF n.indirect # 0 THEN [b |-> n.indirect, w |-> w] ELSE alloc_block(w), LAMBDA ind :
                    IF ind.b = 0 THEN [w |-> w, n |-> n, b |-> 0]
                    ELSE With(alloc_block(ind.w), LAMBDA new : Point(ind, new)))

------------------------------------------------------------------------------
\* Directories: a slot is <<index of the block, index in the block>>.

SlotsOf(w, n) == {s \in (0..NBlocks(n.size) - 1) \X (0..DIRENTS_PER_BLOCK - 1) :
                    get_block(w, n, s[1]) # 0}
EntAt(w, n, s) == LET c == w.data[get_block(w, n, s[1])]
                  IN  IF c[1] = "ents" THEN c[2][s[2]] ELSE [ino |-> 0, name |-> ""]
FirstSlot(S) == CHOOSE s \in S : \A t \in S : s[1] < t[1] \/ (s[1] = t[1] /\ s[2] <= t[2])
PutEnt(w, n, s, e) ==
    LET b == get_block(w, n, s[1])
    IN  write_data_block(w, b, <<"ents", [EntsIn(w.data[b]) EXCEPT ![s[2]] = e]>>)

Matching(w, n, name) ==
    {s \in SlotsOf(w, n) : \E e \in {EntAt(w, n, s)} : e.ino # 0 /\ e.name = name}

\* lookup_in_dir: 0 when there is no such name, or no such directory.
lookup_in_dir(w, dir, name) ==
    With(w.inode[dir], LAMBDA n :
        IF n.mode # "dir" THEN 0
        ELSE With(Matching(w, n, name), LAMBDA S : IF S = {} THEN 0 ELSE EntAt(w, n, FirstSlot(S)).ino))

\* The first free slot, else a new block.  When that fails the directory's inode
\* is not written, and an indirect block just allocated for it is lost.
add_dirent(w, dir, name, ino) ==
    LET n == w.inode[dir]
        free == {s \in SlotsOf(w, n) : EntAt(w, n, s).ino = 0}
        e == [ino |-> ino, name |-> name]
        Grown(g) == write_inode(write_data_block(g.w, g.b, <<"ents", [NoEnts EXCEPT ![0] = e]>>), dir,
                                [g.n EXCEPT !.size = (NBlocks(n.size) + 1) * BLOCK_SIZE])
    IN  IF free # {} THEN [ok |-> TRUE, w |-> PutEnt(w, n, FirstSlot(free), e)]
        ELSE With(make_block(w, n, NBlocks(n.size)), LAMBDA g :
                [ok |-> g.b # 0, w |-> IF g.b = 0 THEN g.w ELSE Grown(g)])

remove_dirent(w, dir, name) ==
    LET n == w.inode[dir]
    IN  PutEnt(w, n, FirstSlot(Matching(w, n, name)), [ino |-> 0, name |-> ""])

\* lufirafs_lookup: the components one by one, from the root.
RECURSIVE lookup(_, _, _)
lookup(w, ino, path) ==
    IF ino = 0 \/ path = << >> THEN ino
    ELSE With(lookup_in_dir(w, ino, Head(path)), LAMBDA next : lookup(w, next, Tail(path)))

Entries(w, dir) == {EntAt(w, w.inode[dir], s) : s \in SlotsOf(w, w.inode[dir])}
Children(w, dir) == {e \in Entries(w, dir) : e.ino # 0 /\ e.name \notin {".", ".."}}


\* find_name_in_parent: the name of the entry that leads to the child, if any.
find_name_in_parent(w, parent, child) == {e.name : e \in {c \in Children(w, parent) : c.ino = child}}

NoPath == <<"?">>

\* lufirafs_get_path: up along ".." and, at every level, the name of the child.
RECURSIVE get_path(_, _)
get_path(w, ino) ==
    IF ino = RootInode THEN << >>
    ELSE LET up == lookup_in_dir(w, ino, "..")
         IN  IF up = 0 \/ find_name_in_parent(w, up, ino) = {} THEN NoPath
             ELSE Append(get_path(w, up), CHOOSE a \in find_name_in_parent(w, up, ino) : TRUE)

------------------------------------------------------------------------------
\* Creation and removal.  Both return the new record and whether they succeeded.

FreeInodes(w) == {i \in Inodes : w.inode[i].mode = "free"}

\* lufirafs_create.  A directory whose own entry finds no place gives back its
\* inode but not the block of "." and "..".
create(w, parent, name, mode) ==
    LET ino == Min(FreeInodes(w))
        Then(r, dir, entry, to) == IF r.ok THEN add_dirent(r.w, dir, entry, to) ELSE r
        Undo(r) == IF r.ok THEN r ELSE [r EXCEPT !.w = write_inode(@, ino, FreeInode)]
        new == [ok |-> TRUE, w |-> write_inode([w EXCEPT !.dirty = @ \cup {0}], ino,
                                               [FreeInode EXCEPT !.mode = mode])]
    IN  IF lookup_in_dir(w, parent, name) # 0 \/ FreeInodes(w) = {} THEN [ok |-> FALSE, w |-> w]
        ELSE IF mode = "file" THEN With(new, LAMBDA r : Undo(Then(r, parent, name, ino)))
        ELSE With(new, LAMBDA r0 :
             With(Then(r0, ino, ".", ino), LAMBDA r1 :
             With(Then(r1, ino, "..", parent), LAMBDA r2 :
             With(Then(r2, parent, name, ino), Undo))))

\* The blocks of an inode up to its size, and its indirect block.
BlocksOf(w, n, from) == {get_block(w, n, i) : i \in from..NBlocks(n.size) - 1} \ {0}


\* Fault: the indirect block stays allocated.
unlink_keep(w, parent, name) ==
    LET ino == lookup_in_dir(w, parent, name)
        n == w.inode[ino]
    IN  IF \/ ino \in {0, RootInode}
           \/ n.mode = "dir" /\ Children(w, ino) # {} THEN [ok |-> FALSE, w |-> w]
        ELSE [ok |-> TRUE, w |-> remove_dirent(write_inode(
                free_data_blocks(w, BlocksOf(w, n, 0)), ino, FreeInode), parent, name)]

\* lufirafs_unlink: a file or an empty directory.
unlink(w, parent, name) ==
    LET ino == lookup_in_dir(w, parent, name)
        n == w.inode[ino]
    IN  IF \/ ino \in {0, RootInode}
           \/ n.mode = "dir" /\ Children(w, ino) # {} THEN [ok |-> FALSE, w |-> w]
        ELSE [ok |-> TRUE, w |-> remove_dirent(write_inode(
                free_data_blocks(w, BlocksOf(w, n, 0) \cup ({n.indirect} \ {0})), ino, FreeInode), parent, name)]

------------------------------------------------------------------------------
\* Contents.

\* lufirafs_read of the whole file; a hole reads as zeros.
contents(w, n) ==
    [k \in 1..n.size |->
        LET b == get_block(w, n, (k - 1) \div BLOCK_SIZE)
        IN  IF b = 0 THEN "0" ELSE UnitsIn(w.data[b])[(k - 1) % BLOCK_SIZE]]

\* One block of a write of s at `offset': the rest of the block is kept.
WriteChunk(acc, i, offset, s) ==
    LET pos(k) == i * BLOCK_SIZE + k - offset + 1
        Fill(old) == [k \in 0..BLOCK_SIZE - 1 |-> IF pos(k) \in 1..Len(s) THEN s[pos(k)] ELSE old[k]]
    IN  IF ~acc.ok THEN acc
        ELSE With(make_block(acc.w, acc.n, i), LAMBDA g :
                IF g.b = 0 THEN [acc EXCEPT !.w = g.w, !.n = g.n, !.ok = FALSE]
                ELSE [w |-> write_data_block(g.w, g.b, <<"data", Fill(UnitsIn(g.w.data[g.b]))>>),
                      n |-> g.n, ok |-> TRUE, done |-> Min({Len(s), (i + 1) * BLOCK_SIZE - offset})])

\* lufirafs_write: block by block until it is done or the disk is full.
write(w, ino, offset, s) ==
    LET first == offset \div BLOCK_SIZE
        last == (offset + Len(s) - 1) \div BLOCK_SIZE
    IN  IF offset + Len(s) > MaxFile THEN [done |-> 0, w |-> w]
        ELSE With(FoldLeft(LAMBDA a, i : With(a, LAMBDA acc : WriteChunk(acc, i, offset, s)),
                           [w |-> w, n |-> w.inode[ino], ok |-> TRUE, done |-> 0],
                           [j \in 1..last - first + 1 |-> first + j - 1]),
                  LAMBDA acc : [done |-> acc.done,
                                w |-> write_inode(acc.w, ino,
                                        [acc.n EXCEPT !.size = Max({@, offset + acc.done})])])

\* lufirafs_truncate.  Pointers of the indirect block are cleared on the disk at
\* once, those of the inode and the bitmap with the next sync.
truncate(w, ino, new) ==
    LET n == w.inode[ino]
        kept == NBlocks(new)
        gone == BlocksOf(w, n, kept)
        ptrs == PtrsIn(w.data[n.indirect])
        cut == [i \in 0..PTRS_PER_BLOCK - 1 |-> IF ptrs[i] \in gone THEN 0 ELSE ptrs[i]]
        w1 == IF n.indirect # 0 /\ cut # ptrs THEN write_data_block(w, n.indirect, <<"ptrs", cut>>) ELSE w
        w2 == free_data_blocks([w1 EXCEPT !.risky = @ \/ gone # {}],
                               gone \cup (IF kept = 0 THEN {n.indirect} \ {0} ELSE {}))
    IN  IF new >= n.size THEN write_inode(w, ino, [n EXCEPT !.size = new])
        ELSE write_inode(w2, ino, [n EXCEPT !.size = new,
                !.direct = [i \in DOMAIN @ |-> IF @[i] \in gone THEN 0 ELSE @[i]],
                !.indirect = IF kept = 0 THEN 0 ELSE @])
------------------------------------------------------------------------------
\* Steps.

Work == [inode |-> ram.inode, used |-> ram.used, free |-> ram.free, cursor |-> ram.cursor,
         dirty |-> ram.dirty, risky |-> ram.risky, data |-> disk.data, log |-> << >>]

Meta(w) == [inode |-> w.inode, used |-> w.used, free |-> w.free, cursor |-> w.cursor,
            dirty |-> w.dirty, risky |-> w.risky]

\* lufirafs_sync: dirty metadata blocks in ascending order.
SyncOrder(w) == SetToSortSeq(w.dirty, <)

\* Fault: the rest of the inode table is written from an empty buffer.
PutMeta_alone(d, w, m) ==
    CASE m = 0 -> [d EXCEPT !.free = w.free]
      [] m = 1 -> [d EXCEPT !.used = w.used]
      [] OTHER -> [d EXCEPT !.inode = [i \in Inodes |-> IF InodeBlock(i) = m THEN w.inode[i] ELSE FreeInode]]

PutMeta(d, w, m) ==
    CASE m = 0 -> [d EXCEPT !.free = w.free]
      [] m = 1 -> [d EXCEPT !.used = w.used]
      [] OTHER -> [d EXCEPT !.inode = [i \in Inodes |-> IF InodeBlock(i) = m THEN w.inode[i] ELSE @[i]]]

PutData(d, e) == [d EXCEPT !.data[e[1]] = e[2]]

\* The disk after the first k writes of an operation that ends with sync, or without.
DiskAfter(w, sync, k) ==
    LET data == SubSeq(w.log, 1, Min({k, Len(w.log)}))
        meta == IF sync /\ k > Len(w.log) THEN SubSeq(SyncOrder(w), 1, k - Len(w.log)) ELSE << >>
    IN  FoldLeft(LAMBDA d, m : PutMeta(d, w, m), FoldLeft(PutData, disk, data), meta)

\* An operation comes to its end, or the power fails after k of its disk writes.
Finish(w, sync, open) ==
    LET n == Len(w.log) + (IF sync THEN Cardinality(w.dirty) ELSE 0)
    IN  \/ /\ ram' = IF sync THEN [Meta(w) EXCEPT !.dirty = {}, !.risky = FALSE] ELSE Meta(w)
           /\ disk' = DiskAfter(w, sync, n)
           /\ fd' = open
           /\ UNCHANGED <<crashes, exposed>>
        \/ \E k \in 0..n - 1 :
            /\ crashes < MaxCrash
            /\ ram' = Off
            /\ disk' = DiskAfter(w, sync, k)
            /\ fd' = [f \in DOMAIN fd |-> Off]
            /\ crashes' = crashes + 1
            /\ exposed' = w.risky

Running == ram # Off /\ ~exposed
NoFiles == [f \in 1..MaxFd |-> Off]
Busy(ino) == \E f \in DOMAIN fd : fd[f] # Off /\ fd[f].ino = ino

Paths == {<<a>> : a \in Names} \cup {<<a, b>> : a, b \in Names}
Strings == UNION {[1..k -> Data] : k \in 1..MaxWrite}

\* lufirafs_resolve_parent, for a parent that is a directory.
Parents(w, path) == {i \in {lookup(w, RootInode, Front(path))} : i # 0 /\ w.inode[i].mode = "dir"}

\* A call that fails and changes nothing is a stuttering step, here and below.
CreateIn(path, mode, sync) ==
    /\ Running
    /\ \E w \in {Work} : \E parent \in Parents(w, path) :
       \E r \in {create(w, parent, Last(path), mode)} :
          r.w # w /\ Finish(r.w, r.ok /\ sync, fd)

create_at(path) == CreateIn(path, "file", TRUE)

\* Bound: after a power failure files are created, removed and appended to, no more.
MayOpen == crashes = 0

mkdir_at(path) == MayOpen /\ CreateIn(path, "dir", TRUE)

\* The log file is created without a sync: it is on the disk with the first line.
klog_init(path) == MayOpen /\ CreateIn(path, "file", FALSE)

\* vfs_lufirafs_unlink_at, of a file that is not open.
unlink_at(path) ==
    /\ Running
    /\ \E w \in {Work} : \E parent \in Parents(w, path) :
        /\ ~Busy(lookup(w, RootInode, path))
        /\ \E r \in {unlink(w, parent, Last(path))} : r.ok /\ Finish(r.w, TRUE, fd)

\* To read, to replace, to extend.
OpenModes == {{}, {"creat", "trunc"}, {"creat", "append"}}

\* vfs_lufirafs_open_at, and vfs_open() with O_CREAT in front of it.  O_TRUNC is
\* not followed by a sync.
open_at(f, path, flags) ==
    LET file(i, size) == [ino |-> i, size |-> size, append |-> "append" \in flags,
                          offset |-> IF "append" \in flags THEN size ELSE 0]
    IN  /\ Running /\ MayOpen /\ fd[f] = Off
        /\ \E w \in {Work} : \E ino \in {lookup(w, RootInode, path)} :
           \/ /\ ino # 0 /\ w.inode[ino].mode # "dir"
              /\ \E t \in {IF "trunc" \in flags THEN truncate(w, ino, 0) ELSE w} :
                    Finish(t, FALSE, [fd EXCEPT ![f] = file(ino, t.inode[ino].size)])
           \/ /\ ino = 0 /\ "creat" \in flags
              /\ \E parent \in Parents(w, path) :
                 \E r \in {create(w, parent, Last(path), "file")} :
                    r.w # w /\ Finish(r.w, r.ok, IF ~r.ok THEN fd
                                      ELSE [fd EXCEPT ![f] = file(lookup(r.w, RootInode, path), 0)])

\* lufirafs_file_write: at the cached size with O_APPEND, synced when anything was written.
file_write(f, s) ==
    /\ Running /\ fd[f] # Off
    /\ LET offset == IF fd[f].append THEN fd[f].size ELSE fd[f].offset
       IN  \E r \in {With(Work, LAMBDA w : write(w, fd[f].ino, offset, s))} :
              Finish(r.w, r.done > 0,
                     IF r.done = 0 THEN fd
                     ELSE [fd EXCEPT ![f].offset = offset + r.done, ![f].size = r.w.inode[fd[f].ino].size])

\* lufirafs_file_seek clips to the cached size, lufirafs_file_read to the real one.
file_seek(f, offset) ==
    /\ Running /\ fd[f] # Off /\ offset \in (0..fd[f].size) \ {fd[f].offset}
    /\ fd' = [fd EXCEPT ![f].offset = offset]
    /\ UNCHANGED <<ram, disk, crashes, exposed>>

file_read(f, n) ==
    /\ Running /\ fd[f] # Off
    /\ \E got \in {Min({n, ram.inode[fd[f].ino].size - fd[f].offset})} :
        /\ got > 0
        /\ fd' = [fd EXCEPT ![f].offset = @ + got]
    /\ UNCHANGED <<ram, disk, crashes, exposed>>

file_close(f) ==
    /\ Running /\ fd[f] # Off
    /\ fd' = [fd EXCEPT ![f] = Off]
    /\ UNCHANGED <<ram, disk, crashes, exposed>>

\* The kernel's own writers: klog(), users_add() and groups_add() append a line, and
\* rewrite_passwd_file() empties the file and writes it anew, all before one sync.
klog(path, s) ==
    /\ Running
    /\ \E w \in {Work} : \E ino \in {lookup(w, RootInode, path)} \ {0} :
        /\ w.inode[ino].mode = "file"
        /\ \E r \in {write(w, ino, w.inode[ino].size, s)} : Finish(r.w, TRUE, fd)

rewrite_passwd_file(path, s) ==
    /\ Running /\ MayOpen
    /\ \E w \in {Work} : \E ino \in {lookup(w, RootInode, path)} \ {0} :
        /\ w.inode[ino].mode = "file"
        /\ \E r \in {With(truncate(w, ino, 0), LAMBDA t : write(t, ino, 0, s))} : Finish(r.w, r.done > 0, fd)

\* lufirafs_init reads the metadata; the cursor starts at the first data block.
mount ==
    /\ ram = Off
    /\ ram' = [inode |-> disk.inode, used |-> disk.used, free |-> disk.free, cursor |-> 1,
               dirty |-> {}, risky |-> FALSE]
    /\ UNCHANGED <<disk, fd, crashes, exposed>>

\* sys_reboot, sys_shutdown: lufirafs_flush, then the machine goes down.
reboot ==
    /\ ram # Off
    /\ disk' = DiskAfter(Work, TRUE, Cardinality(ram.dirty))
    /\ ram' = Off
    /\ fd' = NoFiles
    /\ UNCHANGED <<crashes, exposed>>

\* Between two calls.
power_fails ==
    /\ ram # Off /\ crashes < MaxCrash
    /\ ram' = Off /\ fd' = NoFiles
    /\ crashes' = crashes + 1
    /\ exposed' = (exposed \/ ram.risky)
    /\ UNCHANGED disk

\* cmd_format of mkfs_lufirafs, the host's tool: an empty root with "." and "..".
cmd_format ==
    LET dots == [NoEnts EXCEPT ![0] = [ino |-> RootInode, name |-> "."],
                               ![1] = [ino |-> RootInode, name |-> ".."]]
    IN  [inode |-> [i \in Inodes |-> IF i # RootInode THEN FreeInode
                        ELSE [FreeInode EXCEPT !.mode = "dir", !.size = BLOCK_SIZE, !.direct[0] = 1]],
         used |-> {1}, free |-> DataBlocks - 1,
         data |-> [b \in Blocks |-> IF b = 1 THEN <<"ents", dots>> ELSE ZeroBlock]]

\* The tool has the kernel's algorithms without a log, a cursor or a sync; it frees
\* nothing, so that the first free block is the next one.  A full image ends it.
Loaded(d) == [inode |-> d.inode, used |-> d.used, free |-> d.free, cursor |-> 1,
              dirty |-> {}, risky |-> FALSE, data |-> d.data, log |-> << >>]

ensure_dir_path(w, path) ==
    IF path = << >> THEN [ok |-> TRUE, w |-> w, ino |-> RootInode]
    ELSE With(lookup(w, RootInode, path), LAMBDA ino :
         With(IF ino # 0 THEN [ok |-> TRUE, w |-> w] ELSE create(w, RootInode, path[1], "dir"), LAMBDA r :
            [ok |-> r.ok, w |-> r.w, ino |-> lookup(r.w, RootInode, path)]))

cmd_put(d, path, s) ==
    With(ensure_dir_path(Loaded(d), Front(path)), LAMBDA up :
    With(IF up.ok THEN create(up.w, up.ino, Last(path), "file") ELSE up, LAMBDA r :
    With(IF r.ok THEN write(r.w, lookup(r.w, RootInode, path), 0, s) ELSE [done |-> -1, w |-> r.w], LAMBDA q :
        [ok |-> q.done = Len(s),
         disk |-> [inode |-> q.w.inode, used |-> q.w.used, free |-> q.w.free, data |-> q.w.data]])))

\* An image with nothing or one file on it.
Images ==
    {cmd_format} \cup
    {r.disk : r \in {q \in {cmd_put(cmd_format, path, s) : path \in Paths, s \in Strings} : q.ok}}

Init ==
    /\ ram = Off
    /\ disk \in Images
    /\ fd = NoFiles
    /\ crashes = 0 /\ exposed = FALSE

Next ==
    \/ \E path \in Paths :
        \/ create_at(path) \/ mkdir_at(path) \/ klog_init(path)
        \/ unlink_at(path)
        \/ \E f \in 1..MaxFd, flags \in OpenModes : open_at(f, path, flags)
        \/ \E s \in Strings : klog(path, s) \/ rewrite_passwd_file(path, s)
    \/ \E f \in 1..MaxFd :
        \/ \E s \in Strings : file_write(f, s)
        \/ \E n \in 0..MaxFile : file_seek(f, n) \/ file_read(f, n)
        \/ file_close(f)
    \/ mount
    \/ reboot
    \/ power_fails

Spec == Init /\ [][Next]_vars

------------------------------------------------------------------------------
\* What the tree of names looks like, in RAM or on the disk.

\* The inode each path leads to.
Tree(w) ==
    With([a \in Names |-> lookup(w, RootInode, <<a>>)], LAMBDA top :
    With([p \in Paths |-> IF Len(p) = 1 THEN top[p[1]] ELSE lookup(w, top[p[1]], Tail(p))], LAMBDA ino :
        [p \in {q \in Paths : ino[q] # 0} |-> ino[p]]))

OnDisk == [inode |-> disk.inode, used |-> disk.used, data |-> disk.data]
Current == IF ram = Off THEN OnDisk ELSE Work

Reached(w) == With(Tree(w), LAMBDA t : {RootInode} \cup {t[p] : p \in DOMAIN t})

\* Every block an inode points at, also beyond its size.
Owned(w, ino) ==
    LET n == w.inode[ino]
        direct == {n.direct[i] : i \in DOMAIN n.direct}
        ptrs == IF n.indirect = 0 THEN {}
                ELSE {PtrsIn(w.data[n.indirect])[i] : i \in 0..PTRS_PER_BLOCK - 1}
    IN  (direct \cup ptrs \cup {n.indirect}) \ {0}

\* No two files or directories that a name leads to share a block, and the bitmap
\* has every block they use (alloc_block(), lufirafs.c:88, and the order of the
\* writes of lufirafs_sync(), lufirafs.c:808).  Power failures included, but for
\* those that hit a truncation or the growth of an indirect block.
BlocksExclusive ==
    ~exposed =>
        \A w \in {Current} : \A owned \in {[i \in Reached(w) |-> Owned(w, i)]} :
            /\ \A i \in DOMAIN owned : owned[i] \subseteq w.used
            /\ \A i, j \in DOMAIN owned : i # j => owned[i] \cap owned[j] = {}

\* A power failure in a call costs at most the one file the call works on, when the
\* calls before it ended with lufirafs_sync() (lufirafs.c:799): every other path
\* still leads to the same inode with the same contents.
CrashKeeps ==
    [][ ram # Off /\ ram' = Off /\ ~exposed' /\ ram.dirty = {} =>
          \A before \in {Tree(Work)}, after \in {Tree(OnDisk)'} :
          \E victim \in Inodes : \A p \in DOMAIN before :
             LET i == before[p]
             IN  i # victim /\ ram.inode[i].mode # "free" =>
                   /\ p \in DOMAIN after /\ after[p] = i
                   /\ disk'.inode[i].mode = ram.inode[i].mode
                   /\ ram.inode[i].mode = "file" =>
                        contents(OnDisk', disk'.inode[i]) = contents(Work, ram.inode[i]) ]_vars

\* Blocks are lost only by a call that finds the disk full, and by power failures
\* (lufirafs_create(), lufirafs.c:523, and lufirafs_unlink(), lufirafs.c:558).
InUse(w) == UNION {Owned(w, i) : i \in {k \in Inodes : w.inode[k].mode # "free"}}
LossOnlyWhenFull ==
    [][ ram # Off /\ ram' # Off /\ crashes = 0 =>
          \/ ram'.used = Blocks
          \/ ram'.used \ InUse(Work)' \subseteq ram.used \ InUse(Work) ]_vars


\* Until the power fails LufiraFS is a tree of names in which one call changes one
\* path (FileTree).
tree ==
    IF crashes > 0 THEN Lost
    ELSE With(Current, LAMBDA w : With(Tree(w), LAMBDA t :
            [p \in DOMAIN t |-> LET n == w.inode[t[p]]
                                IN  IF n.mode = "dir" THEN Dir ELSE contents(w, n)]))
Names_ == INSTANCE FileTree WITH tree <- tree
=============================================================================
