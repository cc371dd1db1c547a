-------------------------------- MODULE Ext2 --------------------------------
(***************************************************************************)
(* ext2 on a USB stick (fs/ext2/ext2.c, fs/ext2/ext2_mount.c): one group of *)
(* blocks and inodes, direct, indirect and doubly indirect blocks, the     *)
(* extent trees another system left, which are read, overwritten and freed *)
(* but never grown, and directory blocks whose records are split and       *)
(* merged.  The image is in RAM; a call that succeeds ends in a sync.      *)
(*                                                                         *)
(* A record of a directory takes one slot for its name; its rec_len, in    *)
(* slots, may be more.  Links beside the ones a directory needs are not    *)
(* modelled.                                                               *)
(***************************************************************************)
EXTENDS Units, SequencesExt

CONSTANTS Clusters,    \* numbers of the blocks behind the tables
          InodeCount,
          DIRECT, PTRS, \* direct blocks of an inode; pointers in a block
          SLOTS,       \* slots of a directory block
          Dir

Root == 1
NoInode == [mode |-> "free", size |-> 0, map |-> <<"ptrs", [k \in 1..DIRECT + 2 |-> 0]>>]
ZeroBlock == <<"zero">>
PtrsIn(b) == IF b[1] = "ptrs" THEN b[2] ELSE [k \in 1..PTRS |-> 0]
UnitsOf(b) == IF b[1] = "data" THEN b[2] ELSE ZeroUnits
Rec(ino, len, name) == [ino |-> ino, len |-> len, name |-> name]

\* ext2_init of a formatted stick.
Ext2Fresh(filetype) ==
    LET b == Min(Clusters)
    IN  [kind |-> "ext2", ftype |-> filetype, used |-> {b}, iused |-> {Root},
         inode |-> [i \in 1..InodeCount |->
                     IF i = Root THEN [NoInode EXCEPT !.mode = "dir", !.size = UNITS, !.map[2][1] = b] ELSE NoInode],
         blk |-> [c \in Clusters |-> IF c # b THEN ZeroBlock
                     ELSE <<"ents", <<Rec(Root, 1, "."), Rec(Root, SLOTS - 1, "..")>> >>]]

\* A stick another system wrote: a file of two blocks with an extent tree, whose
\* second block was set aside and never written.
Ext4Image(name, depth) ==
    With(Ext2Fresh(TRUE), LAMBDA v : With(Min(Clusters), LAMBDA b :
        LET leaf == <<"node", 0, <<[from |-> 0, len |-> 1, init |-> TRUE, at |-> b + 1],
                                   [from |-> 1, len |-> 1, init |-> FALSE, at |-> b + 2]>> >>
            top == IF depth = 0 THEN leaf ELSE <<"node", 1, <<[from |-> 0, len |-> 0, init |-> TRUE, at |-> b + 3]>> >>
        IN  [v EXCEPT !.used = b..(b + 2 + depth), !.iused = {Root, Root + 1},
                      !.inode[Root + 1] = [mode |-> "file", size |-> 2 * UNITS, map |-> top],
                      !.blk = [c \in Clusters |->
                                CASE c = b -> <<"ents", <<Rec(Root, 1, "."), Rec(Root, 1, ".."),
                                                          Rec(Root + 1, SLOTS - 2, name)>> >>
                                  [] c = b + 3 /\ depth = 1 -> leaf
                                  [] OTHER -> ZeroBlock]]))

\* alloc_block: the first free block, zeroed; 0 for none.
alloc_block(v) ==
    LET free == Clusters \ v.used
    IN  IF free = {} THEN [b |-> 0, v |-> v]
        ELSE With(Min(free), LAMBDA b : [b |-> b, v |-> [v EXCEPT !.used = @ \cup {b}, !.blk[b] = ZeroBlock]])

\* free_block; what a free block or inode holds is not seen by anyone.
FreeBlocks(v, S) == [v EXCEPT !.used = @ \ S, !.blk = [c \in Clusters |-> IF c \in S THEN ZeroBlock ELSE @[c]]]
alloc_inode(v) == LET free == (1..InodeCount) \ v.iused IN IF free = {} THEN 0 ELSE Min(free)
free_inode(v, ino) == [v EXCEPT !.iused = @ \ {ino}, !.inode[ino] = NoInode]

------------------------------------------------------------------------------
\* extent_lookup: the block of index i under a node <<"node", depth, entries>>.
RECURSIVE extent_lookup(_, _, _)
extent_lookup(v, node, i) ==
    LET ents == node[3]
        Covers(k) == IF node[2] = 0 THEN i \in ents[k].from..(ents[k].from + ents[k].len - 1)
                     ELSE i >= ents[k].from /\ (k < Len(ents) => i < ents[k + 1].from)
        S == {k \in DOMAIN ents : Covers(k)}
        e == ents[Min(S)]
    IN  IF S = {} THEN 0
        ELSE IF node[2] > 0 THEN extent_lookup(v, v.blk[e.at], i)
        ELSE IF e.init THEN e.at + (i - e.from) ELSE 0

\* free_extent_tree: data blocks, written or not, and the blocks of inner nodes.
RECURSIVE ExtentBlocks(_, _)
ExtentBlocks(v, node) ==
    UNION {IF node[2] = 0 THEN e.at..(e.at + e.len - 1) ELSE {e.at} \cup ExtentBlocks(v, v.blk[e.at])
           : e \in ToSet(node[3])}

\* The pointers to follow to block i of a file: in the inode, then in tables.
Route(i) ==
    LET s == i - DIRECT
        d == s - PTRS
    IN  IF i < DIRECT THEN <<i + 1>>
        ELSE IF s < PTRS THEN <<DIRECT + 1, s + 1>>
        ELSE IF d < PTRS * PTRS THEN <<DIRECT + 2, (d \div PTRS) + 1, (d % PTRS) + 1>>
        ELSE << >>

\* block_for_index: [v, b]; the missing tables and the block are made on the way,
\* and a table stays when the next block is not there.  An extent tree is not grown.
block_for_index(v, ino, i, allocate) ==
    LET PtrAt(u, t, k) == IF t = 0 THEN u.inode[ino].map[2][k] ELSE PtrsIn(u.blk[t])[k]
        SetPtr(u, t, k, b) ==
            IF t = 0 THEN [u EXCEPT !.inode[ino].map[2][k] = b]
            ELSE [u EXCEPT !.blk[t] = <<"ptrs", [PtrsIn(@) EXCEPT ![k] = b]>>]
        Follow(a, k) ==
            IF a.t < 0 THEN a
            ELSE With(PtrAt(a.v, a.t, k), LAMBDA p :
                IF p # 0 THEN [a EXCEPT !.t = p]
                ELSE IF ~allocate THEN [a EXCEPT !.t = -1]
                ELSE With(alloc_block(a.v), LAMBDA n :
                        IF n.b = 0 THEN [a EXCEPT !.t = -1]
                        ELSE [v |-> SetPtr(n.v, a.t, k, n.b), t |-> n.b]))
    IN  IF v.inode[ino].map[1] = "node" THEN [v |-> v, b |-> extent_lookup(v, v.inode[ino].map, i)]
        ELSE With(FoldLeft(LAMBDA acc, k : With(acc, LAMBDA a : Follow(a, k)), [v |-> v, t |-> 0], Route(i)),
                  LAMBDA a : [v |-> a.v, b |-> Max({a.t, 0})])

BlockAt(v, ino, i) == block_for_index(v, ino, i, FALSE).b

\* free_all_blocks: what hangs off an inode.
RECURSIVE Reach(_, _, _)
Reach(v, b, depth) ==
    IF b = 0 THEN {}
    ELSE {b} \cup IF depth = 0 THEN {} ELSE UNION {Reach(v, p, depth - 1) : p \in ToSet(PtrsIn(v.blk[b]))}

free_all_blocks(v, ino) ==
    LET m == v.inode[ino].map
    IN  IF m[1] = "node" THEN ExtentBlocks(v, m)
        ELSE UNION {Reach(v, m[2][k], Max({0, k - DIRECT})) : k \in DOMAIN m[2]}

\* ext2_read_file of the whole file; a hole is read as zeros.
ext2_read_file(v, ino) ==
    [k \in 1..v.inode[ino].size |->
        LET b == BlockAt(v, ino, (k - 1) \div UNITS)
        IN  IF b = 0 THEN "0" ELSE UnitsOf(v.blk[b])[((k - 1) % UNITS) + 1]]

\* ext2_write_file: [v, done].  The size is not moved when the stick is full half way.
RECURSIVE WriteUnits(_, _, _, _, _)
WriteUnits(v, ino, offset, s, done) ==
    IF done = Len(s) THEN [v |-> v, done |-> done]
    ELSE With(block_for_index(v, ino, (offset + done) \div UNITS, TRUE), LAMBDA r :
            IF r.b = 0 THEN [v |-> r.v, done |-> done]
            ELSE WriteUnits([r.v EXCEPT !.blk[r.b] =
                                <<"data", [UnitsOf(@) EXCEPT ![((offset + done) % UNITS) + 1] = s[done + 1]]>>],
                            ino, offset, s, done + 1))

ext2_write_file(v, ino, offset, s) ==
    With(WriteUnits(v, ino, offset, s, 0), LAMBDA r :
        IF r.done < Len(s) THEN r
        ELSE [r EXCEPT !.v.inode[ino].size = Max({@, offset + Len(s)})])

ext2_truncate(v, ino) ==
    [FreeBlocks(v, free_all_blocks(v, ino)) EXCEPT !.inode[ino].map = NoInode.map, !.inode[ino].size = 0]

------------------------------------------------------------------------------
\* Directories: the records of all blocks with their places <<block, position>>.

DirBlocks(v, ino) == [i \in 1..NBlocks(v.inode[ino].size) |-> BlockAt(v, ino, i - 1)]
Records(v, ino) ==
    With(DirBlocks(v, ino), LAMBDA bs :
        UNION {{<<i, k, bs[i]>> : k \in DOMAIN v.blk[bs[i]][2]} : i \in DOMAIN bs})
RecAt(v, r) == v.blk[r[3]][2][r[2]]
First(S) == CHOOSE r \in S : \A q \in S : r[1] < q[1] \/ (r[1] = q[1] /\ r[2] <= q[2])

\* find_in_dir: the inode of a name, 0 for none.
Named(v, ino, name) == {r \in Records(v, ino) : RecAt(v, r).ino # 0 /\ RecAt(v, r).name = name}
find_in_dir(v, ino, name) ==
    IF ino = 0 \/ v.inode[ino].mode # "dir" THEN 0
    ELSE With(Named(v, ino, name), LAMBDA S : IF S = {} THEN 0 ELSE RecAt(v, First(S)).ino)

ext2_lookup_path(v, path) == FoldLeft(LAMBDA ino, name : find_in_dir(v, ino, name), Root, path)

Children(v, ino) == {r \in Records(v, ino) : RecAt(v, r).ino # 0 /\ RecAt(v, r).name \notin {".", ".."}}

\* insert_dirent: behind the first record with room, in place of a record that is
\* out of use, or in a new block; [v, ok].
insert_dirent(v, dir, ino, name) ==
    With({r \in Records(v, dir) : RecAt(v, r).ino = 0 \/ RecAt(v, r).len > 1}, LAMBDA S :
        IF S # {}
        THEN With(First(S), LAMBDA r : With(RecAt(v, r), LAMBDA e :
                [ok |-> TRUE,
                 v |-> [v EXCEPT !.blk[r[3]] = <<"ents",
                        IF e.ino = 0 THEN [@[2] EXCEPT ![r[2]] = Rec(ino, e.len, name)]
                        ELSE InsertAt([@[2] EXCEPT ![r[2]].len = 1], r[2] + 1, Rec(ino, e.len - 1, name))>>]]))
        ELSE With(block_for_index(v, dir, NBlocks(v.inode[dir].size), TRUE), LAMBDA n :
                IF n.b = 0 THEN [v |-> n.v, ok |-> FALSE]
                ELSE [ok |-> TRUE, v |-> [n.v EXCEPT !.inode[dir].size = @ + UNITS,
                                                     !.blk[n.b] = <<"ents", <<Rec(ino, SLOTS, name)>> >>]]))

\* ext2_create and ext2_mkdir: the inode, for a directory its block, then the name;
\* what was taken is given back when a later step fails.
ext2_create(v, parent, name, mode) ==
    LET fail == [v |-> v, ok |-> FALSE]
    IN  IF find_in_dir(v, parent, name) # 0 \/ v.inode[parent].mode # "dir" \/ alloc_inode(v) = 0 THEN fail
        ELSE With(alloc_inode(v), LAMBDA ino :
             With([v EXCEPT !.iused = @ \cup {ino}, !.inode[ino] = [NoInode EXCEPT !.mode = mode]], LAMBDA v1 :
             With(IF mode = "dir" THEN block_for_index(v1, ino, 0, TRUE) ELSE [v |-> v1, b |-> 0], LAMBDA n :
                IF mode = "dir" /\ n.b = 0 THEN [v |-> free_inode(n.v, ino), ok |-> FALSE]
                ELSE With(IF mode = "file" THEN n.v
                          ELSE [n.v EXCEPT !.inode[ino].size = UNITS,
                                  !.blk[n.b] = <<"ents", <<Rec(ino, 1, "."), Rec(parent, SLOTS - 1, "..")>> >>],
                     LAMBDA v2 : With(insert_dirent(v2, parent, ino, name), LAMBDA r :
                        IF r.ok THEN r
                        ELSE [v |-> free_inode(FreeBlocks(r.v, {n.b}), ino), ok |-> FALSE])))))

\* The record is merged with the one before it in its block, or put out of use.
DropRecord(v, r) ==
    [v EXCEPT !.blk[r[3]] = <<"ents",
        IF r[2] = 1 THEN [@[2] EXCEPT ![1].ino = 0]
        ELSE RemoveAt([@[2] EXCEPT ![r[2] - 1].len = @ + RecAt(v, r).len], r[2])>>]

\* ext2_unlink: the name goes first, also when the directory is found not to be empty.
\* Without file types a directory is taken for a file with links left.
ext2_unlink(v, parent, name) ==
    IF v.inode[parent].mode # "dir" \/ Named(v, parent, name) = {} THEN [v |-> v, ok |-> FALSE]
    ELSE With(First(Named(v, parent, name)), LAMBDA r : With(RecAt(v, r).ino, LAMBDA ino :
         With(DropRecord(v, r), LAMBDA v1 :
            IF v.inode[ino].mode = "dir" /\ (~v.ftype \/ Children(v1, ino) # {})
            THEN [v |-> v1, ok |-> ~v.ftype]
            ELSE [v |-> free_inode(FreeBlocks(v1, free_all_blocks(v1, ino)), ino), ok |-> TRUE])))

------------------------------------------------------------------------------
\* ext2_mount.c.

Ext2Make(v, path, mode) ==
    With(ext2_lookup_path(v, Front(path)), LAMBDA p :
        IF p = 0 THEN [v |-> v, ok |-> FALSE] ELSE ext2_create(v, p, Last(path), mode))

Ext2Unlink(v, path) ==
    With(ext2_lookup_path(v, Front(path)), LAMBDA p :
        IF p = 0 THEN [v |-> v, ok |-> FALSE] ELSE ext2_unlink(v, p, Last(path)))

\* vfs_ext2_open, of a file.
Ext2Open(v, path, flags) ==
    With(IF ext2_lookup_path(v, path) # 0 THEN [v |-> v, ok |-> TRUE]
         ELSE IF "creat" \in flags THEN Ext2Make(v, path, "file") ELSE [v |-> v, ok |-> FALSE], LAMBDA r :
        IF ~r.ok THEN [v |-> r.v, ok |-> FALSE, h |-> << >>]
        ELSE With(ext2_lookup_path(r.v, path), LAMBDA ino :
             With(IF "trunc" \in flags /\ r.v.inode[ino].size # 0 THEN ext2_truncate(r.v, ino) ELSE r.v, LAMBDA v1 :
                [v |-> v1, ok |-> TRUE,
                 h |-> [path |-> path, at |-> ino, append |-> "append" \in flags,
                        offset |-> IF "append" \in flags THEN v1.inode[ino].size ELSE 0]])))

\* ext2_vfs_file_write.
Ext2Write(v, h, s) ==
    LET offset == IF h.append THEN v.inode[h.at].size ELSE h.offset
    IN  With(ext2_write_file(v, h.at, offset, s), LAMBDA r :
            [v |-> r.v, ok |-> r.done > 0,
             h |-> IF r.done = 0 THEN h ELSE [h EXCEPT !.offset = offset + r.done]])

------------------------------------------------------------------------------
\* Every path with its inode.
Below(v, ino, at) == {<<Append(at, RecAt(v, r).name), RecAt(v, r).ino>> : r \in Children(v, ino)}

Ext2Entries(v) ==
    With(Below(v, Root, << >>), LAMBDA top :
        top \cup UNION {Below(v, t[2], t[1]) : t \in {u \in top : v.inode[u[2]].mode = "dir"}})
=============================================================================
