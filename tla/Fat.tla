-------------------------------- MODULE Fat ---------------------------------
(***************************************************************************)
(* FAT12/16/32 on a USB stick (fs/fat/fat.c, fs/fat/fat_mount.c): the FAT, *)
(* the root directory, which is the only one the driver enters, and the    *)
(* clusters of data.  FAT and root live in RAM and are written back by     *)
(* fat_sync() at the end of every call; the three variants differ in the   *)
(* last slot of the root, which FAT32 does not use while it is the end.    *)
(*                                                                         *)
(* A volume is a record; an operation gives [v, ok], the volume after it   *)
(* and whether it returned 0.  Names are 8.3 names already.  A file is     *)
(* read when it is opened and rewritten as a whole by every write.         *)
(***************************************************************************)
EXTENDS Units, SequencesExt

CONSTANTS Clusters,     \* 2..max_cluster - 1
          RootEntries,  \* slots of the root directory
          Dir

EOC == 99
End == [st |-> "end", name |-> "", dir |-> FALSE, first |-> 0, size |-> 0]
Del == [End EXCEPT !.st = "del"]

\* fat_init of a formatted stick.  The root of FAT32 is the cluster 2.
FatFresh(fat32) ==
    [kind |-> "fat", fat32 |-> fat32,
     fat |-> [c \in Clusters |-> IF fat32 /\ c = 2 THEN EOC ELSE 0],
     root |-> [i \in 1..RootEntries |-> End],
     data |-> [c \in Clusters |-> ZeroUnits]]

FreeClusters(v) == {c \in Clusters : v.fat[c] = 0}

\* The clusters of a file in order, as fat_read_file and free_cluster_chain walk them.
RECURSIVE Chain(_, _)
Chain(v, c) == IF c \notin Clusters THEN << >> ELSE <<c>> \o Chain(v, v.fat[c])

\* What a free cluster holds is not seen by anyone.
free_cluster_chain(v, first) ==
    With(ToSet(Chain(v, first)), LAMBDA gone :
        [v EXCEPT !.fat = [c \in Clusters |-> IF c \in gone THEN 0 ELSE @[c]],
                  !.data = [c \in Clusters |-> IF c \in gone THEN ZeroUnits ELSE @[c]]])

\* Slots in front of the end of the directory.
Listed(v) == {i \in 1..RootEntries : \A j \in 1..i : v.root[j].st # "end"}
Used(v) == {i \in Listed(v) : v.root[i].st = "used"}

\* find_entry_in_dir: the first slot with the name, 0 for none.
find_entry(v, name) ==
    LET S == {i \in Used(v) : v.root[i].name = name} IN IF S = {} THEN 0 ELSE Min(S)

\* find_free_dir_entry: the first slot that is deleted or the end, 0 for none.
find_free_dir_entry(v) ==
    LET S == {i \in 1..RootEntries : /\ v.root[i].st # "used"
                                     /\ ~(v.fat32 /\ i = RootEntries /\ v.root[i].st = "end")}
    IN  IF S = {} THEN 0 ELSE Min(S)

\* The slot is filled, and the one behind it becomes the end of the directory,
\* whatever it was.
TakeSlot(v, i, e) ==
    [v EXCEPT !.root = [j \in 1..RootEntries |->
        IF j = i THEN e ELSE IF j = i + 1 THEN End ELSE v.root[j]]]

Refused(v) == [v |-> v, ok |-> FALSE]

fat_create_file(v, name) ==
    With(find_free_dir_entry(v), LAMBDA i :
        IF find_entry(v, name) # 0 \/ i = 0 THEN Refused(v)
        ELSE [v |-> TakeSlot(v, i, [End EXCEPT !.st = "used", !.name = name]), ok |-> TRUE])

\* The cluster of a new directory holds "." and "..": nothing can be added to it.
fat_mkdir(v, name) ==
    With(find_free_dir_entry(v), LAMBDA i : With(FreeClusters(v), LAMBDA free :
        IF find_entry(v, name) # 0 \/ i = 0 \/ free = {} THEN Refused(v)
        ELSE With(Min(free), LAMBDA c :
            [v |-> [TakeSlot(v, i, [End EXCEPT !.st = "used", !.name = name, !.dir = TRUE, !.first = c])
                        EXCEPT !.fat[c] = EOC, !.data[c] = Cut(<<".", "..">>, UNITS)],
             ok |-> TRUE])))


fat_rm(v, name) ==
    With(find_entry(v, name), LAMBDA i :
        IF i = 0 THEN Refused(v)
        ELSE [v |-> [free_cluster_chain(v, v.root[i].first) EXCEPT !.root[i] = Del], ok |-> TRUE])

\* fat_write_file: the old chain is freed first.  When the new one does not fit,
\* the entry still names the old one.
fat_write_file(v, name, s) ==
    With(find_entry(v, name), LAMBDA i :
    With(free_cluster_chain(v, v.root[i].first), LAMBDA v1 :
    With(SetToSortSeq(FreeClusters(v1), <), LAMBDA free :
    With(SubSeq(free, 1, Min({NBlocks(Len(s)), Len(free)})), LAMBDA mine :
        LET pos(c) == CHOOSE k \in DOMAIN mine : mine[k] = c
            Next(k) == IF k = Len(mine) THEN EOC ELSE mine[k + 1]
        IN  IF NBlocks(Len(s)) > Len(free) THEN Refused(v1)
            ELSE [v |-> [v1 EXCEPT
                    !.fat = [c \in Clusters |-> IF c \in ToSet(mine) THEN Next(pos(c)) ELSE @[c]],
                    !.data = [c \in Clusters |-> IF c \in ToSet(mine) THEN BlockOf(s, pos(c)) ELSE @[c]],
                    !.root[i].first = IF mine = << >> THEN 0 ELSE mine[1],
                    !.root[i].size = Len(s)],
                  ok |-> TRUE]))))

\* fat_read_file of the whole file.
fat_read_file(v, i) ==
    With(Chain(v, v.root[i].first), LAMBDA chain :
        Cut(FlattenSeq([k \in 1..Len(chain) |-> v.data[chain[k]]]), v.root[i].size))

------------------------------------------------------------------------------
\* fat_mount.c.

\* vfs_fat_open: a file that exists is read at once, unless it is to be replaced;
\* the stick is not touched by O_TRUNC.
FatOpen(v, name, flags) ==
    With(find_entry(v, name), LAMBDA i :
    With(IF i = 0 \/ "trunc" \in flags THEN << >> ELSE fat_read_file(v, i), LAMBDA buf :
    With(IF i # 0 THEN [v |-> v, ok |-> TRUE]
         ELSE IF "creat" \in flags THEN fat_create_file(v, name) ELSE Refused(v), LAMBDA r :
        [v |-> r.v, ok |-> r.ok,
         h |-> [path |-> <<name>>, buf |-> buf, append |-> "append" \in flags,
                offset |-> IF "append" \in flags THEN Len(buf) ELSE 0]])))

\* fat_vfs_file_write: into the buffer, then the whole file.
FatWrite(v, h, s) ==
    With(IF h.append THEN Len(h.buf) ELSE h.offset, LAMBDA offset :
    With(Overwrite(h.buf, offset, s, "?"), LAMBDA buf :
    With(fat_write_file(v, h.path[1], buf), LAMBDA r :
        [v |-> r.v, ok |-> r.ok, h |-> [h EXCEPT !.buf = buf, !.offset = offset + Len(s)]])))

------------------------------------------------------------------------------
FatTree(v) ==
    [p \in {<<v.root[i].name>> : i \in Used(v)} |->
        LET i == find_entry(v, p[1]) IN IF v.root[i].dir THEN Dir ELSE fat_read_file(v, i)]
=============================================================================
