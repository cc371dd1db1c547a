------------------------------ MODULE Volumes -------------------------------
(***************************************************************************)
(* The filesystems that are mounted beside the root filesystem, as the     *)
(* calls of vfs.c reach them: FAT, exFAT and ext2 on a USB stick and the   *)
(* filesystem in memory.  One volume of one of these kinds is mounted;     *)
(* handles are opened, written and closed on it.                           *)
(*                                                                         *)
(* Callers do what the code counts on: a path is not removed while it is   *)
(* open, a directory is not opened for writing, and a volume is unmounted  *)
(* when no handle is open on it.                                           *)
(***************************************************************************)
EXTENDS Integers, Sequences, FiniteSets, FiniteSetsExt, SequencesExt

CONSTANTS UNITS, Clusters, ExClusters, EXFAT_SLOTS, SLOTS, CACHE_SLOTS, RootEntries, InodeCount, DIRECT, PTRS, HeapUnits,
          Names, Data,
          Dir, Lost,    \* model values for the tree of names
          Kinds,        \* the kinds of volume of an instance
          MaxWrite,     \* bound on the units one call writes
          MaxOffset,    \* bound on the places to seek to
          MaxFd         \* handles

VARIABLES vol,   \* the volume
          fd,    \* handles; << >> is a free one
          hurt   \* the volume was damaged, in one of the ways Damage lists

vars == <<vol, fd, hurt>>

F == INSTANCE Fat
X == INSTANCE ExFat WITH SLOTS <- EXFAT_SLOTS, Clusters <- ExClusters
E == INSTANCE Ext2
R == INSTANCE RamFs

With(v, G(_)) == CHOOSE y \in {G(x) : x \in {v}} : TRUE

\* Sticks as they can be plugged in.
Fresh ==
    (IF "fat" \in Kinds THEN {F!FatFresh(FALSE), F!FatFresh(TRUE)} ELSE {}) \cup
    (IF "exfat" \in Kinds THEN {X!ExFatFresh} ELSE {}) \cup
    (IF "ext2" \in Kinds THEN {E!Ext2Fresh(TRUE), E!Ext2Fresh(FALSE)} \cup
                              {E!Ext4Image(n, d) : n \in Names, d \in 0..1} ELSE {}) \cup
    (IF "ramfs" \in Kinds THEN {R!RamFresh} ELSE {})

\* Paths that are used: a FAT volume has one directory; elsewhere a directory of
\* the root has one name (a bound on the instance).
Paths == {<<n>> : n \in Names} \cup (IF vol.kind = "fat" THEN {} ELSE {<<n, n>> : n \in Names})
Strings == UNION {[1..n -> Data] : n \in 1..MaxWrite}
Flags == {{"creat"}, {"trunc"}, {"creat", "append"}}

------------------------------------------------------------------------------
\* vfs_mkdir, vfs_unlink and vfs_rmdir, vfs_open, vfs_write for one mounted volume.

MkdirOn(v, path) ==
    CASE v.kind = "fat" -> F!fat_mkdir(v, path[1])
      [] v.kind = "exfat" -> X!ExFatMake(v, path, TRUE)
      [] v.kind = "ext2" -> E!Ext2Make(v, path, "dir")
      [] v.kind = "ramfs" -> R!RamMake(v, path, TRUE)

UnlinkOn(v, path) ==
    CASE v.kind = "fat" -> F!fat_rm(v, path[1])
      [] v.kind = "exfat" -> X!ExFatUnlink(v, path)
      [] v.kind = "ext2" -> E!Ext2Unlink(v, path)
      [] v.kind = "ramfs" -> R!ramfs_unlink(v, path)

OpenOn(v, path, flags) ==
    CASE v.kind = "fat" -> F!FatOpen(v, path[1], flags)
      [] v.kind = "exfat" -> X!ExFatOpen(v, path, flags)
      [] v.kind = "ext2" -> E!Ext2Open(v, path, flags)
      [] v.kind = "ramfs" -> R!RamOpen(v, path, flags)

WriteOn(v, h, s) ==
    CASE v.kind = "fat" -> F!FatWrite(v, h, s)
      [] v.kind = "exfat" -> X!ExFatWrite(v, h, s)
      [] v.kind = "ext2" -> E!Ext2Write(v, h, s)
      [] v.kind = "ramfs" -> R!RamWrite(v, h, s)

\* The tree of names on the volume.
TreeOf(v) ==
    CASE v.kind = "fat" -> F!FatTree(v)
      [] v.kind = "exfat" ->
            With(X!ExFatEntries(v), LAMBDA S : [p \in {t[1] : t \in S} |->
                LET e == (CHOOSE t \in S : t[1] = p)[2] IN IF e.dir THEN Dir ELSE X!Contents(v, e)])
      [] v.kind = "ext2" ->
            With(E!Ext2Entries(v), LAMBDA S : [p \in {t[1] : t \in S} |->
                LET i == (CHOOSE t \in S : t[1] = p)[2]
                IN  IF v.inode[i].mode = "dir" THEN Dir ELSE E!ext2_read_file(v, i)])
      [] v.kind = "ramfs" -> R!RamTree(v)

Held(path) == \E f \in DOMAIN fd : fd[f] # << >> /\ fd[f].path = path
IsDirectory(path) == \E t \in {TreeOf(vol)} : path \in DOMAIN t /\ t[path] = Dir

\* How these drivers damage a volume: a FAT directory is cut off behind a slot that
\* is used again; a file whose new chain does not fit keeps its old, freed one; a
\* cached exFAT directory outlives the directory; an ext2 directory loses its name
\* and stays.
Damage(v, w, op, ok) ==
    CASE v.kind = "fat" -> \/ op = "make" /\ ok /\ \E i \in F!Used(v) : v.root[i] # w.root[i]
                           \/ op = "write" /\ ~ok
      [] v.kind = "exfat" -> X!Stale(w)
      [] v.kind = "ext2" -> op = "unlink" /\ v # w /\ v.iused = w.iused
      [] v.kind = "ramfs" -> FALSE

Becomes(op, r) ==
    /\ vol' = r.v
    /\ hurt' = Damage(vol, r.v, op, r.ok)

mkdir(path) ==
    /\ ~hurt
    /\ \E r \in {MkdirOn(vol, path)} : Becomes("make", r)
    /\ UNCHANGED fd

unlink(path) ==
    /\ ~hurt /\ ~Held(path)
    /\ \E r \in {UnlinkOn(vol, path)} : Becomes("unlink", r)
    /\ UNCHANGED fd

open(f, path, flags) ==
    /\ ~hurt /\ fd[f] = << >> /\ ~IsDirectory(path)
    /\ \E r \in {OpenOn(vol, path, flags)} :
        /\ Becomes("make", r)
        /\ fd' = IF r.ok THEN [fd EXCEPT ![f] = r.h] ELSE fd

write(f, s) ==
    /\ ~hurt /\ fd[f] # << >>
    /\ \E r \in {WriteOn(vol, fd[f], s)} :
        /\ Becomes("write", r)
        /\ fd' = [fd EXCEPT ![f] = r.h]

seek(f, offset) ==
    /\ ~hurt /\ fd[f] # << >> /\ fd[f].offset # offset /\ ~fd[f].append
    /\ fd' = [fd EXCEPT ![f].offset = offset]
    /\ UNCHANGED <<vol, hurt>>

close(f) ==
    /\ ~hurt /\ fd[f] # << >>
    /\ fd' = [fd EXCEPT ![f] = << >>]
    /\ UNCHANGED <<vol, hurt>>

\* Unmounted and mounted again: what was in RAM only is read anew.  The filesystem
\* in memory starts empty.
remount ==
    /\ ~hurt /\ \A f \in DOMAIN fd : fd[f] = << >>
    /\ vol.kind \in {"exfat", "fat", "ext2"}
    /\ vol' = IF vol.kind = "exfat" THEN X!dir_cache_get([vol EXCEPT !.cache = << >>], X!RootCluster) ELSE vol
    /\ UNCHANGED <<fd, hurt>>

Init ==
    /\ vol \in Fresh
    /\ fd = [f \in 1..MaxFd |-> << >>]
    /\ hurt = FALSE

Next ==
    \/ \E path \in Paths : mkdir(path) \/ unlink(path)
    \/ \E f \in 1..MaxFd, path \in Paths, flags \in Flags : open(f, path, flags)
    \/ \E f \in 1..MaxFd, s \in Strings : write(f, s)
    \/ \E f \in 1..MaxFd, offset \in 0..MaxOffset : seek(f, offset)
    \/ \E f \in 1..MaxFd : close(f)
    \/ remount

Spec == Init /\ [][Next]_vars

------------------------------------------------------------------------------
\* The sets of blocks of the files and directories of a volume, one pair
\* <<owner, block>> for each.
Owns(v) ==
    CASE v.kind = "fat" ->
            UNION {{<<i, c>> : c \in ToSet(F!Chain(v, v.root[i].first))} : i \in F!Used(v)}
            \cup (IF v.fat32 THEN {<<0, 2>>} ELSE {})
      [] v.kind = "exfat" ->
            UNION {{<<t[1], c>> : c \in ToSet(X!FatChain(v, t[2].first))} : t \in X!ExFatEntries(v)}
            \cup {<< << >>, c>> : c \in ToSet(X!FatChain(v, X!RootCluster))}
      [] v.kind = "ext2" ->
            UNION {{<<t[2], c>> : c \in E!free_all_blocks(v, t[2])} : t \in E!Ext2Entries(v) \cup {<< << >>, E!Root>>}}
      [] v.kind = "ramfs" -> {}

Taken(v) ==
    CASE v.kind = "fat" -> Clusters \ F!FreeClusters(v)
      [] v.kind \in {"exfat", "ext2"} -> v.used
      [] v.kind = "ramfs" -> {}

\* No two files or directories of an undamaged volume share a block, and none has a
\* block that is free for others: chains, extent trees and tables stay apart through
\* every create, write, truncate and unlink, also when the volume is full.
BlocksExclusive ==
    ~hurt => \A o \in {Owns(vol)} : /\ \A a, b \in o : a[2] = b[2] => a[1] = b[1]
                                    /\ {a[2] : a \in o} \subseteq Taken(vol)

\* A cached exFAT directory is the directory on the stick, so that a handle, which
\* names a place in the cached copy, stays right when the slot is dropped and read
\* again (dir_cache_get, exfat.h:26-28, exfat.c:804-805).
CacheCurrent == vol.kind = "exfat" => ~X!Stale(vol)

Unowned(v) == Taken(v) \ {a[2] : a \in Owns(v)}

\* A block is lost (allocated and in no file or directory) only by a call that
\* finds the volume full, and then in exFAT alone.
LossOnlyWhenFull ==
    [][~hurt' => \A o \in {Unowned(vol')} :
            o \subseteq Unowned(vol) \/ (vol'.kind = "exfat" /\ Taken(vol') = ExClusters)]_vars

tree == IF hurt THEN Lost ELSE TreeOf(vol)

Names_ == INSTANCE FileTree

=============================================================================
