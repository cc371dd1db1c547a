------------------------------- MODULE ExFat --------------------------------
(***************************************************************************)
(* exFAT on a USB stick (fs/exfat/exfat.c, fs/exfat/exfat_mount.c): the    *)
(* FAT, the allocation bitmap, nested directories and the cache of         *)
(* directories, which is keyed by a directory's first cluster.  FAT and    *)
(* bitmap live in RAM and are synced at the end of a call; a directory is  *)
(* changed in its cache slot and the slot is written out at once.          *)
(*                                                                         *)
(* A set of directory entries (file, stream, name) is one slot.  A handle  *)
(* is <<first cluster of the directory, slot>>, the root's is <<0, 0>>.    *)
(* Only chains this driver makes are modelled (NoFatChain is never set).   *)
(***************************************************************************)
EXTENDS Units, SequencesExt

CONSTANTS Clusters,     \* 2..cluster_count + 1; 2 is the root
          SLOTS,        \* slots of a directory cluster
          CACHE_SLOTS,  \* EXFAT_DIR_CACHE_SLOTS
          Dir

EOF == 99
RootCluster == 2
RootHandle == <<0, 0>>
NoHandle == <<0, 1>>
EndSlot == [st |-> "end", name |-> "", dir |-> FALSE, first |-> 0, size |-> 0]
DelSlot == [EndSlot EXCEPT !.st = "del"]
EmptyDir == [i \in 1..SLOTS |-> EndSlot]
Zeros == <<"zero">>
SlotsIn(c) == IF c[1] = "ents" THEN c[2] ELSE EmptyDir
UnitsOf(c) == IF c[1] = "data" THEN c[2] ELSE ZeroUnits

\* exfat_init of a formatted stick: an empty root, in no cache slot yet but read
\* in search of the bitmap.
ExFatFresh ==
    [kind |-> "exfat", used |-> {RootCluster},
     fat |-> [c \in Clusters |-> IF c = RootCluster THEN EOF ELSE 0],
     data |-> [c \in Clusters |-> Zeros],
     cache |-> <<[key |-> RootCluster, chain |-> <<RootCluster>>, ents |-> EmptyDir]>>]

RECURSIVE FatChain(_, _)
FatChain(v, c) == IF c \notin Clusters THEN << >> ELSE <<c>> \o FatChain(v, v.fat[c])

\* Fault: the bitmap is not asked.
alloc_cluster_blind(v) == LET c == Max(Clusters)
                          IN  [c |-> c, v |-> [v EXCEPT !.used = @ \cup {c}, !.data[c] = Zeros, !.fat[c] = EOF]]

\* alloc_cluster, and the end mark every caller sets: the first free cluster, 0 for none.
alloc_cluster(v) ==
    LET free == Clusters \ v.used
    IN  IF free = {} THEN [c |-> 0, v |-> v]
        ELSE With(Min(free), LAMBDA c :
                [c |-> c, v |-> [v EXCEPT !.used = @ \cup {c}, !.data[c] = Zeros, !.fat[c] = EOF]])

\* free_cluster for a whole chain; what a free cluster holds is not seen by anyone.
FreeChain(v, first) ==
    With(ToSet(FatChain(v, first)), LAMBDA gone :
        [v EXCEPT !.used = @ \ gone, !.fat = [c \in Clusters |-> IF c \in gone THEN 0 ELSE @[c]],
                  !.data = [c \in Clusters |-> IF c \in gone THEN Zeros ELSE @[c]]])

------------------------------------------------------------------------------
\* The cache of directories: a sequence in order of use, the oldest first.

Uncached(v, key) == [v EXCEPT !.cache = SelectSeq(@, LAMBDA s : s.key # key)]

\* dir_cache_get: the slot of the key moves to the end; else the directory is read,
\* in place of the oldest slot.
dir_cache_get(v, key) ==
    LET hits == SelectSeq(v.cache, LAMBDA s : s.key = key)
        chain == FatChain(v, key)
        fresh == [key |-> key, chain |-> chain,
                  ents |-> FlattenSeq([i \in 1..Len(chain) |-> SlotsIn(v.data[chain[i]])])]
    IN  IF hits # << >> THEN [v EXCEPT !.cache = Append(Uncached(v, key).cache, hits[1])]
        ELSE [v EXCEPT !.cache = Append(IF Len(@) = CACHE_SLOTS THEN Tail(@) ELSE @, fresh)]

\* The slot of the directory that was got last.
Got(v) == Last(v.cache)

\* An entry of that slot is changed, and dir_cache_flush_slot.
PutSlot(v, i, e) ==
    With([Got(v) EXCEPT !.ents[i] = e], LAMBDA s :
        [v EXCEPT !.cache[Len(v.cache)] = s,
                  !.data = [c \in Clusters |->
                      IF c \notin ToSet(s.chain) THEN @[c]
                      ELSE LET k == CHOOSE k \in DOMAIN s.chain : s.chain[k] = c
                           IN  <<"ents", SubSeq(s.ents, (k - 1) * SLOTS + 1, k * SLOTS)>>]])

\* walk_dir up to the first entry never used.
Visited(ents) == {i \in DOMAIN ents : ents[i].st = "used" /\ \A j \in 1..i : ents[j].st # "end"}

\* get_meta: reads the directory that has the entry.
Touch(v, h) == IF h = RootHandle THEN v ELSE dir_cache_get(v, h[1])
Meta(v, h) == IF h = RootHandle THEN [EndSlot EXCEPT !.st = "used", !.dir = TRUE, !.first = RootCluster]
              ELSE Got(v).ents[h[2]]

\* One component of a path: [v, h], h = NoHandle when it is not there.
Find(v, h, name) ==
    With(Touch(v, h), LAMBDA v1 : With(Meta(v1, h), LAMBDA m :
        IF ~m.dir THEN [v |-> v1, h |-> NoHandle]
        ELSE With(dir_cache_get(v1, m.first), LAMBDA v2 :
            With({i \in Visited(Got(v2).ents) : Got(v2).ents[i].name = name}, LAMBDA S :
                [v |-> v2, h |-> IF S = {} THEN NoHandle ELSE <<m.first, Min(S)>>]))))

\* exfat_lookup_path; of the path but its last name it is exfat_resolve_parent.
exfat_lookup_path(v, path) ==
    FoldLeft(LAMBDA acc, name : With(acc, LAMBDA a : IF a.h = NoHandle THEN a ELSE Find(a.v, a.h, name)),
             [v |-> v, h |-> RootHandle], path)

------------------------------------------------------------------------------
\* Operations; each gives [v, ok] and, where a file is made, its handle h.

Fail(v) == [v |-> v, ok |-> FALSE, h |-> NoHandle]

\* exfat_create: into the first entry never used, or into a new cluster of the
\* directory.  Deleted entries are not used again.
exfat_create(v, parent, name, isDir) ==
    LET Enter(v1, i) ==
            IF ~isDir
            THEN [ok |-> TRUE, h |-> <<Got(v1).key, i>>,
                  v |-> PutSlot(v1, i, [EndSlot EXCEPT !.st = "used", !.name = name])]
            ELSE With(alloc_cluster(v1), LAMBDA a :
                    IF a.c = 0   \* the entry is deleted again, in the cache only
                    THEN Fail([v1 EXCEPT !.cache[Len(v1.cache)].ents[i] =
                                    DelSlot])
                    ELSE [ok |-> TRUE, h |-> <<Got(v1).key, i>>,
                          v |-> PutSlot(a.v, i, [EndSlot EXCEPT !.st = "used", !.name = name, !.dir = TRUE,
                                                  !.first = a.c, !.size = UNITS])])
        Grow(v1, key) ==
            With(alloc_cluster(v1), LAMBDA a :
                IF a.c = 0 THEN Fail(v1)
                ELSE With(dir_cache_get([Uncached(a.v, key) EXCEPT !.fat[Last(FatChain(v1, key))] = a.c], key),
                          LAMBDA v2 : Enter(v2, (Len(Got(v2).chain) - 1) * SLOTS + 1)))
    IN  With(Find(v, parent, name), LAMBDA f :
            LET m == Meta(Touch(f.v, parent), parent)
            IN  IF ~m.dir \/ f.h # NoHandle THEN Fail(f.v)
                ELSE With({i \in DOMAIN Got(f.v).ents : Got(f.v).ents[i].st = "end"}, LAMBDA S :
                        IF S # {} THEN Enter(f.v, Min(S)) ELSE Grow(f.v, m.first)))

\* exfat_unlink: a file or an empty directory.  The slot of the directory that is
\* removed stays in the cache.
exfat_unlink(v, parent, name) ==
    With(Find(v, parent, name), LAMBDA f :
        IF f.h = NoHandle THEN Fail(f.v)
        ELSE With(Got(f.v).ents[f.h[2]], LAMBDA e :
             With(IF e.dir THEN dir_cache_get(f.v, e.first) ELSE f.v, LAMBDA v1 :
                IF e.dir /\ Visited(Got(v1).ents) # {} THEN Fail(v1)
                ELSE [ok |-> TRUE, h |-> NoHandle,
                      v |-> PutSlot(dir_cache_get(FreeChain(v1, e.first), f.h[1]), f.h[2],
                                    DelSlot)])))

exfat_truncate(v, h) ==
    With(dir_cache_get(v, h[1]), LAMBDA v1 :
        PutSlot(FreeChain(v1, Got(v1).ents[h[2]].first), h[2],
                [Got(v1).ents[h[2]] EXCEPT !.first = 0, !.size = 0]))

\* cluster_for_index_alloc for the first n clusters of a file: as many as there are.
RECURSIVE GrowTo(_, _, _)
GrowTo(v, first, n) ==
    With(FatChain(v, first), LAMBDA chain :
        IF Len(chain) >= n THEN [v |-> v, first |-> first]
        ELSE With(alloc_cluster(v), LAMBDA a :
                IF a.c = 0 THEN [v |-> v, first |-> first]
                ELSE IF chain = << >> THEN GrowTo(a.v, a.c, n)
                ELSE GrowTo([a.v EXCEPT !.fat[Last(chain)] = a.c], first, n)))

Contents(v, e) ==
    LET chain == FatChain(v, e.first)
    IN  Cut(FlattenSeq([k \in 1..Len(chain) |-> UnitsOf(v.data[chain[k]])]), e.size)

\* exfat_write_file: the clusters are filled up to where the stick is full.  When
\* nothing fits, the entry is not written, and a first cluster is lost.
exfat_write_file(v, h, offset, s) ==
    With(dir_cache_get(v, h[1]), LAMBDA v1 :
    With(Got(v1).ents[h[2]], LAMBDA e :
    With(GrowTo(v1, e.first, NBlocks(offset + Len(s))), LAMBDA g :
    With(FatChain(g.v, g.first), LAMBDA chain :
        LET done == Max({0, Min({Len(s), Len(chain) * UNITS - offset})})
            old == FlattenSeq([k \in 1..Len(chain) |-> UnitsOf(g.v.data[chain[k]])])
            new == Overwrite(old, offset, SubSeq(s, 1, done), "0")
            Filled == [c \in Clusters |->
                        IF c \notin ToSet(chain) THEN g.v.data[c]
                        ELSE <<"data", BlockOf(new, CHOOSE k \in DOMAIN chain : chain[k] = c)>>]
        IN  IF done = 0 THEN [v |-> g.v, done |-> 0]
            ELSE [done |-> done,
                  v |-> PutSlot([g.v EXCEPT !.data = Filled], h[2],
                                [e EXCEPT !.first = g.first, !.size = Max({@, offset + done})])]))))

------------------------------------------------------------------------------
\* exfat_mount.c.

ExFatMake(v, path, isDir) ==
    With(exfat_lookup_path(v, Front(path)), LAMBDA p :
        IF p.h = NoHandle THEN Fail(p.v) ELSE exfat_create(p.v, p.h, Last(path), isDir))

ExFatUnlink(v, path) ==
    With(exfat_lookup_path(v, Front(path)), LAMBDA p :
        IF p.h = NoHandle THEN Fail(p.v) ELSE exfat_unlink(p.v, p.h, Last(path)))

SizeAt(v, h) == Got(dir_cache_get(v, h[1])).ents[h[2]].size

\* vfs_exfat_open, of a file.
ExFatOpen(v, path, flags) ==
    With(exfat_lookup_path(v, path), LAMBDA l :
    With(IF l.h # NoHandle THEN [v |-> l.v, ok |-> TRUE, h |-> l.h]
         ELSE IF "creat" \in flags THEN ExFatMake(l.v, path, FALSE) ELSE Fail(l.v), LAMBDA r :
        IF ~r.ok THEN [v |-> r.v, ok |-> FALSE, h |-> << >>]
        ELSE With(IF "trunc" \in flags /\ SizeAt(r.v, r.h) # 0 THEN exfat_truncate(r.v, r.h) ELSE r.v, LAMBDA v1 :
            [v |-> v1, ok |-> TRUE,
             h |-> [path |-> path, at |-> r.h, append |-> "append" \in flags,
                    offset |-> IF "append" \in flags THEN SizeAt(v1, r.h) ELSE 0]])))

\* exfat_vfs_file_write.
ExFatWrite(v, h, s) ==
    LET offset == IF h.append THEN SizeAt(v, h.at) ELSE h.offset
    IN  With(exfat_write_file(v, h.at, offset, s), LAMBDA r :
            [v |-> r.v, ok |-> r.done > 0,
             h |-> IF r.done = 0 THEN h ELSE [h EXCEPT !.offset = offset + r.done]])

------------------------------------------------------------------------------
\* The entry of a path on the stick itself, without the cache; the tree of names.

EntsOnStick(v, first) ==
    LET chain == FatChain(v, first)
    IN  FlattenSeq([i \in 1..Len(chain) |-> SlotsIn(v.data[chain[i]])])

Below(v, first, at) ==
    LET ents == EntsOnStick(v, first) IN {<<Append(at, ents[i].name), ents[i]>> : i \in Visited(ents)}

ExFatEntries(v) ==
    With(Below(v, RootCluster, << >>), LAMBDA top :
        top \cup UNION {Below(v, t[2].first, t[1]) : t \in {u \in top : u[2].dir}})

\* A slot of the cache differs from the directory it stands for.
Stale(v) ==
    LET dirs == {RootCluster} \cup {t[2].first : t \in {u \in ExFatEntries(v) : u[2].dir}}
        Current(s) == s.chain = FatChain(v, s.key) /\ s.ents = EntsOnStick(v, s.key)
    IN  \E i \in DOMAIN v.cache : v.cache[i].key \in dirs /\ ~Current(v.cache[i])
=============================================================================
