------------------------------- MODULE Mounts -------------------------------
(***************************************************************************)
(* Sticks in the tree of files: the registries of mounts of fat_mount.c,   *)
(* ramfs.c, ext2_mount.c, exfat_mount.c and of the shell's own             *)
(* shell/commands/mount.c, sys_mount and sys_unmount, the order in which   *)
(* vfs.c asks them for a path, and how what a mount changed in RAM gets to *)
(* the stick: dirty sectors, batches, retries.                             *)
(*                                                                         *)
(* A path is a sequence of names.  What the formats do with a sector is    *)
(* the subject of Volumes: here a call changes some sectors.               *)
(***************************************************************************)
EXTENDS Integers, Sequences, FiniteSets, FiniteSetsExt, SequencesExt

CONSTANTS
    Format,     \* the format of each stick: "fat", "ext2" or "exfat"
    Points,   \* where sticks are mounted
    Names,      \* names of the shell's mounts
    Paths,      \* the paths used
    Sectors,    \* of a stick, 1 .. n
    Batch,      \* XHCI_MSD_MAX_BATCH_BLOCKS
    Retries,    \* MOUNT_IO_RETRIES
    MaxChanges, \* bound on the calls that change something
    MaxMounts,  \* of each registry
    MaxFaults   \* bound on the batches that fail for good

Sticks == DOMAIN Format
Kinds == {"fat", "ram", "ext2", "exfat", "shell"}
Slots == 1 .. MaxMounts
Tmp == <<"tmp">>

VARIABLES
    tab,    \* the registries: prefix, stick, contents and dirty sectors in RAM
    disk,   \* contents of the sticks
    there,  \* sticks that are plugged in
    dirs,   \* directories of LufiraFS made for mounts
    doubt,  \* sticks a batch failed on for good, or that were mounted twice
    faults, changes

vars == <<tab, disk, there, dirs, doubt, faults, changes>>

NoMount == [prefix |-> << >>, stick |-> 0, ram |-> << >>, dirty |-> {}]
Fresh == [i \in 1 .. Sectors |-> 0]

Init ==
    /\ tab = [k \in Kinds |-> [i \in Slots |-> IF k = "ram" /\ i = 1 THEN [NoMount EXCEPT !.prefix = Tmp] ELSE NoMount]]
    /\ disk = [s \in Sticks |-> Fresh]
    /\ there = Sticks /\ dirs = {Tmp} /\ doubt = {} /\ faults = 0 /\ changes = 0

Used(k) == {i \in Slots : tab[k][i] # NoMount}
MountsOf(s) == {<<k, i>> \in Kinds \X Slots : tab[k][i].stick = s}

-----------------------------------------------------------------------------
(* find_mount_for_path: the first mount of a registry whose prefix the path begins
   with.  FAT has the root directory only, and passes on what is below. *)
find_mount_for_path(k, path) ==
    LET S == {i \in Used(k) : /\ IsPrefix(tab[k][i].prefix, path)
                              /\ k = "fat" => Len(path) <= Len(tab[k][i].prefix) + 1}
    IN  IF S = {} THEN 0 ELSE Min(S)

(* vfs_open, vfs_mkdir, vfs_unlink, vfs_rmdir, vfs_create: FAT, RAM, ext2, exFAT;
   what none of them has goes to LufiraFS. *)
Route(path) ==
    LET order == <<"fat", "ram", "ext2", "exfat">>
        S == {n \in DOMAIN order : find_mount_for_path(order[n], path) # 0}
    IN  IF S = {} THEN <<"lufira", 0>> ELSE <<order[Min(S)], find_mount_for_path(order[Min(S)], path)>>

(* Those that take a base directory (vfs_open_at and so on) ask the mounts about absolute paths only. *)
RouteAt(path, absolute) == IF absolute THEN Route(path) ELSE <<"lufira", 0>>

(* mountwrite: the shell's registry, by name *)
ByName(name) == LET S == {i \in Used("shell") : tab["shell"][i].prefix = name} IN IF S = {} THEN 0 ELSE Min(S)

-----------------------------------------------------------------------------
(* Sectors to the stick.  `bad' are the batches, named by their first sector, the
   device refuses `fails' times in a row. *)


Try(first, bad, fails) == first \notin bad \/ fails < Retries

(* fat_dev_write: a run in batches, up to the first that fails; the sectors written *)
RunWritten(first, len, bad, fails) ==
    LET n == (len + Batch - 1) \div Batch
        Failed == {b \in 0 .. n - 1 : ~Try(first + b * Batch, bad, fails)}
        good == IF Failed = {} THEN n ELSE Min(Failed)
    IN  first .. first + Min({len, good * Batch}) - 1

(* sync_mount_to_usb of ext2: each batch on its own *)
RunWrittenExt2(first, len, bad, fails) ==
    UNION {first + b * Batch .. first + Min({len, (b + 1) * Batch}) - 1 :
                b \in {b \in 0 .. ((len - 1) \div Batch) : Try(first + b * Batch, bad, fails)}}

(* The runs of dirty sectors: first sector and length *)
Runs(dirty) ==
    {r \in (1 .. Sectors) \X (1 .. Sectors) :
        /\ r[1] .. r[1] + r[2] - 1 \subseteq dirty
        /\ r[1] - 1 \notin dirty /\ r[1] + r[2] \notin dirty}

(* fat_sync, exfat_sync, sync_mount_to_usb: all runs, and the dirty marks go, whatever
   was written. *)
Synced(k, m, bad, fails) ==
    UNION {IF k = "ext2" THEN RunWrittenExt2(r[1], r[2], bad, fails) ELSE RunWritten(r[1], r[2], bad, fails) :
               r \in Runs(m.dirty)}

(* How the device behaves during a call: it takes everything, it fails on some batch
   but not too often, or too often; unplugged, always. *)
Weather(s) ==
    IF s \notin there THEN {[bad |-> 1 .. Sectors, fails |-> Retries]}
    ELSE {[bad |-> {}, fails |-> 0]}
         \cup {[bad |-> {b}, fails |-> f] : b \in 1 .. Sectors, f \in {Retries - 1, Retries}}

Sync(k, m, w) ==
    /\ disk' = [disk EXCEPT ![m.stick] =
                   [i \in 1 .. Sectors |-> IF i \in Synced(k, m, w.bad, w.fails) THEN m.ram[i] ELSE @[i]]]
    /\ faults' = IF w.bad # {} /\ m.stick \in there THEN faults + 1 ELSE faults
    /\ doubt' = IF w.fails = Retries THEN doubt \cup {m.stick} ELSE doubt

-----------------------------------------------------------------------------
(* vfs_fat_mount, vfs_ext2_mount, vfs_exfat_mount, mount_fat_from_usb: the slot the
   mount gets, 0 when it is refused: the prefix is taken in this registry, it is
   full, there is no device, it cannot be read or has another format. *)
mount_slot(k, s, prefix, readable) ==
    LET free == Slots \ Used(k) IN
    IF \/ \E i \in Used(k) : tab[k][i].prefix = prefix
       \/ free = {} \/ s \notin there \/ ~readable
       \/ Format[s] # (IF k = "shell" THEN "fat" ELSE k)
    THEN 0 ELSE Min(free)

Mounted(k, s, prefix) ==
    tab' = [tab EXCEPT ![k][mount_slot(k, s, prefix, TRUE)] =
                [prefix |-> prefix, stick |-> s, ram |-> disk[s], dirty |-> {}]]

(* lufirafs_mkdir_p, then the formats in order: the first that takes it *)
sys_mount(s, prefix, readable) ==
    LET S == {k \in {"fat", "ext2", "exfat"} : mount_slot(k, s, prefix, readable) # 0} IN
    /\ dirs' = dirs \cup {SubSeq(prefix, 1, n) : n \in 1 .. Len(prefix)}
    /\ IF S = {} THEN UNCHANGED <<tab, doubt>>
       ELSE /\ \E k \in S : Mounted(k, s, prefix)
            /\ doubt' = IF MountsOf(s) # {} THEN doubt \cup {s} ELSE doubt
    /\ UNCHANGED <<disk, there, faults, changes>>

(* command_mount *)
command_mount(s, name, readable) ==
    /\ mount_slot("shell", s, name, readable) # 0
    /\ Mounted("shell", s, name)
    /\ doubt' = IF MountsOf(s) # {} THEN doubt \cup {s} ELSE doubt
    /\ UNCHANGED <<disk, there, dirs, faults, changes>>

Unmount(k, i) ==
    /\ \E w \in Weather(tab[k][i].stick) : (w.bad # {} => faults < MaxFaults) /\ Sync(k, tab[k][i], w)
    /\ tab' = [tab EXCEPT ![k][i] = NoMount]
    /\ UNCHANGED <<there, dirs, changes>>

(* sys_unmount: the first registry that has the prefix *)
sys_unmount(prefix) ==
    LET order == <<"fat", "ext2", "exfat">>
        S == {n \in DOMAIN order : \E i \in Used(order[n]) : tab[order[n]][i].prefix = prefix}
    IN  /\ S # {}
        /\ \E i \in Used(order[Min(S)]) : tab[order[Min(S)]][i].prefix = prefix /\ Unmount(order[Min(S)], i)

(* command_unmount, by name *)
command_unmount(name) == ByName(name) # 0 /\ Unmount("shell", ByName(name))

(* A call changes sectors of the mount it reaches, and syncs it *)
Changed(m, S) == [m EXCEPT !.ram = [i \in DOMAIN @ |-> IF i \in S THEN 1 - @[i] ELSE @[i]], !.dirty = @ \cup S]

change(path, absolute, S) ==
    LET k == RouteAt(path, absolute)[1]
        i == RouteAt(path, absolute)[2]
    IN  /\ k \notin {"ram", "lufira"} /\ changes < MaxChanges /\ changes' = changes + 1
        /\ \E m \in {Changed(tab[k][i], S)} :
            /\ \E w \in Weather(m.stick) : (w.bad # {} => faults < MaxFaults) /\ Sync(k, m, w)
            /\ tab' = [tab EXCEPT ![k][i] = [m EXCEPT !.dirty = {}]]
        /\ UNCHANGED <<there, dirs>>

(* mountwrite changes the RAM only; the stick has it after unmount. *)
command_mountwrite(name, S) ==
    /\ ByName(name) # 0 /\ changes < MaxChanges /\ changes' = changes + 1
    /\ tab' = [tab EXCEPT !["shell"][ByName(name)] = Changed(@, S)]
    /\ UNCHANGED <<disk, there, dirs, doubt, faults>>

Unplug(s) ==
    /\ s \in there /\ there' = there \ {s}
    /\ UNCHANGED <<tab, disk, dirs, doubt, faults, changes>>

Changes == {S \in SUBSET (1 .. Sectors) : Cardinality(S) >= Sectors - 1}

Next ==
    \/ \E s \in Sticks, readable \in BOOLEAN :
           (\E p \in Points : sys_mount(s, p, readable)) \/ (\E n \in Names : command_mount(s, n, readable))
    \/ (\E p \in Points : sys_unmount(p)) \/ (\E n \in Names : command_unmount(n))
    \/ \E p \in Paths, absolute \in BOOLEAN, S \in Changes : change(p, absolute, S)
    \/ \E n \in Names, S \in Changes : command_mountwrite(n, S)
    \/ \E s \in Sticks : Unplug(s)

Spec == Init /\ [][Next]_vars

-----------------------------------------------------------------------------

\* What is mounted on a path covers what was there before (the comment above the
\* calls in vfs_open): no two registries hold one prefix.
PrefixHeldOnce ==
    \A k \in Kinds \ {"shell"}, l \in Kinds \ {"shell"} : k # l =>
        \A i \in Used(k), j \in Used(l) : tab[k][i].prefix # tab[l][j].prefix
=============================================================================
