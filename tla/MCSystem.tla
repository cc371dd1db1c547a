------------------------------ MODULE MCSystem ------------------------------
(***************************************************************************)
(* The disk drivers, heaps, accounts, loader, mounts and console for TLC,  *)
(* side by side: one of them is chosen at the start and runs.  They do not *)
(* interact in the model; what one uses of another (pages, a stick that    *)
(* refuses a batch) it has for itself.  x1 .. x8 are the variables of the  *)
(* chosen part, in the order of its module, or Off; those of Storage stay  *)
(* as they begin unless the disks run.                                     *)
(***************************************************************************)
EXTENDS Storage

VARIABLES which, x1, x2, x3, x4, x5, x6, x7, x8

Off == "off"

\* A machine with AHCI and its fallback, one with NVMe, one with the old ports only.
MCMachines == {{"ahci", "ata"}, {"nvme"}, {"ata"}}

\* libc.so: two pages of text, a page of constants, a page of data with a pointer
\* and a slot of the library's own PLT.
F(n) == <<"file", n>>
Seg(va, file, memsz, w) == [va |-> va, file |-> file, memsz |-> memsz, w |-> w]
SomeLibc ==
    [segs |-> <<Seg(0, <<F(1), F(2), F(3)>>, 3, FALSE), Seg(4, <<F(4)>>, 1, FALSE),
                Seg(6, <<F(5), F(6)>>, 4, TRUE)>>,
     sym  |-> [puts |-> [value |-> 1, size |-> 1], environ |-> [value |-> 7, size |-> 2]],
     rela |-> <<[at |-> 7, addend |-> 4]>>,
     plt  |-> <<[at |-> 6, sym |-> "puts"]>>]

\* A static program, one that uses libc, one that asks for a symbol libc does not have.
Slot(at, sym) == [type |-> "slot", at |-> at, sym |-> sym]
SomePrograms ==
    <<[segs |-> <<Seg(0, <<F(11), F(12)>>, 2, FALSE), Seg(3, <<F(13)>>, 3, TRUE)>>, dyn |-> FALSE, rela |-> << >>],
      [segs |-> <<Seg(0, <<F(21)>>, 1, FALSE), Seg(2, <<F(22), F(23)>>, 4, TRUE)>>, dyn |-> TRUE,
       rela |-> <<[type |-> "relative", at |-> 2, sym |-> "puts"], [type |-> "copy", at |-> 3, sym |-> "environ"],
                  [type |-> "other", at |-> 2, sym |-> "puts"], Slot(2, "puts")>>],
      [segs |-> <<Seg(0, <<F(31)>>, 1, TRUE)>>, dyn |-> TRUE, rela |-> <<Slot(0, "exit")>>]>>

Heaps == INSTANCE Heap WITH
    Size <- 24, MaxArenas <- 2, Requests <- {1, 5, 30}, MaxLarge <- 1,
    lib <- x1, node <- x2, arenas <- x3, held <- x4, freed <- x5, large <- x6

Accounts == INSTANCE Users WITH
    Names <- {"ann", "bob"}, Passwords <- {"p", "q"}, RootName <- "root", Top <- "/", Own <- "home", Salt <- "salt",
    MaxUsers <- 3, MaxGroups <- 3, MaxFaults <- 1,
    users <- x1, groups <- x2, passwd <- x3, group <- x4, home <- x5, file <- x6, who <- x7,
    faults <- x8

Elf == INSTANCE Loader WITH
    MaxPids <- 2, MaxLoads <- 4, W <- 2, ExePages <- 3, LibPages <- 5, Rams <- {9, 14, 21}, Stores <- {4, 14},
    MaxShared <- 2, Programs <- SomePrograms, Libc <- SomeLibc,
    ram <- x1, free <- x2, mem <- x3, libc <- x4, shm <- x5, proc <- x6, loads <- x7

Mnt == INSTANCE Mounts WITH
    Format <- <<"fat", "ext2", "exfat">>, Points <- {<<"mnt">>}, Names <- {<<"usb">>},
    Paths <- {<<"mnt", "f">>, <<"mnt", "d", "f">>, <<"tmp", "f">>},
    Sectors <- 3, Batch <- 2, Retries <- 3, MaxMounts <- 1, MaxFaults <- 1, MaxChanges <- 1,
    tab <- x1, disk <- x2, there <- x3, dirs <- x4, doubt <- x5, faults <- x6, changes <- x7

\* The window manager presents its whole frame, or one cell of it.
Screen == INSTANCE Console WITH
    W <- 3, H <- 2, Lines <- 4, Tab <- 2, Chars <- {"a"}, Spots <- {<<1, 0>>, <<0, 1>>}, Begun <- {0, 3},
    Frames <- {[x0 |-> 0, y0 |-> 0, x1 |-> 3, y1 |-> 2], [x0 |-> 1, y0 |-> 0, x1 |-> 2, y1 |-> 1]},
    MaxChars <- 3, MaxCalls <- 2,
    con <- x1, stale <- x2, apart <- x3, chars <- x4, calls <- x5

\* The variables a part does not use.
From6 == <<x6, x7, x8>>
From7 == <<x7, x8>>
others == <<x1, x2, x3, x4, x5, x6, From7>>
Off7 == x7 = Off /\ x8 = Off
AllOff == x1 = Off /\ x2 = Off /\ x3 = Off /\ x4 = Off /\ x5 = Off /\ x6 = Off /\ Off7

\* The parts that stop when their bounds on calls, loads or moves are used up.
Bounded == {"disk", "heap", "loader", "mounts"}

MCInit ==
    /\ Init
    /\ \/ which = "disk" /\ AllOff
       \/ which = "heap" /\ Heaps!Init /\ Off7
       \/ which = "users" /\ Accounts!Init
       \/ which = "loader" /\ Elf!Init /\ x8 = Off
       \/ which = "mounts" /\ Mnt!Init /\ x8 = Off
       \/ which = "console" /\ Screen!Init /\ x6 = Off /\ Off7

MCNext ==
    /\ UNCHANGED which
    /\ \/ which = "disk" /\ Next /\ UNCHANGED others
       \/ which = "heap" /\ Heaps!Next /\ UNCHANGED <<vars, From7>>
       \/ which = "users" /\ Accounts!Next /\ UNCHANGED vars
       \/ which = "loader" /\ Elf!Next /\ UNCHANGED <<vars, x8>>
       \/ which = "mounts" /\ Mnt!Next /\ UNCHANGED <<vars, x8>>
       \/ which = "console" /\ Screen!Next /\ UNCHANGED <<vars, From6>>
       \/ which \in Bounded /\ UNCHANGED <<vars, others>>

MCSpec == MCInit /\ [][MCNext]_<<vars, which, others>>

------------------------------------------------------------------------------
\* The blocks of the kernel's heap and of malloc() fill their arenas without overlap,
\* loss or unmerged neighbours (heap.c, malloc.c).
HeapSound == which = "heap" => Heaps!HeapSound

\* A boot reads from /etc/passwd and /etc/group what the tables hold (users.c).
RestartKeepsUsers == which = "users" => Accounts!RestartKeepsUsers

\* Uids are unique, and homes belong to the users they are named after (useradd).
HomesOfTheirUsers == which = "users" => Accounts!HomesOfTheirUsers


\* Every page has one owner or is free, after any load that failed (dynlink.c, shm.c).
PagesExact == which = "loader" => Elf!PagesExact


\* The console shows what its history says, on the screen too, and one cursor
\* (console.c).
ScreenTrue == which = "console" => Screen!ScreenTrue
=============================================================================
