------------------------------- MODULE Loader -------------------------------
(***************************************************************************)
(* Programs into memory (kernel/system/elf/elf.c) and their shared C       *)
(* library (elf/dynlink.c): the pages a program is given, what is copied   *)
(* into them, the one cache of libc.so, whose read-only pages all programs *)
(* map and whose data every program has a copy of, the relocations, and    *)
(* what is given back when any of this fails half way.                     *)
(*                                                                         *)
(* Memory is counted in words, W to a page; a word is a tagged value.  An  *)
(* address space has one page for what process_create() takes, one for the *)
(* tables of each of its two areas (the programs' and libc's), and one PTE *)
(* per page.  The programs' area lies in the identity map: the table that  *)
(* replaces its huge page maps all of it.                                  *)
(***************************************************************************)
EXTENDS Integers, Sequences, FiniteSets, FiniteSetsExt, SequencesExt

CONSTANTS
    MaxPids,    \* bound on the processes at one time
    MaxLoads,   \* bound on the programs loaded
    W,          \* words of a page
    ExePages,   \* pages of the programs' area: 0 .. ExePages - 1
    LibPages,   \* pages of libc's area, behind it
    Rams,       \* the sizes of memory
    MaxShared,  \* MAX_SHARED_REGIONS
    Stores,     \* the addresses programs write to
    Programs,   \* executables: [segs, dyn, rela], see MCSystem
    Libc        \* /lib/libc.so: [segs, sym, rela, plt]

Pids == 1 .. MaxPids
Base == ExePages * W                    \* DYNLINK_LIBC_BASE
ExeVa == 0 .. ExePages - 1
LibVa == ExePages .. ExePages + LibPages - 1
Areas == {"exe", "lib"}
AreaOf(v) == IF v \in ExeVa THEN "exe" ELSE "lib"
Offsets == 0 .. W - 1

Zero == <<"zero", 0>>
Stale == <<"stale", 0>>                 \* whatever a page holds that is free
Addr(a) == <<"addr", a>>

VARIABLES
    ram,    \* pages of memory
    free,   \* the free ones
    mem,    \* contents of the pages
    libc,   \* g_libc
    shm,    \* g_regions of shm.c
    proc,   \* the processes: state, program, address space
    loads   \* programs loaded so far

vars == <<ram, free, mem, libc, shm, proc, loads>>

\* F(v), with v evaluated once.
With(v, F(_)) == CHOOSE y \in {F(x) : x \in {v}} : TRUE

NoPte == [page |-> 0, kind |-> "none", w |-> FALSE]
NoSpace == [root |-> 0, table |-> [a \in Areas |-> 0], pte |-> [v \in ExeVa \cup LibVa |-> NoPte]]
NoProc == [state |-> "none", prog |-> 0, sp |-> NoSpace]
NoCache == [ready |-> FALSE, segs |-> << >>]
NoRegion == [pages |-> << >>, refs |-> 0]

(* What the functions work on: memory, and the address space in the making *)
Now == [ok |-> TRUE, free |-> free, mem |-> mem, libc |-> libc, shm |-> shm, sp |-> NoSpace]
Become(k) == free' = k.free /\ mem' = k.mem /\ libc' = k.libc /\ shm' = k.shm /\ UNCHANGED ram

Fail(k) == [k EXCEPT !.ok = FALSE]

\* A loop that is left at the first failure.
Each(k, s, F(_, _)) == FoldLeft(LAMBDA a, x : IF a.ok THEN F(a, x) ELSE a, k, s)

Page(k) == Min(k.free)                                  \* pmm_alloc_page
Took(k) == [k EXCEPT !.free = @ \ {Min(@)}]
Freed(k, P) == [k EXCEPT !.free = @ \cup P,
                         !.mem = [p \in DOMAIN @ |-> IF p \in P THEN [o \in Offsets |-> Stale] ELSE @[p]]]

-----------------------------------------------------------------------------
(* The registry of shared regions; a region counts its mapped pages. *)

FreeShm(k) == {s \in 1 .. MaxShared : k.shm[s].pages = << >>}
ShmOf(k, p) == CHOOSE s \in 1 .. MaxShared : p \in ToSet(k.shm[s].pages)
ShmRelease(k, s) ==
    IF k.shm[s].refs > 1 THEN [k EXCEPT !.shm[s].refs = @ - 1]
    ELSE [Freed(k, ToSet(k.shm[s].pages)) EXCEPT !.shm[s] = NoRegion]

-----------------------------------------------------------------------------
(* elf.c *)

SegPages(seg) == [i \in 1 .. ((seg.va + seg.memsz - 1) \div W) - (seg.va \div W) + 1
                        |-> (seg.va \div W) + i - 1]

(* What a page at v of a segment holds once it is zeroed and copied. *)
PageOf(seg, v) ==
    [o \in Offsets |->
        LET i == v * W + o - seg.va + 1 IN IF i \in DOMAIN seg.file THEN seg.file[i] ELSE Zero]

(* map_page_in_space: tables that are missing are made, the huge page of the
   identity map is split into entries marked PAGE_IDENTITY_SHARED.  The page
   whose number is v + 1 is the one with the address v. *)
map_page_in_space(k, v, pte) ==
    LET a == AreaOf(v)
        k1 == IF k.sp.table[a] # 0 THEN k
              ELSE IF k.free = {} THEN Fail(k)
              ELSE [Took(k) EXCEPT !.sp.table[a] = Page(k),
                                   !.sp.pte = [x \in DOMAIN @ |->
                                        IF a = "exe" /\ x \in ExeVa
                                        THEN [page |-> x + 1, kind |-> "identity", w |-> TRUE] ELSE @[x]]]
    IN  IF k1.ok THEN [k1 EXCEPT !.sp.pte[v] = pte] ELSE k1

(* A page, and its mapping; the page is given back when that fails. *)
MapFresh(k, v, w, contents) ==
    IF k.free = {} THEN Fail(k)
    ELSE With(map_page_in_space(Took(k), v, [page |-> Page(k), kind |-> "own", w |-> w]), LAMBDA k1 :
            IF k1.ok THEN [k1 EXCEPT !.mem[Page(k)] = contents] ELSE Freed(k1, {Page(k)}))

(* First pass: pages for all segments, all of them writable. *)
MapSegment(k, seg) == Each(k, SegPages(seg), LAMBDA a, v : MapFresh(a, v, TRUE, [o \in Offsets |-> Stale]))


(* Second pass: zero the pages of the segment, copy the file over them. *)
FillSegment(k, seg) ==
    FoldLeft(LAMBDA a, v : [a EXCEPT !.mem[a.sp.pte[v].page] = PageOf(seg, v)], k, SegPages(seg))

(* Third pass, set_page_flags_in_space: the segment's own rights. *)
FinalFlags(k, seg) == FoldLeft(LAMBDA a, v : [a EXCEPT !.sp.pte[v].w = seg.w], k, SegPages(seg))

(* free_user_address_space: pages, shared pages, tables, and not the identity map *)
free_user_address_space(k, sp) ==
    LET own == {sp.pte[v].page : v \in {v \in DOMAIN sp.pte : sp.pte[v].kind = "own"}}
        shared == {v \in DOMAIN sp.pte : sp.pte[v].kind = "shared"}
        tables == {sp.table[a] : a \in Areas} \ {0}
    IN  FoldSet(LAMBDA v, a : ShmRelease(a, ShmOf(a, sp.pte[v].page)),
                Freed(k, own \cup tables \cup {sp.root}), shared)

-----------------------------------------------------------------------------
(* dynlink.c *)

(* Fault: a segment that is registered already loses one reference only. *)
rollback_once(k) ==
    [FoldLeft(LAMBDA a, seg : IF seg.shm # 0 THEN ShmRelease(a, seg.shm) ELSE Freed(a, ToSet(seg.pages)),
              k, k.libc.segs) EXCEPT !.libc = NoCache, !.ok = FALSE]

(* All segments that were complete are given back. *)
dynlink_cache_rollback(k) ==
    [FoldLeft(LAMBDA a, seg : IF seg.shm # 0
                              THEN FoldLeft(LAMBDA b, p : ShmRelease(b, seg.shm), a, seg.pages)
                              ELSE Freed(a, ToSet(seg.pages)),
              k, k.libc.segs) EXCEPT !.libc = NoCache, !.ok = FALSE]

(* A segment of libc.so: its pages, zeroed and copied.  The pages had so far are
   freed when there is no other. *)
CacheSegment(k, seg) ==
    IF Len(SegPages(seg)) > Cardinality(k.free) THEN dynlink_cache_rollback(k)
    ELSE With(Len(k.libc.segs) + 1, LAMBDA s :
         FoldLeft(LAMBDA a, v : [Took(a) EXCEPT !.mem[Page(a)] = PageOf(seg, v),
                                                !.libc.segs[s].pages = Append(@, Page(a))],
                  [k EXCEPT !.libc.segs = Append(@, [seg |-> seg, pages |-> << >>, shm |-> 0])],
                  SegPages(seg)))

(* dynlink_cache_write: a word of the cache, found by its address in libc.so *)
dynlink_cache_write(k, at, value) ==
    LET S == {s \in DOMAIN k.libc.segs : \E i \in DOMAIN SegPages(k.libc.segs[s].seg) :
                    SegPages(k.libc.segs[s].seg)[i] = at \div W}
        s == Min(S)
        i == (at \div W) - SegPages(k.libc.segs[s].seg)[1] + 1
    IN  IF S = {} THEN k ELSE [k EXCEPT !.mem[k.libc.segs[s].pages[i]][at % W] = value]

(* R_X86_64_RELATIVE, then libc's own PLT *)
CacheRelocations(k) ==
    FoldLeft(LAMBDA a, r : dynlink_cache_write(a, r.at, Addr(Base + Libc.sym[r.sym].value)),
             FoldLeft(LAMBDA a, r : dynlink_cache_write(a, r.at, Addr(Base + r.addend)), k, Libc.rela),
             Libc.plt)

(* Segments that are not written to become regions of shm.c. *)
ShareSegment(k, s) ==
    LET seg == k.libc.segs[s] IN
    IF seg.seg.w THEN k
    ELSE IF FreeShm(k) = {} THEN dynlink_cache_rollback(k)
    ELSE LET id == Min(FreeShm(k)) IN
         [k EXCEPT !.shm[id] = [pages |-> seg.pages, refs |-> Len(seg.pages)], !.libc.segs[s].shm = id]

(* The first program that needs it loads libc.so; `fault': the file is missing or
   its read fails, or the heap has no room for the last segment's table. *)
dynlink_load_libc_cache(k, fault) ==
    LET n == Len(Libc.segs) IN
    IF k.libc.ready THEN k
    ELSE IF fault = "file" THEN Fail(k)
    ELSE With(Each(k, Libc.segs, LAMBDA a, seg : IF fault = "heap" /\ Len(a.libc.segs) = n - 1
                                                 THEN dynlink_cache_rollback(a) ELSE CacheSegment(a, seg)),
         LAMBDA k1 : IF ~k1.ok THEN k1
         ELSE With(Each(CacheRelocations(k1), [s \in 1 .. n |-> s], ShareSegment),
         LAMBDA k2 : IF k2.ok THEN [k2 EXCEPT !.libc.ready = TRUE] ELSE k2))

(* dynlink_map_libc_into_process, one segment: copies of the pages of data, a
   reference for every other page *)
map_libc_segment(k, seg) ==
    Each(k, [i \in DOMAIN seg.pages |-> i], LAMBDA a, i :
        LET v == ExePages + SegPages(seg.seg)[i] IN
        IF seg.seg.w THEN MapFresh(a, v, TRUE, a.mem[seg.pages[i]])
        ELSE With(map_page_in_space(a, v, [page |-> seg.pages[i], kind |-> "shared", w |-> FALSE]),
             LAMBDA k1 : IF k1.ok THEN [k1 EXCEPT !.shm[seg.shm].refs = @ + 1] ELSE k1))

Read(k, at) == k.mem[k.sp.pte[at \div W].page][at % W]
Write(k, at, value) == [k EXCEPT !.mem[k.sp.pte[at \div W].page][at % W] = value]

(* dynlink_apply_relocations, one entry: the address of a symbol of libc into a
   slot of the program, or a copy of the symbol's data *)
Relocate(k, r) ==
    IF r.type = "relative" THEN k
    ELSE IF r.sym \notin DOMAIN Libc.sym THEN Fail(k)
    ELSE LET sym == Libc.sym[r.sym] IN
         CASE r.type = "slot" -> Write(k, r.at, Addr(Base + sym.value))
           [] r.type = "copy" -> FoldLeft(LAMBDA a, i : Write(a, r.at + i, Read(a, Base + sym.value + i)),
                                          k, [i \in 1 .. sym.size |-> i - 1])
           [] OTHER -> k

dynlink_process(k, prog, fault) ==
    IF ~prog.dyn THEN k
    ELSE With(dynlink_load_libc_cache(k, fault), LAMBDA k1 :
         With(IF k1.ok THEN Each(k1, k1.libc.segs, map_libc_segment) ELSE k1, LAMBDA k2 :
         IF k2.ok THEN Each(k2, prog.rela, Relocate) ELSE k2))

(* elf_load_to_process *)
elf_load_to_process(k, prog, fault) ==
    With(Each(k, prog.segs, MapSegment), LAMBDA k1 :
        IF ~k1.ok THEN k1
        ELSE With(FoldLeft(FinalFlags, FoldLeft(FillSegment, k1, prog.segs), prog.segs), LAMBDA k2 :
                dynlink_process(k2, prog, fault)))

-----------------------------------------------------------------------------
(* Calls *)

Init ==
    /\ ram \in {1 .. n : n \in Rams}
    /\ \E taken \in BOOLEAN :
          /\ free = IF taken THEN ram \ {1} ELSE ram
          /\ shm = [s \in 1 .. MaxShared |-> IF taken /\ s = 1 THEN [pages |-> <<1>>, refs |-> 1] ELSE NoRegion]
    /\ mem = [p \in ram |-> [o \in Offsets |-> Stale]]
    /\ libc = NoCache
    /\ proc = [p \in Pids |-> NoProc]
    /\ loads = 0

(* What process_create and process_prepare_exec take of memory *)
NewSpace(k) == [Took(k) EXCEPT !.sp.root = Page(k)]

(* elf_exec_internal: a process that could not be loaded is left terminated, with
   what it has. *)
elf_exec(p, n, fault) ==
    /\ proc[p].state = "none" /\ free # {} /\ loads < MaxLoads /\ loads' = loads + 1
    /\ \E k \in {elf_load_to_process(NewSpace(Now), Programs[n], fault)} :
        /\ Become(k)
        /\ proc' = [proc EXCEPT ![p] = [state |-> IF k.ok THEN "run" ELSE "dead", prog |-> n, sp |-> k.sp]]

(* elf_exec_replace: the old image goes when the new one is complete. *)
elf_exec_replace(p, n, fault) ==
    /\ proc[p].state = "run" /\ free # {} /\ loads < MaxLoads /\ loads' = loads + 1
    /\ \E k \in {elf_load_to_process(NewSpace(Now), Programs[n], fault)} :
        IF k.ok THEN /\ Become(free_user_address_space(k, proc[p].sp))
                     /\ proc' = [proc EXCEPT ![p].prog = n, ![p].sp = k.sp]
        ELSE Become(free_user_address_space(k, k.sp)) /\ UNCHANGED proc

(* free_process_resources *)
End(p) ==
    /\ proc[p].state # "none"
    /\ Become(free_user_address_space(Now, proc[p].sp))
    /\ proc' = [proc EXCEPT ![p] = NoProc]
    /\ UNCHANGED loads

(* A program writes to its memory. *)
Store(p, at) ==
    LET pte == proc[p].sp.pte[at \div W] IN
    /\ proc[p].state = "run" /\ pte.w /\ pte.kind \notin {"none", "identity"}
    /\ mem' = [mem EXCEPT ![pte.page][at % W] = <<"own", p>>]
    /\ UNCHANGED <<ram, free, libc, shm, proc, loads>>

(* Somebody else's shared page (Init) is unmapped. *)
Unshare(s) ==
    /\ shm[s].pages # << >> /\ \A i \in DOMAIN libc.segs : libc.segs[i].shm # s
    /\ Become(ShmRelease(Now, s))
    /\ UNCHANGED <<proc, loads>>

Next ==
    \/ \E p \in Pids, n \in DOMAIN Programs, fault \in {"none", "file", "heap"} :
           \/ elf_exec(p, n, fault)
           \/ elf_exec_replace(p, n, fault)
    \/ \E p \in Pids : End(p) \/ \E at \in Stores : Store(p, at)
    \/ \E s \in 1 .. MaxShared : Unshare(s)

Spec == Init /\ [][Next]_vars

-----------------------------------------------------------------------------
(* The image the files describe: what each word is, and whether it may be written *)
SegAt(segs, v) == CHOOSE s \in ToSet(segs) : v \in ToSet(SegPages(s))
Pages(segs) == UNION {ToSet(SegPages(s)) : s \in ToSet(segs)}
LibWord(at) ==
    LET R == {r \in ToSet(Libc.rela) : r.at = at}
        P == {r \in ToSet(Libc.plt) : r.at = at}
    IN  IF P # {} THEN Addr(Base + Libc.sym[(CHOOSE r \in P : TRUE).sym].value)
        ELSE IF R # {} THEN Addr(Base + (CHOOSE r \in R : TRUE).addend)
        ELSE PageOf(SegAt(Libc.segs, at \div W), at \div W)[at % W]
ExeWord(prog, at) ==
    LET R == {r \in ToSet(prog.rela) : /\ r.type \in {"slot", "copy"}
                                       /\ at \in r.at .. r.at + (IF r.type = "slot" THEN 0 ELSE Libc.sym[r.sym].size - 1)}
        r == CHOOSE r \in R : TRUE
    IN  IF R = {} THEN PageOf(SegAt(prog.segs, at \div W), at \div W)[at % W]
        ELSE IF r.type = "slot" THEN Addr(Base + Libc.sym[r.sym].value)
        ELSE LibWord(Libc.sym[r.sym].value + at - r.at)


\* Every page is free or has one owner, in every failure of a load as well, and a
\* region of libc counts the cache and every mapping of its pages: no page is lost,
\* none is given to two, and the text of libc cannot go while a program maps it
\* (dynlink_cache_rollback, free_user_address_space, shm.c).
PagesExact ==
    LET Procs == {p \in Pids : proc[p].state # "none"}
        Kept(p, v, kind) == proc[p].sp.pte[v].kind = kind
        Owners(pg) ==
              {<<"space", p>> : p \in {p \in Procs : proc[p].sp.root = pg}}
         \cup {<<"table", p, a>> : <<p, a>> \in {x \in Procs \X Areas : proc[x[1]].sp.table[x[2]] = pg}}
         \cup {<<"pte", x[1], x[2]>> : x \in {x \in Procs \X (ExeVa \cup LibVa) :
                    Kept(x[1], x[2], "own") /\ proc[x[1]].sp.pte[x[2]].page = pg}}
         \cup {<<"libc", s>> : s \in {s \in DOMAIN libc.segs : pg \in ToSet(libc.segs[s].pages)}}
         \cup {<<"shm", s>> : s \in {s \in 1 .. MaxShared : pg = 1 /\ shm[s].pages = <<1>>
                                                           /\ \A i \in DOMAIN libc.segs : libc.segs[i].shm # s}}
    IN  /\ \A pg \in ram : Cardinality(Owners(pg)) = IF pg \in free THEN 0 ELSE 1
        /\ \A i \in DOMAIN libc.segs : \A s \in {libc.segs[i].shm} \ {0} :
              shm[s].refs = Len(shm[s].pages)
                          + Cardinality({x \in Procs \X LibVa : /\ Kept(x[1], x[2], "shared")
                                                                /\ proc[x[1]].sp.pte[x[2]].page \in ToSet(shm[s].pages)})
=============================================================================
