------------------------------- MODULE Memory -------------------------------
(***************************************************************************)
(* The memory of processes: the page bitmap of kernel/system/mm/pmm.c, the *)
(* user part of the page tables (paging.c), the registry of shared regions *)
(* (shm.c), the calls that map and unmap memory (syscall/syscall.c), and   *)
(* what fork(), exec() and the end of a process do to all of it            *)
(* (process/process.c, elf/elf.c).                                         *)
(*                                                                         *)
(* Addresses and lengths are counted in pages.  Of an address space only   *)
(* the area of mmap is kept, and a page that holds a page table is not     *)
(* counted: that one of these cannot be had is the failure of a mapping.   *)
(***************************************************************************)
EXTENDS Integers, Sequences, FiniteSets, SequencesExt

CONSTANTS
    MaxProcs,       \* bound on the processes at one time
    NPages,         \* pages the bitmap manages
    MaxVa,          \* bound on the mmap area of a process
    MaxLen,         \* bound on the pages of one request
    MaxRegions,     \* MAX_MMAP_REGIONS
    MaxFreeRanges,  \* MAX_MMAP_FREE_RANGES
    MaxShared,      \* MAX_SHARED_REGIONS
    Drivers,        \* the processes that own a device with registers in memory
    Calls,          \* the calls programs make
    Failures        \* what may go wrong: a page for a "table" is missing, a
                    \* "fork" runs out of pages, the "client" of a fetch is
                    \* killed, a "driver" with its device mapped forks

Proc == 1 .. MaxProcs
Page == 1 .. NPages
Va == 0 .. MaxVa - 1
Region == 1 .. MaxRegions
Gap == 1 .. MaxFreeRanges
Shm == 1 .. MaxShared
None == 0
Device == NPages + 1        \* a page of registers, outside of the bitmap

VARIABLES
    state,    \* of each process: "none", "live" or, in SYS_NET_FETCH, "call"
    used,     \* bitmap
    next,     \* next_free_page
    pt,       \* the page tables
    region,   \* mmap_regions
    range,    \* mmap_free_ranges
    top,      \* next_mmap_addr
    shm,      \* g_regions
    held      \* url_shm_id and body_shm_id of the call a process is in

vars == <<state, used, next, pt, region, range, top, shm, held>>

NoPte == [page |-> None, kind |-> "none"]
NoRange == [addr |-> 0, len |-> 0]
NoShm == [pages |-> << >>, refs |-> 0]

EmptySpace == [v \in Va |-> NoPte]
NoRegions == [i \in Region |-> NoRange]
NoRanges == [i \in Gap |-> NoRange]

(* What the handlers work on *)
Now ==
    [state |-> state, used |-> used, next |-> next, pt |-> pt, region |-> region,
     range |-> range, top |-> top, shm |-> shm, held |-> held]

Become(k) ==
    /\ state' = k.state /\ used' = k.used /\ next' = k.next /\ pt' = k.pt
    /\ region' = k.region /\ range' = k.range /\ top' = k.top
    /\ shm' = k.shm /\ held' = k.held

Least(S) == CHOOSE x \in S : \A y \in S : x <= y
UpTo(n) == [i \in 1 .. n |-> i]

-----------------------------------------------------------------------------
(* pmm.c *)

(* The page pmm_alloc_page() finds, None without a free one *)
FindPage(k) ==
    LET above == {p \in Page \ k.used : p >= k.next}
        below == {p \in Page \ k.used : p < k.next}
    IN  IF above # {} THEN Least(above)
        ELSE IF below # {} THEN Least(below) ELSE None

(* The bit is set, and the next search begins after the page. *)
TakePage(k, p) == [k EXCEPT !.used = @ \cup {p}, !.next = p + 1]

(* pmm_free_page() *)
FreePage(k, p) == [k EXCEPT !.used = @ \ {p}]

FreePages(k, pages) == FoldLeft(FreePage, k, pages)

(* pmm_alloc_page() up to n times: the pages had, and the state after *)
Grab(k, n) ==
    FoldLeft(LAMBDA a, i : LET p == FindPage(a.k)
                           IN  IF p = None THEN a
                               ELSE [k |-> TakePage(a.k, p),
                                     pages |-> Append(a.pages, p)],
             [k |-> k, pages |-> << >>], UpTo(n))

(* pmm_alloc_contiguous_pages(): the first page of the lowest run of n *)
Runs(k, n) == {p \in Page : \A q \in p .. p + n - 1 : q \in Page \ k.used}

-----------------------------------------------------------------------------
(* shm.c *)

FreeShm(k) == {s \in Shm : k.shm[s].pages = << >>}

ShmCreate(k, pages) ==
    [k EXCEPT !.shm[Least(FreeShm(k))] = [pages |-> pages, refs |-> Len(pages)]]

ShmOf(k, p) == {s \in Shm : p \in ToSet(k.shm[s].pages)}

ShmAddRef(k, s) == [k EXCEPT !.shm[s].refs = @ + 1]

(* Fault: the pages go with the last reference but one. *)
ShmReleaseEarly(k, s) ==
    IF k.shm[s].pages = << >> THEN k
    ELSE IF k.shm[s].refs > 2 THEN [k EXCEPT !.shm[s].refs = @ - 1]
    ELSE [FreePages(k, k.shm[s].pages) EXCEPT !.shm[s] = NoShm]

(* shm_release() *)
ShmRelease(k, s) ==
    IF k.shm[s].pages = << >> THEN k
    ELSE IF k.shm[s].refs > 1 THEN [k EXCEPT !.shm[s].refs = @ - 1]
    ELSE [FreePages(k, k.shm[s].pages) EXCEPT !.shm[s] = NoShm]

(* One reference for each page *)
ShmReleaseAll(k, s) ==
    IF s = None THEN k
    ELSE FoldLeft(LAMBDA kk, i : ShmRelease(kk, s), k, UpTo(Len(k.shm[s].pages)))

-----------------------------------------------------------------------------
(* paging.c *)

(* The frame behind an entry is given back: the middle of unmap_page() and *)
(* of free_user_address_space()                                            *)
DropFrame(k, e) ==
    CASE e.kind \in {"none", "device"} -> k
      [] e.kind = "shared" /\ ShmOf(k, e.page) # {} ->
            ShmRelease(k, Least(ShmOf(k, e.page)))
      [] OTHER -> FreePage(k, e.page)

Unmap(k, p, addr, n) ==
    FoldLeft(LAMBDA kk, i : LET v == addr + i - 1
                            IN  [DropFrame(kk, kk.pt[p][v]) EXCEPT
                                    !.pt[p][v] = NoPte],
             k, UpTo(n))

FreeSpace(k, p) == Unmap(k, p, 0, MaxVa)

Map(k, p, addr, pages, kind) ==
    [k EXCEPT !.pt[p] = [v \in Va |->
        IF v \in addr .. addr + Len(pages) - 1
        THEN [page |-> pages[v - addr + 1], kind |-> kind] ELSE @[v]]]

-----------------------------------------------------------------------------
(* The ranges of the mmap area *)

Fits(k, p, n) == {i \in Gap : k.range[p][i].len >= n}

(* mmap_alloc_va(): the address, and the state after *)
VaFound(k, p, n) ==
    IF Fits(k, p, n) = {} THEN k.top[p] ELSE k.range[p][Least(Fits(k, p, n))].addr

(* Fault: the rest of a range keeps its address. *)
VaTakenKeepingStart(k, p, n) ==
    IF Fits(k, p, n) = {} THEN [k EXCEPT !.top[p] = @ + n]
    ELSE LET i == Least(Fits(k, p, n))
             r == k.range[p][i]
         IN  [k EXCEPT !.range[p][i] =
                IF r.len = n THEN NoRange ELSE [addr |-> r.addr, len |-> r.len - n]]

VaTaken(k, p, n) ==
    IF Fits(k, p, n) = {} THEN [k EXCEPT !.top[p] = @ + n]
    ELSE LET i == Least(Fits(k, p, n))
             r == k.range[p][i]
         IN  [k EXCEPT !.range[p][i] =
                IF r.len = n THEN NoRange
                ELSE [addr |-> r.addr + n, len |-> r.len - n]]

(* mmap_free_va(): with a full list the range is lost *)
VaFreed(k, p, addr, n) ==
    LET empty == {i \in Gap : k.range[p][i].len = 0}
    IN  IF empty = {} THEN k
        ELSE [k EXCEPT !.range[p][Least(empty)] = [addr |-> addr, len |-> n]]

FreeRegions(k, p) == {i \in Region : k.region[p][i].len = 0}

(* A mapping is entered in mmap_regions. *)
Enter(k, p, addr, n) ==
    [k EXCEPT !.region[p][Least(FreeRegions(k, p))] = [addr |-> addr, len |-> n]]

-----------------------------------------------------------------------------
(* System calls *)

InUser(p, call) == state[p] = "live" /\ call \in Calls

(* The number of pages a loop maps before it fails, n when it does not *)
Mapped(n) == IF "table" \in Failures THEN 0 .. n ELSE {n}

(* Room in mmap_regions, and within the bound on addresses *)
Room(p, n) == FreeRegions(Now, p) # {} /\ VaFound(Now, p, n) + n <= MaxVa

(***************************************************************************)
(* sys_mmap() and sys_shm_create(): pages are taken and mapped one by one, *)
(* a shared region is registered, the mapping is entered.  When the pages, *)
(* the tables or the slots of shm.c run out everything is given back.      *)
(***************************************************************************)
MapFresh(k, p, n, kind, m) ==
    LET addr == VaFound(k, p, n)
        got == Grab(VaTaken(k, p, n), IF m < n THEN m + 1 ELSE n)
        mapped == Map(got.k, p, addr, got.pages, kind)
        listed == IF kind = "shared" THEN ShmCreate(mapped, got.pages) ELSE mapped
    IN  IF m = n /\ Len(got.pages) = n /\ (kind = "shared" => FreeShm(k) # {})
        THEN Enter(listed, p, addr, n)
        ELSE VaFreed(FreePages(got.k, got.pages), p, addr, n)

SysMmap(p) ==
    /\ InUser(p, "mmap")
    /\ \E n \in 1 .. MaxLen, kind \in {"private", "shared"} : \E m \in Mapped(n) :
          Room(p, n) /\ Become(MapFresh(Now, p, n, kind, m))

SysMunmap(p) ==
    /\ InUser(p, "munmap")
    /\ \E i \in Region :
          LET r == region[p][i]
          IN  /\ r.len > 0
              /\ Become(VaFreed([Unmap(Now, p, r.addr, r.len) EXCEPT
                                    !.region[p][i] = NoRange], p, r.addr, r.len))

SysMmapMmio(p) ==
    /\ InUser(p, "mmio") /\ p \in Drivers
    /\ \E n \in 1 .. MaxLen : \E m \in Mapped(n) :
          LET addr == VaFound(Now, p, n)
              k == VaTaken(Now, p, n)
          IN  /\ Room(p, n)
              /\ IF m < n THEN Become(VaFreed(k, p, addr, n))
                 ELSE Become(Enter(Map(k, p, addr, [i \in 1 .. n |-> Device],
                                       "device"), p, addr, n))

SysDmaAlloc(p) ==
    /\ InUser(p, "dma") /\ p \in Drivers
    /\ \E n \in 1 .. MaxLen : \E m \in Mapped(n) :
          /\ Room(p, n) /\ Runs(Now, n) # {}
          /\ LET first == Least(Runs(Now, n))
                 pages == [i \in 1 .. n |-> first + i - 1]
                 addr == VaFound(Now, p, n)
                 k == VaTaken([Now EXCEPT !.used = @ \cup ToSet(pages)], p, n)
             IN  IF m < n THEN Become(VaFreed(FreePages(k, pages), p, addr, n))
                 ELSE Become(Enter(Map(k, p, addr, pages, "private"), p, addr, n))

(* Fault: one reference for the region and not for each page. *)
AttachOnce(k, p, s, m) ==
    LET pages == SubSeq(k.shm[s].pages, 1, m)
        addr == VaFound(k, p, Len(k.shm[s].pages))
    IN  ShmAddRef(Map(k, p, addr, pages, "shared"), s)

(* The loop of sys_shm_attach() up to its m-th page *)
Attach(k, p, s, m) ==
    LET pages == SubSeq(k.shm[s].pages, 1, m)
        addr == VaFound(k, p, Len(k.shm[s].pages))
    IN  FoldLeft(LAMBDA kk, i : ShmAddRef(kk, s),
                 Map(k, p, addr, pages, "shared"), UpTo(m))

SysShmAttach(p) ==
    /\ InUser(p, "attach")
    /\ \E s \in Shm : \E m \in Mapped(Len(shm[s].pages)) :
          LET n == Len(shm[s].pages)
              addr == VaFound(Now, p, n)
              k == Attach(Now, p, s, m)
          IN  /\ n > 0 /\ Room(p, n)
              /\ IF m < n THEN Become(VaFreed(VaTaken(Unmap(k, p, addr, m), p, n),
                                              p, addr, n))
                 ELSE Become(Enter(VaTaken(k, p, n), p, addr, n))

(***************************************************************************)
(* sys_net_fetch(), up to its service_call() and after it: a page for the  *)
(* address, n pages for the body, each a shared region nobody has mapped.  *)
(* The daemon attaches and unmaps them meanwhile.                          *)
(***************************************************************************)
SysNetFetch(p) ==
    /\ InUser(p, "fetch")
    /\ \E n \in 0 .. MaxLen :
          LET url == Grab(Now, 1)
              k1 == ShmCreate(url.k, url.pages)
              body == Grab(k1, n)
              failed == FreePages(body.k, body.pages)
              id == Least(FreeShm(Now))
          IN  CASE url.pages = << >> -> UNCHANGED vars
                [] url.pages # << >> /\ FreeShm(Now) = {} ->
                      Become(FreePages(url.k, url.pages))
                [] url.pages # << >> /\ FreeShm(Now) # {} /\ n = 0 ->
                      Become([k1 EXCEPT !.held[p] = <<id, None>>,
                                        !.state[p] = "call"])
                [] OTHER ->
                      IF Len(body.pages) < n \/ FreeShm(k1) = {}
                      THEN Become(ShmRelease(failed, id))
                      ELSE Become([ShmCreate(body.k, body.pages) EXCEPT
                                      !.held[p] = <<id, Least(FreeShm(k1))>>,
                                      !.state[p] = "call"])

NetFetchEnd(p) ==
    /\ state[p] = "call"
    /\ Become([ShmReleaseAll(ShmReleaseAll(Now, held[p][1]), held[p][2]) EXCEPT
                  !.held[p] = <<None, None>>, !.state[p] = "live"])

-----------------------------------------------------------------------------
(* Processes *)

NewProcs == {p \in Proc : state[p] = "none"}

(***************************************************************************)
(* clone_address_space_deep(): shared frames are aliased, all others       *)
(* copied, the flags of the entry included.  Without a page it stops where *)
(* it is, and what it has taken stays taken.                               *)
(***************************************************************************)
CloneEntry(a, c, p, v) ==
    LET e == a.k.pt[p][v]
        new == FindPage(a.k)
    IN  IF ~a.ok \/ e = NoPte THEN a
        ELSE IF e.kind = "shared" /\ ShmOf(a.k, e.page) # {}
        THEN [a EXCEPT !.k = [ShmAddRef(@, Least(ShmOf(@, e.page))) EXCEPT
                                 !.pt[c][v] = e]]
        ELSE IF new = None THEN [a EXCEPT !.ok = FALSE]
        ELSE [a EXCEPT !.k = [TakePage(@, new) EXCEPT
                                 !.pt[c][v] = [page |-> new, kind |-> e.kind]]]

Clone(k, c, p) ==
    FoldLeft(LAMBDA a, i : CloneEntry(a, c, p, i - 1),
             [k |-> k, ok |-> TRUE], UpTo(MaxVa))

SysFork(p) ==
    /\ InUser(p, "fork") /\ NewProcs # {}
    /\ "driver" \in Failures \/ \A v \in Va : pt[p][v].kind # "device"
    /\ LET c == Least(NewProcs)
           copy == Clone(Now, c, p)
       IN  IF copy.ok
           THEN Become([copy.k EXCEPT
                   !.state[c] = "live", !.region[c] = region[p],
                   !.range[c] = range[p], !.top[c] = top[p]])
           ELSE /\ "fork" \in Failures
                /\ Become([copy.k EXCEPT !.pt[c] = EmptySpace])

(* elf_exec_replace() with process_commit_exec() *)
SysExec(p) ==
    /\ InUser(p, "exec")
    /\ Become([FreeSpace(Now, p) EXCEPT
                  !.region[p] = NoRegions, !.range[p] = NoRanges, !.top[p] = 0])

Start ==
    /\ NewProcs # {}
    /\ Become([Now EXCEPT !.state[Least(NewProcs)] = "live"])

(* The process dies, also in the middle of a call, and is reaped:          *)
(* free_process_resources()                                                *)
End(p) ==
    /\ state[p] = "live" \/ (state[p] = "call" /\ "client" \in Failures)
    /\ Become([FreeSpace(Now, p) EXCEPT
                  !.state[p] = "none", !.region[p] = NoRegions,
                  !.range[p] = NoRanges, !.top[p] = 0,
                  !.held[p] = <<None, None>>])

Init ==
    /\ state = [p \in Proc |-> "none"]
    /\ used = {} /\ next = 1
    /\ pt = [p \in Proc |-> EmptySpace]
    /\ region = [p \in Proc |-> NoRegions]
    /\ range = [p \in Proc |-> NoRanges]
    /\ top = [p \in Proc |-> 0]
    /\ shm = [s \in Shm |-> NoShm]
    /\ held = [p \in Proc |-> <<None, None>>]

Next ==
    \/ \E p \in Proc : \/ SysMmap(p) \/ SysMunmap(p) \/ SysMmapMmio(p)
                       \/ SysDmaAlloc(p) \/ SysShmAttach(p) \/ SysNetFetch(p)
                       \/ NetFetchEnd(p) \/ SysFork(p) \/ SysExec(p) \/ End(p)
    \/ Start

Spec == Init /\ [][Next]_vars

-----------------------------------------------------------------------------
Span(r) == r.addr .. r.addr + r.len - 1

(* mmap_alloc_va() never hands out an address that is in use: the regions  *)
(* and the free ranges of a process do not overlap and end below           *)
(* next_mmap_addr, and exactly the pages of its regions are mapped, after  *)
(* any sequence of calls that map, unmap, fail half way, fork or exec.     *)
AreasDisjoint ==
    \A p \in Proc :
        LET areas == {<<"region", i>> : i \in Region} \cup {<<"gap", i>> : i \in Gap}
            span(x) == Span(IF x[1] = "region" THEN region[p][x[2]]
                            ELSE range[p][x[2]])
        IN  /\ \A x \in areas : span(x) \subseteq 0 .. top[p] - 1
            /\ \A x \in areas : \A y \in areas \ {x} : span(x) \cap span(y) = {}
            /\ {v \in Va : pt[p][v] # NoPte} = UNION {Span(region[p][i]) : i \in Region}

Entries == Proc \X Va
Pte(u) == pt[u[1]][u[2]]
RegionPages == UNION {ToSet(shm[s].pages) : s \in Shm}

(* No page is used by two owners or after it was freed: a mapped page is   *)
(* taken in the bitmap; a private one is mapped once and in no region of   *)
(* shm.c; a shared one belongs to exactly one region, whose pages differ;  *)
(* and no page is lost: what is taken is mapped or in a region, and        *)
(* pmm_alloc_page() fails only when every page is taken.                   *)
PagesOwned ==
    /\ FindPage(Now) = None => used = Page
    /\ used = ({Pte(u).page : u \in Entries} \ {None, Device}) \cup RegionPages
    /\ \A s \in Shm : /\ ToSet(shm[s].pages) \subseteq used
                      /\ Cardinality(ToSet(shm[s].pages)) = Len(shm[s].pages)
    /\ \A p \in RegionPages : Cardinality(ShmOf(Now, p)) = 1
    /\ \A u \in Entries :
          /\ Pte(u).kind = "private" =>
                /\ Pte(u).page \in used \ RegionPages
                /\ \A w \in Entries \ {u} : Pte(w).page # Pte(u).page
          /\ Pte(u).kind = "shared" => Pte(u).page \in RegionPages

(* refcount is the number of mapped pages plus the share of the calls of   *)
(* sys_net_fetch() under way, so that the last unmap frees the region, and *)
(* none before it.                                                         *)
RefsExact ==
    \A s \in Shm :
        LET inTables == {u \in Entries : /\ Pte(u).kind = "shared"
                                         /\ Pte(u).page \in ToSet(shm[s].pages)}
            inCalls == {p \in Proc : s \in {held[p][1], held[p][2]}}
        IN  shm[s].refs = Cardinality(inTables)
                          + Cardinality(inCalls) * Len(shm[s].pages)

-----------------------------------------------------------------------------
(* paging.h: PAGE_MMIO_NOFREE marks an address that the page bitmap does   *)
(* not own.                                                                *)
DeviceNotFromPmm == \A u \in Entries : Pte(u).kind = "device" => Pte(u).page \notin Page

=============================================================================
