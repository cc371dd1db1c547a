-------------------------------- MODULE Heap --------------------------------
(***************************************************************************)
(* The two first-fit allocators: the kernel's heap (system/mm/heap.c), one *)
(* area mapped at boot, and malloc of the C library (libc/src/malloc.c),   *)
(* arenas taken from mmap() when they are needed and a mapping of its own  *)
(* for what is larger than an arena.  Both keep a doubly linked list of    *)
(* blocks, each behind its header; the headers are node, by address.       *)
(*                                                                         *)
(* Sizes are in units of eight bytes.  Callers free what they were given,  *)
(* at most once more than they should while nobody else has the block.     *)
(***************************************************************************)
EXTENDS Integers, Sequences, FiniteSets, FiniteSetsExt, SequencesExt

CONSTANTS
    Size,        \* KERNEL_HEAP_SIZE, ARENA_SIZE
    MaxArenas,   \* MAX_ARENAS; the kernel's heap is one
    Requests,    \* sizes asked for
    MaxLarge     \* bound: mappings of their own

VARIABLES
    lib,     \* malloc() of the C library, not the kernel's heap
    node,    \* the headers
    arenas,  \* where each arena begins
    held,    \* what the callers hold
    freed,   \* the address freed last
    large    \* how many mappings of their own malloc() has given out

vars == <<lib, node, arenas, held, freed, large>>

Null == -1
Header == 3                          \* sizeof(block_header_t)
Threshold == IF lib THEN 8 ELSE 4    \* SPLIT_THRESHOLD; 32 bytes in split_block

\* The size of a block for a request: with its header, and aligned.
total_size(size) == IF lib THEN 2 * ((size + Header + 1) \div 2) ELSE size + Header

------------------------------------------------------------------------------
\* The list of blocks from address a on.
BlockList(a) ==
    LET n == Cardinality(DOMAIN node)
        from[k \in 0..n] ==  \* the k-th block of the list, Null behind its end
            IF k = 0 THEN a ELSE IF from[k - 1] = Null THEN Null ELSE node[from[k - 1]].next
    IN  SelectSeq([k \in 1..(n + 1) |-> from[k - 1]], LAMBDA b : b # Null)

Blocks == FlattenSeq([i \in DOMAIN arenas |-> BlockList(arenas[i])])

\* find_free_block: the first that is large enough, Null for none.
find_free_block(need) ==
    LET fit == SelectSeq(Blocks, LAMBDA b : ~node[b].used /\ node[b].size >= need)
    IN  IF fit = << >> THEN Null ELSE fit[1]

\* split_block: the rest becomes a block when it is worth it.
split_block(h, b, need) ==
    IF h[b].size - need < Header + Threshold THEN h
    ELSE LET tail == [used |-> FALSE, size |-> h[b].size - need, next |-> h[b].next, prev |-> b]
         IN  [a \in DOMAIN h \cup {b + need} |->
                CASE a = b + need -> tail
                  [] a = b -> [h[b] EXCEPT !.size = need, !.next = b + need]
                  [] a = h[b].next -> [h[a] EXCEPT !.prev = b + need]
                  [] OTHER -> h[a]]

\* merge_with_next: block b takes in the free block behind it.
merge_with_next(h, b) ==
    LET n == h[b].next IN
    IF b = Null \/ n = Null \/ h[n].used THEN h
    ELSE [a \in DOMAIN h \ {n} |->
            CASE a = b -> [h[b] EXCEPT !.size = @ + h[n].size, !.next = h[n].next]
              [] a = h[n].next -> [h[a] EXCEPT !.prev = b]
              [] OTHER -> h[a]]

\* Fault: the block before is not looked at.
merge_next_only(h, b) == merge_with_next(h, b)

\* merge_blocks: with the next block, then with the one before.
merge_blocks(h, b) ==
    LET h1 == merge_with_next(h, b)
        p == h1[b].prev
    IN  IF p # Null /\ ~h1[p].used THEN merge_with_next(h1, p) ELSE h1

------------------------------------------------------------------------------
FreeArena == [used |-> FALSE, size |-> Size, next |-> Null, prev |-> Null]

\* heap_init: the kernel's heap is one free block; malloc() begins with nothing.
Init ==
    /\ lib \in BOOLEAN
    /\ arenas = IF lib THEN << >> ELSE <<0>>
    /\ node = IF lib THEN << >> ELSE [a \in {0} |-> FreeArena]
    /\ held = {} /\ freed = Null /\ large = 0

Take(h, b, need) ==
    /\ node' = [split_block(h, b, need) EXCEPT ![b].used = TRUE]
    /\ held' = held \cup {b} /\ freed' = Null

kmalloc ==
    /\ ~lib
    /\ \E need \in {total_size(size) : size \in Requests} : \E b \in {find_free_block(need)} :
         b # Null /\ Take(node, b, need)
    /\ UNCHANGED <<lib, arenas, large>>

\* A block whose header says it is free is left alone.
Release ==
    \E b \in held \cup ({freed} \ {Null}) :
        IF b \in DOMAIN node /\ node[b].used
        THEN /\ node' = merge_blocks([node EXCEPT ![b].used = FALSE], b)
             /\ held' = held \ {b} /\ freed' = b
        ELSE freed' = Null /\ UNCHANGED <<node, held>>

kfree == ~lib /\ Release /\ UNCHANGED <<lib, arenas, large>>

\* new_arena, and the block at its beginning is taken.
new_arena(need) ==
    LET base == Len(arenas) * Size IN
    /\ Len(arenas) < MaxArenas
    /\ arenas' = Append(arenas, base)
    /\ Take([a \in DOMAIN node \cup {base} |-> IF a = base THEN FreeArena ELSE node[a]], base, need)

malloc ==
    /\ lib
    /\ \E need \in {total_size(size) : size \in Requests} :
         IF need > Size
         THEN large < MaxLarge /\ large' = large + 1 /\ UNCHANGED <<node, arenas, held, freed>>
         ELSE /\ \E b \in {find_free_block(need)} :
                   IF b # Null THEN Take(node, b, need) /\ UNCHANGED arenas ELSE new_arena(need)
              /\ UNCHANGED large
    /\ UNCHANGED lib

free ==
    /\ lib
    /\ \/ Release /\ UNCHANGED large
       \/ large > 0 /\ large' = large - 1 /\ UNCHANGED <<node, held, freed>>
    /\ UNCHANGED <<lib, arenas>>

Next == kmalloc \/ kfree \/ malloc \/ free

Spec == Init /\ [][Next]_vars

------------------------------------------------------------------------------
\* heap_get_stats.
Bytes(used) == FoldLeft(LAMBDA sum, b : IF node[b].used = used THEN sum + node[b].size ELSE sum, 0, Blocks)

\* After any sequence of calls the list is the memory: every arena is covered by its
\* blocks without gap or overlap, links back are links forth, no two free blocks are
\* neighbours, and what is used is what somebody holds.
HeapSound ==
    \E list \in {Blocks} :
        /\ ToSet(list) = DOMAIN node
        /\ held = {b \in DOMAIN node : node[b].used}
        /\ Bytes(TRUE) + Bytes(FALSE) = Len(arenas) * Size
        /\ \A b \in DOMAIN node : \E n \in {node[b].next} :
              IF n = Null THEN (b + node[b].size) % Size = 0
              ELSE n = b + node[b].size /\ node[n].prev = b /\ (node[b].used \/ node[n].used)
=============================================================================
