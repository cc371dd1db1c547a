------------------------------- MODULE RamFs --------------------------------
(***************************************************************************)
(* The filesystem in memory (fs/ramfs/ramfs.c): a tree of nodes; the data  *)
(* of a file is one buffer of a capacity that only grows, so that what was *)
(* cut off comes back when the file is written again behind its end.  A    *)
(* node is the path it was made under; buf is the whole buffer.            *)
(***************************************************************************)
EXTENDS Units, SequencesExt

CONSTANTS HeapUnits,   \* what kmalloc gives for a buffer at most
          Dir

RamFresh == [kind |-> "ramfs", node |-> [p \in {} |-> [dir |-> FALSE, size |-> 0, buf |-> << >>]]]

IsDir(v, path) == path = << >> \/ (path \in DOMAIN v.node /\ v.node[path].dir)

\* node_alloc under a parent that is a directory; a name there is not taken twice.
RamMake(v, path, isDir) ==
    IF ~IsDir(v, Front(path)) \/ path \in DOMAIN v.node THEN [v |-> v, ok |-> FALSE]
    ELSE [ok |-> TRUE,
          v |-> [v EXCEPT !.node = [p \in DOMAIN v.node \cup {path} |->
                    IF p = path THEN [dir |-> isDir, size |-> 0, buf |-> << >>] ELSE v.node[p]]]]


ramfs_unlink(v, path) ==
    IF path \notin DOMAIN v.node \/ \E q \in DOMAIN v.node : IsStrictPrefix(path, q) THEN [v |-> v, ok |-> FALSE]
    ELSE [ok |-> TRUE, v |-> [v EXCEPT !.node = [p \in DOMAIN v.node \ {path} |-> v.node[p]]]]

\* vfs_ramfs_open, of a file: O_TRUNC moves the size only.
RamOpen(v, path, flags) ==
    With(IF path \in DOMAIN v.node THEN [v |-> v, ok |-> TRUE]
         ELSE IF "creat" \in flags THEN RamMake(v, path, FALSE) ELSE [v |-> v, ok |-> FALSE], LAMBDA r :
        IF ~r.ok THEN [v |-> r.v, ok |-> FALSE, h |-> << >>]
        ELSE With(IF "trunc" \in flags THEN [r.v EXCEPT !.node[path].size = 0] ELSE r.v, LAMBDA v1 :
            [v |-> v1, ok |-> TRUE,
             h |-> [path |-> path, append |-> "append" \in flags,
                    offset |-> IF "append" \in flags THEN v1.node[path].size ELSE 0]]))

\* ramfs_file_write: a larger buffer takes over what the size covers; the rest of
\* it, a gap in front of the new data too, is what the heap had there.
RamWrite(v, h, s) ==
    LET n == v.node[h.path]
        offset == IF h.append THEN n.size ELSE h.offset
        end == offset + Len(s)
        old == IF end > Len(n.buf) THEN SubSeq(n.buf, 1, n.size) ELSE n.buf
    IN  IF end > Len(n.buf) /\ end > HeapUnits THEN [v |-> v, ok |-> FALSE, h |-> h]
        ELSE [ok |-> TRUE, h |-> [h EXCEPT !.offset = end],
              v |-> [v EXCEPT !.node[h.path].buf = Overwrite(old, offset, s, "?"),
                              !.node[h.path].size = Max({n.size, end})]]

RamTree(v) == [p \in DOMAIN v.node |-> IF v.node[p].dir THEN Dir ELSE SubSeq(v.node[p].buf, 1, v.node[p].size)]
=============================================================================
