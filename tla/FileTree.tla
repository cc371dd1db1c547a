------------------------------ MODULE FileTree ------------------------------
(***************************************************************************)
(* What a filesystem promises to its callers: a tree of names.  A path is  *)
(* a sequence of names; the tree maps every existing path to Dir or to the *)
(* contents of a file.  One call changes one path, a directory is removed  *)
(* only when it is empty, and nothing else moves.  A machine that loses    *)
(* power ends the story (Lost): what is on the disk then is the subject of *)
(* other properties.                                                       *)
(***************************************************************************)
EXTENDS Integers, Sequences

CONSTANTS Dir, Lost

VARIABLE tree

Parent(p) == SubSeq(p, 1, Len(p) - 1)

Keeps(t, u, P) == \A p \in P : u[p] = t[p]

\* From tree t to tree u: a file or a directory appears under a name that was
\* free (the root, the empty path, is always there).
Appear(t, u, p) ==
    /\ p \notin DOMAIN t /\ DOMAIN u = DOMAIN t \cup {p}
    /\ Parent(p) = << >> \/ (Parent(p) \in DOMAIN t /\ t[Parent(p)] = Dir)
    /\ u[p] \in {Dir, << >>}
    /\ Keeps(t, u, DOMAIN t)

\* A name goes; a directory only when nothing is below it.
Vanish(t, u, p) ==
    /\ DOMAIN u = DOMAIN t \ {p} /\ p \in DOMAIN t
    /\ \A q \in DOMAIN t : Parent(q) # p
    /\ Keeps(t, u, DOMAIN u)

\* The contents of one file change.
Change(t, u, p) ==
    /\ DOMAIN u = DOMAIN t
    /\ t[p] # Dir /\ u[p] # Dir
    /\ Keeps(t, u, DOMAIN t \ {p})

\* A tree to begin with: everything is in a directory.
Init == \E t \in {tree} : \A p \in DOMAIN t :
            Parent(p) = << >> \/ (Parent(p) \in DOMAIN t /\ t[Parent(p)] = Dir)

Next ==
    \E u \in {tree'} :
        u # Lost => \E t \in {tree} :
            /\ t # Lost
            /\ \/ \E p \in DOMAIN u \ DOMAIN t : Appear(t, u, p)
               \/ \E p \in DOMAIN t : Vanish(t, u, p) \/ Change(t, u, p)

Spec == Init /\ [][Next]_tree
=============================================================================
