---------------------------- MODULE MCTrashStore ----------------------------
(***************************************************************************)
(* Small instances of TrashStore for TLC: constants that a .cfg cannot     *)
(* write down, the functions and sequences among them.                     *)
(***************************************************************************)
EXTENDS TrashRefinement, TLC

CONSTANTS p1, p2, pa, pb, po, na, nb, nc, i1, i2, i3, i4, st0, st1, st2, nil

\* Three paths with base names of their own; po is the --to directory's slot.
Names3 == [q \in Paths |-> CASE q = pa -> na [] q = pb -> nb [] OTHER -> nc]
\* Things at pa and pb are called the same.
Names2 == [q \in Paths |-> IF q = po THEN nc ELSE na]
ToSlot == [n \in Names |-> po]
ToSelf == [n \in Names |-> pa]

\* i1 is at pa and i2 at pb from the start; i3 appears later.
TwoThere == [q \in Paths |-> CASE q = pa -> i1 [] q = pb -> i2 [] OTHER -> nil]
AllThere == [q \in Paths |-> CASE q = pa -> i1 [] q = pb -> i2 [] OTHER -> i3]
FilesJunctionDir == [i \in Items |-> CASE i = i3 -> "junction" [] i = i4 -> "dir"
                                       [] OTHER -> "file"]
FileAndDir == [i \in Items |-> IF i = i2 THEN "dir" ELSE "file"]
FileDirJunction == [i \in Items |-> CASE i = i1 -> "file" [] i = i2 -> "dir"
                                      [] OTHER -> "junction"]
LinksAndDir == [i \in Items |-> CASE i = i1 -> "symlink" [] i = i2 -> "dir"
                                  [] OTHER -> "broken"]

CentralOnly == [q \in Paths |-> st0]
OwnVolume == [q \in Paths |-> IF q = pb THEN st1 ELSE st0]
TwoVolumes == [q \in Paths |-> CASE q = pa -> st1 [] q = pb -> st2 [] OTHER -> st0]

\* Only pa is on a volume that a store is on as well ...
RenameA == {pa} \X Stores
\* ... or each path can be renamed into the store of its own volume.
SameVolume == {<<pa, st1>>, <<pb, st2>>}

OneByOne == {<<pa>>, <<pb>>}
OneOrBoth == {<<pa>>, <<pa, pb>>}
Meeting == {<<pa>>, <<pb>>, <<po, pb>>}

AnyFlags == Flags
NoFlags == {}
Terminal == {[force |-> TRUE, yes |-> FALSE, tty |-> TRUE]}
\* A script with --force on a pipe: every zone turns it down.
Piped == {[force |-> TRUE, yes |-> FALSE, tty |-> FALSE]}

\* Processes that delete at a time are alike.
Symmetry == Permutations(Procs)
=============================================================================
