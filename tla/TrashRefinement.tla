--------------------------- MODULE TrashRefinement ---------------------------
(***************************************************************************)
(* TrashStore implements RecoverableDelete: an item is live when a whole   *)
(* copy is at some path, trashed when it can only be had from a folder, a  *)
(* manifest or the trash() call about to write one, gone otherwise.        *)
(***************************************************************************)
EXTENDS TrashStore

place == [i \in Items |-> IF i \notin born THEN "unborn"
                          ELSE IF AtPath(i) THEN "live"
                          ELSE IF Kept(i) THEN "trashed" ELSE "gone"]

Promise == INSTANCE RecoverableDelete WITH agreed <- purged

\* Every step of trash, recover and clean, its faults and crashes included, is
\* one the promise allows or leaves every item where it is.
KeepsPromise == Promise!Spec
==============================================================================
