-------------------------- MODULE RecoverableDelete --------------------------
(***************************************************************************)
(* What recoverable deletion promises, seen item by item: a thing a user   *)
(* made is in its place or in the trash, it moves between the two one at a *)
(* time, and it is destroyed only in the trash and only with the consent   *)
(* of the user. TrashStore implements this under the mapping of            *)
(* TrashRefinement.                                                        *)
(***************************************************************************)
CONSTANT Items

VARIABLES place,   \* where each item is
          agreed   \* items the user agreed to see destroyed

Places == {"unborn", "live", "trashed", "gone"}

TypeOK == place \in [Items -> Places] /\ agreed \subseteq Items

Init == place \in [Items -> {"unborn", "live"}] /\ agreed = {}

Move(i, from, to) == /\ place[i] = from /\ place' = [place EXCEPT ![i] = to]
                     /\ UNCHANGED agreed

Make(i)    == Move(i, "unborn", "live")
Trash(i)   == Move(i, "live", "trashed")
Recover(i) == Move(i, "trashed", "live")

\* The user agrees to lose S; those of S that are only in the trash may go.
Purge(S, T) ==
    /\ T \subseteq {i \in S : place[i] = "trashed"}
    /\ agreed' = agreed \cup S
    /\ place' = [i \in Items |-> IF i \in T THEN "gone" ELSE place[i]]

Next == \/ \E i \in Items : Make(i) \/ Trash(i) \/ Recover(i)
        \/ \E S \in SUBSET Items : \E T \in SUBSET S : Purge(S, T)

Spec == Init /\ [][Next]_<<place, agreed>>
==============================================================================
