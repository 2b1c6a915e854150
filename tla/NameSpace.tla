------------------------------ MODULE NameSpace ------------------------------
(***************************************************************************)
(* What FQCNIndex promises its callers: a name belongs to a tool or leads  *)
(* to the name of one, never both; one operation settles one name; and the *)
(* answer to a short name is at all times what the names in force say.     *)
(***************************************************************************)
CONSTANTS Names, Dirs, None, Segments, Short(_)

VARIABLES owner,    \* the tool a name belongs to
          leads,    \* the name another name stands for
          answers   \* the names a short name may be answered with

vars == <<owner, leads, answers>>

InForce(s) == {n \in Names : owner[n] # None /\ Short(n) = s}
              \cup {leads[a] : a \in {b \in Names : leads[b] # None /\ Short(b) = s}}
Current == answers = [s \in Segments |-> InForce(s)]

Init == /\ owner = [n \in Names |-> None] /\ leads = [n \in Names |-> None]
        /\ Current

Free(n) == owner[n] = None /\ leads[n] = None

Claim(n, d) == /\ Free(n) /\ owner' = [owner EXCEPT ![n] = d] /\ UNCHANGED leads
Bind(a, n)  == /\ Free(a) /\ owner[n] # None
               /\ leads' = [leads EXCEPT ![a] = n] /\ UNCHANGED owner
Move(a, n)  == /\ leads[a] # None /\ owner[n] # None
               /\ leads' = [leads EXCEPT ![a] = n] /\ UNCHANGED owner
Drop(a)     == /\ leads[a] # None
               /\ leads' = [leads EXCEPT ![a] = None] /\ UNCHANGED owner

Next == /\ \/ \E n \in Names, d \in Dirs : Claim(n, d)
           \/ \E a, n \in Names : Bind(a, n) \/ Move(a, n)
           \/ \E a \in Names : Drop(a)
        /\ Current'

Spec == Init /\ [][Next]_vars
=============================================================================
