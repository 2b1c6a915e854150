---------------------------- MODULE FqcnRefinement ----------------------------
(***************************************************************************)
(* FqcnIndex implements NameSpace: the two tables are the names in force,  *)
(* and the buckets of short_index, as sets, are the answers.               *)
(***************************************************************************)
EXTENDS FqcnIndex

N == INSTANCE NameSpace WITH
        owner <- canonical, leads <- alias,
        answers <- [s \in Segments |-> ToSet(short[s])]

\* insert_canonical(), insert_alias(), repoint_alias() and remove_alias(), in
\* whatever order discovery, calls and undos use them, each settle one name and
\* leave short_index in step with the tables.
IsNameSpace == N!Spec
=============================================================================
