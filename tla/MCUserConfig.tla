---------------------------- MODULE MCUserConfig ----------------------------
(* Small instances of UserConfig for TLC. *)
EXTENDS UserConfig, TLC

CONSTANTS p1, p2, sd, fd, core, wtf

\* The processes run the same program.
Symmetry == Permutations(Procs)
=============================================================================
