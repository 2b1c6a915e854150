---------------------------- MODULE MCModeSwitch ----------------------------
(* Small instances of ModeSwitch for TLC. *)
EXTENDS ModeSwitch

CONSTANTS p1, p2, ta, tb, nil

OneEmbedded == [t \in Tools |-> "embedded"]
EmbeddedAndSubmodule == [t \in Tools |-> IF t = ta THEN "embedded" ELSE "submodule"]

AnyOption == [force : BOOLEAN, immediate : BOOLEAN]
\* --immediate skips the backup, and only --force the gate before it.
Considered == {o \in AnyOption : o.immediate => o.force}
=============================================================================
