SPECIFICATION Spec
CHECK_DEADLOCK FALSE
CONSTANTS
  MaxDepth = 3
  Tools <- MCTools
  Overrides <- MCOverrides
  Probes <- MCProbes
  Relative <- MCRelative
  Absolute <- MCAbsolute
  MaxCommands = 2
  MaxChanges = 1
INVARIANTS TypeOK RunAsDeclared SetupThenRuns
