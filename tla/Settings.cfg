SPECIFICATION Spec
CONSTANTS
    p1 = p1  p2 = p2  sd = sd  fd = fd  core = core  wtf = wtf
    None = None
    Procs = {p1, p2}
    Tools = {sd, fd}
    Kits = {core, wtf}
    Constitutional = {sd}
    AlwaysActive = {core}
    EnvKits = None
    Options = {0, 1}
    Unset = 0
    MaxEvents = 3
INVARIANTS TypeOK NeverBoth NeverShadowed
PROPERTIES LossHasCause MoveUndone
SYMMETRY Symmetry
CHECK_DEADLOCK FALSE
