SPECIFICATION Spec
CONSTANTS
    p1 = p1  p2 = p2  ta = ta  tb = tb  nil = nil
    None = nil
    Procs = {p1, p2}
    Tools = {ta}
    InitState <- OneEmbedded
    RemoteKnown = {ta}
    Options <- Considered
    FaultAt = {"query", "trash", "rmtree", "manifest", "leftover", "link", "unlink", "git", "partial", "recover", "rest", "save"}
    CrashAt = {"gate", "remove", "link", "publish", "git", "detach", "recover", "relink", "peek", "load", "trunc", "write"}
    UserActs = {"edit", "lose", "clean", "recover"}
    MaxCalls = 2
    MaxFaults = 2
    MaxCrashes = 1
    MaxEdits = 1
INVARIANTS TypeOK ContentKept
CHECK_DEADLOCK FALSE
