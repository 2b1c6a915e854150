SPECIFICATION Spec
CONSTANTS
    p1 = p1  p2 = p2  ta = ta  tb = tb  nil = nil
    None = nil
    Procs = {p1}
    Tools = {ta, tb}
    InitState <- EmbeddedAndSubmodule
    RemoteKnown = {ta, tb}
    Options <- AnyOption
    FaultAt = {"query", "trash", "rmtree", "unlink", "recover"}
    CrashAt = {"gate", "remove", "publish", "detach", "recover", "relink"}
    UserActs = {"edit", "lose", "clean"}
    MaxCalls = 4
    MaxFaults = 1
    MaxCrashes = 1
    MaxEdits = 1
CHECK_DEADLOCK FALSE
INVARIANTS OriginLeadsBack DevCanReturn
