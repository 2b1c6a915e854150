SPECIFICATION FairSpec
CONSTANTS
    p1 = p1  p2 = p2  pa = pa  pb = pb  po = po
    na = na  nb = nb  nc = nc  i1 = i1  i2 = i2  i3 = i3  i4 = i4
    st0 = st0  st1 = st1  st2 = st2  nil = nil
    None = nil
    Procs = {p1}
    Paths = {pa, pb, po}
    Names = {na, nb, nc}
    Items = {i1, i2, i3}
    Stores = {st0}
    Central = st0
    BaseName <- Names3
    KindOf <- FileDirJunction
    AltPath <- ToSlot
    VolumeStore <- CentralOnly
    Serials = {}
    Renames <- RenameA
    InitFs <- TwoThere
    TrashArgs <- OneOrBoth
    Selections = {"exact", "last", "all"}
    RecoverModes = {"full", "to"}
    CleanFlags <- Terminal
    ZoneA = 0
    ZoneB = 0
    ZoneC = 0
    FaultAt = {"mkdir", "rename", "copy", "delete", "recover", "unlink", "remove"}
    CrashAt = {"recover", "unlink", "clean", "purge"}
    MaxClock = 0
    MaxCalls = 2
    MaxFaults = 1
    MaxCrashes = 1
INVARIANTS TypeOK AckedKept
PROPERTIES CallsEnd KeepsPromise
