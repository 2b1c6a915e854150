SPECIFICATION Spec
CONSTANTS
    p1 = p1  p2 = p2  pa = pa  pb = pb  po = po
    na = na  nb = nb  nc = nc  i1 = i1  i2 = i2  i3 = i3  i4 = i4
    st0 = st0  st1 = st1  st2 = st2  nil = nil
    None = nil
    Procs = {p1}
    Paths = {pa, pb, po}
    Names = {na, nb, nc}
    Items = {i1, i2, i3}
    Stores = {st0}
    Central = st0
    BaseName <- Names3
    KindOf <- FileAndDir
    AltPath <- ToSlot
    VolumeStore <- CentralOnly
    Serials = {}
    Renames <- RenameA
    InitFs <- TwoThere
    TrashArgs <- OneOrBoth
    Selections = {"exact", "last", "all"}
    RecoverModes = {"full"}
    CleanFlags <- NoFlags
    ZoneA = 0
    ZoneB = 1
    ZoneC = 2
    FaultAt = {}
    CrashAt = {"stage"}
    MaxClock = 0
    MaxCalls = 1
    MaxFaults = 0
    MaxCrashes = 1
PROPERTIES OnlyEmptiedRemoved
