SPECIFICATION Spec
CONSTANTS
    p1 = p1  p2 = p2  pa = pa  pb = pb  po = po
    na = na  nb = nb  nc = nc  i1 = i1  i2 = i2  i3 = i3  i4 = i4
    st0 = st0  st1 = st1  st2 = st2  nil = nil
    None = nil
    Procs = {p1}
    Paths = {pa, pb, po}
    Names = {na, nb, nc}
    Items = {i1, i2, i3}
    Stores = {st0, st1, st2}
    Central = st0
    BaseName <- Names3
    KindOf <- LinksAndDir
    AltPath <- ToSlot
    VolumeStore <- TwoVolumes
    Serials = {st1, st2}
    Renames <- SameVolume
    InitFs <- TwoThere
    TrashArgs <- OneByOne
    Selections = {"exact", "last", "all"}
    RecoverModes = {"full", "to", "metadata"}
    CleanFlags <- AnyFlags
    ZoneA = 1
    ZoneB = 2
    ZoneC = 3
    FaultAt = {"load", "save", "symlink","delete", "remove"}
    CrashAt = {}
    MaxClock = 3
    MaxCalls = 2
    MaxFaults = 1
    MaxCrashes = 0
INVARIANTS FoundIfUnique
PROPERTIES LossNeedsClash CleanHonoursZones
