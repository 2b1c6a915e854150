SPECIFICATION Spec
CONSTANTS
    p1 = p1  p2 = p2  pa = pa  pb = pb  po = po
    na = na  nb = nb  nc = nc  i1 = i1  i2 = i2  i3 = i3  i4 = i4
    st0 = st0  st1 = st1  st2 = st2  nil = nil
    None = nil
    Procs = {p1, p2}
    Paths = {pa, pb, po}
    Names = {na, nb, nc}
    Items = {i1, i2, i3, i4}
    Stores = {st0, st1}
    Central = st0
    BaseName <- Names2
    KindOf <- FilesJunctionDir
    AltPath <- ToSelf
    VolumeStore <- OwnVolume
    Serials = {st1}
    Renames <- RenameA
    InitFs <- AllThere
    TrashArgs <- Meeting
    Selections = {"last"}
    RecoverModes = {}
    CleanFlags <- Piped
    ZoneA = 0
    ZoneB = 1
    ZoneC = 2
    FaultAt = {"load", "save", "mkdir", "rename", "copy", "delete", "manifest"}
    CrashAt = {"register", "save", "name", "mkdir", "stage", "delete"}
    MaxClock = 0
    MaxCalls = 3
    MaxFaults = 1
    MaxCrashes = 1
PROPERTIES LossWhileTrashing
SYMMETRY Symmetry
