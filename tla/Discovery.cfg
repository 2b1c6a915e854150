SPECIFICATION Spec
CONSTANTS
    root = root  wtf = wtf  sub = sub
    a = a  b = b  t = t  p1 = p1  p2 = p2  p3 = p3
    Absent = Absent  Torn = Torn  Broken = Broken  None = None
    Dirs = {root, wtf, sub}
    Root = root
    Kits = {a, b}
    Tools = {t}
    Procs = {p1, p2, p3}
    Home <- MCHome
    Order <- MCOrder
    Contents <- MCContents
    OnDisk <- MCOnDisk
    InKit <- MCInKit
    Introduced = {sub}
    Bases = {"projects", "tools"}
    Default = "projects"
    RealBase <- MCRealBase
    Layouts <- MCLayouts
    Constitutional = {}
INVARIANTS TypeOK FindsReachable FindsUntouched RegistrationKept
PROPERTIES DiscoveryEnds
CHECK_DEADLOCK FALSE
