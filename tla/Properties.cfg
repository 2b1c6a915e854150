SPECIFICATION Spec
CONSTANTS
    Root = "dz"
    Words = {"dz", "dazzlecmd", "meta", "level", "kit", "verb", "config", "tool", "core", "f", "my", "rm", "f-rm",
             "find", "note", "channels", "verbosity", "version", "hidden", "tree",
             "management", "loading", "attach", "detach", "visibility", "virtual-kit", "alias"}
    Digits = {"0", "1"}
    Ranks = {"-1", "-2"}
    SubkeysOnly = {"KEY"}
    FiberRoots = {"meta", "level", "kit", "alias"}
    AppName = "dazzlecmd"
    Objects = {"levels", "presence", "lifecycle", "shown", "loads"}
    Mounts <- MCMounts
    Kids <- MCKids
    RungsOf <- MCRungs
    TreeAliases <- MCAliases
    KitSeq <- MCKits
    ToolSeq <- MCTools
    Dashed <- MCDashed
    RankOf <- MCRankOf
    VkRank = between
    EmptyText = empty
    None = None
    Procs = {p1, p2}
    ValueAliases <- MCValueAliases
    Valid <- MCValid
    Defaults <- MCDefaults
    ReadonlyFamilies <- MCReadonly
    NamedRanks <- MCNamed
    ConfigEntries = {"tree"}
    MaxJobs = 3
    Texts <- MCTexts
    Tokens <- MCTokens
    Spellings = {"kit", "rung", "core", "level", "absent", "version", "mylevel", "relation", "named"}
INVARIANTS TypeOK RelationTold QuietCovers
SYMMETRY Symmetry
VIEW Changing
PROPERTY LossHasCause
CHECK_DEADLOCK FALSE
