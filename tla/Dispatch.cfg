SPECIFICATION Spec
CONSTANTS
    Root = "dz"
    Words = {"dz", "wtf", "sub", "find", "core", "setup", "list", "kit", "kit_list", "enable",
             "level", "note", "prop", "tree"}
    Digits = {"5"}
    Ranks = {"-1"}
    SubkeysOnly = {"KEY"}
    FiberRoots = {"kit", "level"}
    Engines = {"dz", "wtf", "sub"}
    RootEngines = {"dz", "wtf"}
    EscapeHatches = {"wtf"}
    Dispatchers = {"wtf"}
    Tools = {"find", "wtf", "sub", "core", "setup"}
    InProcess = {"wtf", "sub", "find"}
    None = None
    MaxCalls = 2
    MaxChanges = 2
    ToolNamed <- MCNamed
    KitNames <- MCKits
    OwnNames <- MCOwn
    Favorites <- MCFavorites
    Metas <- MCMetas
    NoParser <- MCNoParser
    TagOf <- MCTagOf
    AppliesAt <- MCAppliesAt
    Mutating <- MCMutating
    Extra <- MCExtra
    Validated <- MCValidated
    ShellLine <- MCShellLine
    Lines <- MCLines
    NestedLines <- MCNested
    Registrable <- MCRegistrable
    MeddledVars = {"COMMAND", "CANONICAL_FQCN"}
    MeddledValues <- MCMeddledValues
INVARIANTS TypeOK RoutedAsTyped OneTarget
PROPERTY PutBack
CHECK_DEADLOCK FALSE
