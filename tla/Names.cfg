CONSTANTS
    None = None
    Segments <- McSegments
    Names <- McNames
    Rank <- McRank
    Dirs = {"d1", "d2", "d3", "d4", "d5"}
    Library = "lib"
    Core = "core"
    Constitutional = {"sd"}
    Preferred <- McPreferred
    AliasNames <- McAliasNames
    MaxCalls = 3
    Discoveries <- McDiscoveries
    VirtualKits <- McVirtualKits
SPECIFICATION Spec
INVARIANT TypeOK
INVARIANT SingleHop
INVARIANT ShortExact
INVARIANT AllDispatch
INVARIANT Converge
PROPERTY UndoRestores
PROPERTY IsNameSpace
CHECK_DEADLOCK FALSE
