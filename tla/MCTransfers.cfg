CONSTANTS
    usr = usr
    bin = bin
    tmp = tmp
    Up = dotdot
    Names = {usr, bin, tmp, dotdot}
    None = None
    NoName = NoName
    MaxNodes = 5
    MaxBytes = 2
    MaxDepth = 2
    MaxLen = 0
    MaxUpload = 2
    Target = usr
    Link = bin
    MaxHandles = 3
    FeedCap = 1
    DirChunk = 3
    Paths <- MCPaths
    Offsets <- MCOffsets
    Chunks <- MCChunks
    MaxPipelined = 2
    MaxOpens = 3
    MaxReceived = 4
    MaxScpDepth = 1
    Targets <- MCTargets
    Sizes = {1, 3}
    MaxFiles = 2
    MaxNesting = 2
SPECIFICATION TransfersSpec
INVARIANTS MemoryBounded CapturesTrue
PROPERTIES WritesBecomeUploads MirrorsLand
