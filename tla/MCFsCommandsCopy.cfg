CONSTANTS
    foo = foo
    bar = bar
    Names = {foo, bar, Up, Dot, Nameless}
    None = None
    NoName = NoName
    Up = Up
    Dot = Dot
    Nameless = Nameless
    Order <- MCOrder
    Paths <- MCPaths
    NamelessPaths <- MCNamelessPaths
    ModeSpecs <- MCModes
    Uploads <- MCUploads
    Uids = {0, 1}
    Owners = {1, 8}
    FieldWidth = 1
    PrefixWidth = 1
    OwnerDigits = 1
    MaxNodes = 6
    MaxBytes = 1
    MaxDepth = 2
    MaxLen = 1
    MaxLinks = 2
    MaxCopy = 1
    MaxCommands = 2
SPECIFICATION FsSpec
PROPERTY CopyAppears
VIEW Apart
CHECK_DEADLOCK FALSE
