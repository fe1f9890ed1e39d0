CONSTANTS
    Names = {a, b}
    None = None
    NoName = NoName
    MaxNodes = 4
    MaxBytes = 1
    MaxDepth = 2
    MaxLen = 1
SPECIFICATION VfsSpec
INVARIANTS TreeSound CapsKept
SYMMETRY Symm
PROPERTY RenameKeepsNodes
