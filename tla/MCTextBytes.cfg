CONSTANTS
    Alphabets <- WideOnly
    Values <- MCValues
    Expressions <- MCExpressions
    Literal <- MCLiteral
    MaxExpr = 6
    Width = 3
    MaxDepth = 1
    MaxBuffer = 3
    MaxHistory = 2
    MaxKeys = 6
    Typeable = {"a", "sp", "/", "L", "K", "[", "A", "3", "~"}
    Controls = {"Enter", "Esc", "Tab", "Backspace", "Home", "End", "Left", "Right", "Prev", "Next", "KillStart", "KillEnd", "KillWord", "Yank", "Clear", "Search", "Interrupt", "Eof", "Abort"}
    Programs <- MCPrograms
    Listing <- MCListing
SPECIFICATION TextSpec
INVARIANT BodiesAreWhole
CHECK_DEADLOCK FALSE
