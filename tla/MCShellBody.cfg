CONSTANTS
    Login = "u"
    Home <- MCHome
    Class <- MCClass
    Abs <- MCAbs
    Assigned <- MCAssigned
    Changed <- MCChanged
    InitFiles <- MCFiles
    MaxOutput = 3
    MaxNested = 5
    MaxScriptLines = 2
    MaxHistory = 2
    MaxVars = 5
    MaxNodes = 14
    MaxBytes = 12
    Parse <- Lines
    Typed <- MCTypedHeredoc
    Answers <- MCAnswers
    EndOfBody = "E"
    BodySub <- MCBodySub
    MaxLines = 3
SPECIFICATION ShellSpec
INVARIANT BodyCapturesKept
CHECK_DEADLOCK FALSE
