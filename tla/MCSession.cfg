CONSTANTS
    MaxChannels = 2
    MaxLines = 3
    Uploads = {u1, u2}
    MaxSubsystems = 1
SPECIFICATION SessionSpec
INVARIANTS ChannelsAreIsolated TerminalFollowsState UploadsAreKept
PROPERTIES LateCloseIsHarmless OnlyEndsLoseCommands
