CONSTANTS
    MaxChannels = 1
    MaxLines = 1
    Uploads = {u1}
    MaxSubsystems = 2
SPECIFICATION SessionSpec
INVARIANT UploadsAreKept
