CONSTANTS
    Sessions = {s1, s2}
    Payloads = {p1, p2, p3}
    Size <- TwoBytes
    Torn <- OneByte
    SessionCap = 3
    GlobalCap = 5
    MaxFailures = 0
    MaxCrashes = 1
    MaxResets = 0
SPECIFICATION QSpec
INVARIANT ReportedIsOnDisk
SYMMETRY Symm
