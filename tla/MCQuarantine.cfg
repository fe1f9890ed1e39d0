CONSTANTS
    Sessions = {s1, s2}
    Payloads = {p1, p2}
    Size <- TwoBytes
    Torn <- OneByte
    SessionCap = 3
    GlobalCap = 4
    MaxFailures = 2
    MaxCrashes = 2
    MaxResets = 1
SPECIFICATION QSpec
INVARIANTS ContentAddressed SessionDiskBounded OvershootBounded CalmStoreIsHonest
SYMMETRY Symm
