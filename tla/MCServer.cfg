CONSTANTS
    Conns = {c1, c2, c3}
    Ips = {a1, a2}
    NoIp = NoIp
    MaxSessions = 2
    PerIp = 1
    Acceptors = 1
    LoginGrace = 1
    IdleTimeout = 2
    MaxSession = 2
    Never = Never
SPECIFICATION ServerSpec
INVARIANTS RegistryConsistent SlotFollowsHandler TimeoutsHold LogIsTrue
SYMMETRY Symm
PROPERTIES RefusalsAreJustified ImplementsSlots
