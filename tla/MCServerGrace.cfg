CONSTANTS
    Conns = {c1, c2}
    Ips = {a1}
    NoIp = NoIp
    MaxSessions = 1
    PerIp = 1
    Acceptors = 1
    LoginGrace = 1
    IdleTimeout = 2
    MaxSession = 3
    Never = Never
SPECIFICATION ServerSpec
INVARIANT LoginGraceHolds
