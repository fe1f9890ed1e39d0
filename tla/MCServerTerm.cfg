CONSTANTS
    Conns = {c1, c2}
    Ips = {a1}
    NoIp = NoIp
    MaxSessions = 1
    PerIp = 1
    Acceptors = 1
    LoginGrace = 1
    IdleTimeout = 1
    MaxSession = 2
    Never = Never
SPECIFICATION FairServer
PROPERTY SigtermIsHeeded
