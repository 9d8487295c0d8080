SPECIFICATION FairSpec
CONSTANTS
    Servers = {s1, s2}
    HookTimeout = 3
    Interval = 1
    MaxLostBeats = 0
    MaxFailures = 1
PROPERTIES
    ServersGetReady
CHECK_DEADLOCK FALSE
