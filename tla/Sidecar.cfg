CONSTANTS
    t1 = t1
    t2 = t2
    Threads <- MCThreads
    None = None
    Backends <- BothBackends
    Cooldown = 1
    MaxBackoff = 2
    MaxFaults = 1
    MaxSpawnFails = 2
SPECIFICATION FairSpec
INVARIANT
    RespawnSound
PROPERTIES
    NoForkBomb
    Recovers
