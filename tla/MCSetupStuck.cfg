SPECIFICATION LifeFairSpec
CONSTANTS
    s1 = s1
    NoSetup = NoSetup
    Structure = {s1}
    Side <- MCSide
    ArmedTtl = 1
    WatchTtl = 2
    ConsumedTtl = 3
    MaxWrites = 1
PROPERTIES WatchEnds
