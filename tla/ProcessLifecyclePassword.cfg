\* The password of database_url after a rotation.
SPECIFICATION Spec

CONSTANTS
    NoSecrets = NoSecrets
    Fallback = Fallback
    g1 = g1
    g2 = g2
    NoEngine = NoEngine
    Engines <- TwoEngines
    PoolSize = 2
    MaxOverflow = 1
    MaxRotations = 2

INVARIANT LoadedPasswordIsUsed
