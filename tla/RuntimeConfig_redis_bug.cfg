CONSTANTS
    Replicas = {c1}
    Tasks = {t1, t2}
    MaxReads = 1
    RedisModes = {TRUE}
    MaxVersion = 2
    MaxFlushes = 1
    Nothing = nothing
SPECIFICATION ConfigSpec
INVARIANT ChangesPropagate
CHECK_DEADLOCK FALSE
