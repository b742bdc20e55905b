CONSTANTS
    Replicas = {c1}
    Tasks = {t1, t2}
    MaxReads = 2
    RedisModes = {TRUE, FALSE}
    MaxVersion = 2
    MaxFlushes = 1
    Nothing = nothing
SPECIFICATION ConfigSpec
INVARIANTS ConfigTypeOK RefreshesHold
PROPERTIES  ChangeReachesSchool
CHECK_DEADLOCK FALSE
