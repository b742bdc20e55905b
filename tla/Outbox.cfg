CONSTANTS
    MaxEvents = 2
    Drainers = {loop, console}
    MaxAttempts = 2
    BatchLimits = {1, 2}
    MaxCrashes = 1
SPECIFICATION OutboxSpec
INVARIANTS OutboxTypeOK DeadLettersAreEarned
PROPERTIES DeliversAtLeastOnce EventsSettle
CHECK_DEADLOCK FALSE
