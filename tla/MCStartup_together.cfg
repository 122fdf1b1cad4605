SPECIFICATION StartupFairSpec
CONSTANTS
    Services = {bot, api, admin}
    Plans = {start, pro}
    retries = 3
    DsnAccepted = TRUE
    VectorAvailable = TRUE
    MaxLosses = 3
    MaxStops = 2
INVARIANT PlansComplete
INVARIANT PlansBounded
PROPERTY SeededOnceIfSerial
PROPERTY ServicesStart
CHECK_DEADLOCK FALSE
