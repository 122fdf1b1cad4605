SPECIFICATION BotSpec
CONSTANTS
    Tasks = {t1, t2}
    limit = 2
    MaxMessages = 4
    MaxFailures = 1
    MaxTaps = 1
    MaxErrors = 1
INVARIANT CounterBounded
PROPERTY LimitKeptIfSerial
PROPERTY DialogKeptIfSerial
CHECK_DEADLOCK FALSE
