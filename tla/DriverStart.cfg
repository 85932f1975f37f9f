\* Two nodes one after the other, a read thread that may be two tokens ahead,
\* four rates, receivers that answer in time or not, calls that may fail.
CONSTANTS
    Loads = 2
    MaxTokens = 2
    Rates <- MCRates
    Target = 460800
    HostRates <- MCHostRates
    ComRates <- MCComRates
    OtherRate = 1
    DefaultRate = 115200
SPECIFICATION StartSpec
CHECK_DEADLOCK FALSE
INVARIANTS NoJoinableDestroyed DeviceReleased UsedWhileAlive LeftClean ReceiverFound ReadsAtTarget
PROPERTIES NodeEnds SearchIsOneStep
