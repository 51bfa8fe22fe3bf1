SPECIFICATION CacheSpec
CONSTANTS
    p1 = p1
    empty = empty
    torn = torn
    h1 = h1
    h2 = h2
    none = none
    Storable <- MCStorable
    Empty <- empty
    Torn <- torn
    Handlers <- MCHandlers
    NoHandler <- none
    Durations <- MCDurations
    StoreUntil <- MCStoreUntil
    ClockLimit <- MCClockLimit
INVARIANT TimedHasKeeper
PROPERTIES KeptToDeadline TimedIsForgotten
CHECK_DEADLOCK FALSE
