SPECIFICATION LiveSpec
CONSTANTS
    Null = Null
    Handlers = {h1, h2, h3}
    PoolSize = 1
    MaxOverflow = 1
    MaxOutages = 2
INVARIANTS
    TypeOK
    CounterIsExact
PROPERTIES
    FailuresHaveCause
    HandlersEnd
