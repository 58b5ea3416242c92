\* Two collectors, two polls and one, a report of three names over channels of one.
SPECIFICATION FairSpec
CONSTANTS
    mem = mem
    extra = extra
    Alloc = Alloc
    PollCount = PollCount
    TotalMemory = TotalMemory
    NoItem = NoItem
    Names = {Alloc, PollCount, TotalMemory}
    Counters = {PollCount}
    Fallible = {extra}
    Half = 4
    Cap = 1
    MaxReports = 1
    Floats <- Readings
    Poll <- TwoCollectors
    Rates <- Limits
    MaxPolls <- TwoAndOne
INVARIANTS
    TypeOK
    NeverSendsOnClosed
    PollsAreCounted
    StoredInPollOrder
PROPERTIES
    PollsReachTheStore
    SignalledExits
\* The process ends.
CHECK_DEADLOCK FALSE
