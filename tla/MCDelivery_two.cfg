\* Two senders or the main goroutine, two reports, a crash of the server.
SPECIFICATION FairSpec
CONSTANTS
    w1 = w1
    w2 = w2
    Senders = {w1, w2}
    N = 2
    MaxCrashes = 1
    Tries = 4
INVARIANTS
    TypeOK
    LostOnlyIf
PROPERTIES
    OrderKept
    SignalledSendsEnd
    ImplementsAtMostOnce
\* Both reports sent, and no signal to come.
CHECK_DEADLOCK FALSE
