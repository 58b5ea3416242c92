\* Two requests at a time, single or batches that lock the rows in both orders.
SPECIFICATION FairSpec
CONSTANTS
    c1 = c1
    c2 = c2
    n1 = n1
    n2 = n2
    n3 = n3
    f1 = f1
    NoCaller = NoCaller
    Null = Null
    Names = {n1, n2, n3}
    TooLong = {n3}
    Half = 2
    Floats = {f1}
    Callers = {c1, c2}
    Singles <- SingleUpdates
    Batches <- BatchUpdates
INVARIANTS
    TypeOK
    OnlyClashesLose
    ReadersAgree
PROPERTIES
    SettledNeverClash
    EveryCallReturns
    ImplementsAtomicCalls
