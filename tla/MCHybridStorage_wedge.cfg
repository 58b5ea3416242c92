\* A request without a value leaves the mutex locked.
SPECIFICATION HFairSpec
CHECK_DEADLOCK FALSE
CONSTANTS
    c1 = c1
    c2 = c2
    n1 = n1
    n2 = n2
    f1 = f1
    nan = nan
    NoCaller = NoCaller
    Main = Main
    Names = {n1, n2}
    Half = 2
    Floats = {f1, nan}
    Unencodable = {nan}
    Callers = {c1, c2}
    Readers = {c1, c2, Main}
    Snapshots <- NoFile
    Batches <- NilBatches
    EveryTime = TRUE
PROPERTIES
    SignalledStops
