\* A crash between two steps of a backup.
SPECIFICATION HSpec
CONSTANTS
    c1 = c1
    c2 = c2
    n1 = n1
    n2 = n2
    f1 = f1
    nan = nan
    NoCaller = NoCaller
    Main = Main
    Names = {n1, n2}
    Half = 2
    Floats = {f1, nan}
    Unencodable = {nan}
    Callers = {c1}
    Readers = {c1, Main}
    Snapshots <- NoFile
    Batches <- TypedBatches
    EveryTime = TRUE
PROPERTIES
    RestartFindsSavedNames
