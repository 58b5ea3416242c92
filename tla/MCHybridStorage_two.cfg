\* Two requests at a time whose backups overlap. A refused start is the end.
SPECIFICATION HSpec
CHECK_DEADLOCK FALSE
SYMMETRY Symmetry
VIEW LiveState
CONSTANTS
    c1 = c1
    c2 = c2
    n1 = n1
    n2 = n2
    f1 = f1
    nan = nan
    NoCaller = NoCaller
    Main = Main
    Names = {n1, n2}
    Half = 1
    Floats = {f1, nan}
    Unencodable = {nan}
    Callers = {c1, c2}
    Readers = {c1, c2, Main}
    Snapshots <- NoFile
    Batches <- SingleBatches
    EveryTime = FALSE
INVARIANTS
    CleanExitSavesEverything
