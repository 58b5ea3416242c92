\* Two callers with requests that fail, one reader of the live map.  A mutex
\* that is left locked and a fatal map race both stop the system.
SPECIFICATION Spec
CHECK_DEADLOCK FALSE
SYMMETRY Symmetry
CONSTANTS
    c1 = c1
    c2 = c2
    c3 = c3
    r1 = r1
    n1 = n1
    n2 = n2
    f1 = f1
    f2 = f2
    NoCaller = NoCaller
    Main = Main
    Names = {n1, n2}
    Half = 2
    Floats = {f1}
    Callers = {c1, c2}
    Snapshots <- Restored
    Readers = {r1}
    Batches <- FaultyBatches
INVARIANTS
    TypeOK
    UpdateFindsKey
    MemInv
PROPERTIES
    WedgedIsReadOnly
