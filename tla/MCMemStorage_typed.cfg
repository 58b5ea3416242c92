\* Two callers, requests that fit the types, no reader: nothing may stop.
SPECIFICATION FairSpec
CONSTANTS
    c1 = c1
    c2 = c2
    c3 = c3
    r1 = r1
    n1 = n1
    n2 = n2
    f1 = f1
    f2 = f2
    NoCaller = NoCaller
    Main = Main
    Names = {n1, n2}
    Half = 2
    Floats = {f1, f2}
    Callers = {c1, c2}
    Snapshots <- Restored
    Readers = {}
    Batches <- TypedBatches
INVARIANTS
    NoAlias
    LossOnlyByRacingCreates
    ReplyReadsTheStoredMetric
PROPERTIES
    SettledIsForever
    EveryCallReturns
    ImplementsMetricMap
