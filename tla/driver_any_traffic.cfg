SPECIFICATION FairSpec
CONSTANTS
    DataBits = 1
    MaxLen = 1
    RxLen = 1
    Arbitrated = FALSE
    AllocMayFail = TRUE
    StaleBytes = {2}
    StaleBits = {0, 8}
    MaxTicks = 1
INVARIANTS HeapDiscipline InterruptsAccountedFor
PROPERTIES TransmitReturns
