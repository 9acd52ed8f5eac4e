SPECIFICATION FairSpec
CONSTANTS
    DataBits = 1
    MaxLen = 2
    RxLen = 2
    Arbitrated = TRUE
    AllocMayFail = TRUE
    StaleBytes = {0, 2}
    StaleBits = {0, 8}
    MaxTicks = 1
INVARIANTS TypeOK Listening ReceptionUndisturbed SentExactly BusReleased
PROPERTIES PortSpec ReceptionEnds
