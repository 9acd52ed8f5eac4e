SPECIFICATION FairSpec
CONSTANTS
    HBS_MAX_DATA_LEN = 255
    RxLen = 5
    Lossy = TRUE
INVARIANTS TypeOK HalfDuplex StatusCurrent
PROPERTY Answered
