SPECIFICATION FairSpec
CONSTANTS
    DataBits = 2
    NoVerdict = NoVerdict
INVARIANTS TypeOK AccumulatorsAgree
PROPERTIES ReceiverSpec FrameEnds
