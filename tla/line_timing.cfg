SPECIFICATION Spec
CONSTANTS
    DataBits = 8
    TimerClock = 32000000
    Bauds = {9600, 19200}
    Skews = {995, 1000, 1005}
    Latencies = {100, 160}
    IsrTimes = {20, 150}
    Messages <- SingleBytes
    Disturbed <- BytePairs
INVARIANTS SampledInside RoundTrip DamageNoticed ParityTableEven
\* One transmission per behaviour: the model stops when it has been received.
CHECK_DEADLOCK FALSE
