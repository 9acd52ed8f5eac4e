SPECIFICATION Spec
CONSTANTS
    Drivers = {d1, d2}
    NoDriver = NoDriver
    Calls = {"deinit"}
INVARIANTS TypeOK HandlersSafe LiveDriverServed OutcomeAccountedFor QuietPins
