SPECIFICATION Spec
CONSTANTS
    Drivers = {d1, d2}
    NoDriver = NoDriver
    Calls = {"reinit"}
INVARIANT HandlersSafe
