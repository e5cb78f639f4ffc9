CONSTANTS
    Names = {"a.js"}
    Callers = {1, 2}
    Nobody = Nobody
    MaxQueue = 2
    MaxRestarts = 1
    MaxClicks = 2
    MaxRates = 2
    MaxFailures = 1
SPECIFICATION Spec
INVARIANTS TypeOK StoreAgrees IntervalExact
PROPERTY ShowsList
CHECK_DEADLOCK FALSE
