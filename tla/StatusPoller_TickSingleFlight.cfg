CONSTANTS
    t1 = t1
    t2 = t2
    TickIds <- MC_TickIds
    MaxTimers = 2
    MaxInFlight = 2
    BtStatus = {0, 5}
SPECIFICATION Spec
INVARIANTS
    TickSingleFlight
