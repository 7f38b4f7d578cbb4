CONSTANTS
    b1 = b1
    b2 = b2
    m1 = m1
    m2 = m2
    BtNames <- MC_BtNames
    StatusMsgs <- MC_StatusMsgs
    MaxLog = 3
    MaxBatch = 2
SPECIFICATION Spec
INVARIANTS
    TransportErrorLogged
