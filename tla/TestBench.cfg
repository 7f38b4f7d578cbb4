CONSTANTS
    MaxInFlight <- MC_MaxInFlight
    SeqLen = 1
    MaxSeq = 2
    ItemsParse = FALSE
    MaxPushes = 1
SPECIFICATION Spec
INVARIANTS
    TypeOK
PROPERTIES
    PageStopsAfterOldRecoveryUpdate
