CONSTANTS
    DeviceDsc = dev_dsc
    u1 = u1
    u2 = u2
    DevicePct <- MC_DevicePct
    UploadPct <- MC_UploadPct
    UploadSlots <- MC_UploadSlots
    MaxInFlight = 2
    MaxBatch = 1
    MaxRelReq = 1
SPECIFICATION Spec
INVARIANTS
PROPERTIES
    ErrorLeftOnlyByUser
