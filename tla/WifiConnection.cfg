CONSTANTS
    s1 = s1
    s2 = s2
    NoSsid = NoSsid
    SSIDs <- MC_SSIDs
    MaxPending = 2
    MaxScan = 2
SPECIFICATION Spec
INVARIANTS
    TypeOK
    SuccessMatchesConnection
    ConnectedRowShown
