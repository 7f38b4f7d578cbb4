CONSTANTS
    cfg1 = cfg1
    run1 = run1
    NoCmd = NoCmd
    Cmds <- MC_Cmds
    CfgCmds <- MC_CfgCmds
    ChainIds = {i1, i2}
    MaxReq = 1
SPECIFICATION Spec
INVARIANTS
    TypeOK
PROPERTIES
    RebootReloadsForms
