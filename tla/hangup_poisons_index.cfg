\* User 1 hangs up after the STAT reply; user 2 then uploads the same share.
CONSTANTS
    u1 = u1
    u2 = u2
    A = A
    B = B
    C = C
    D = D
    f1 = f1
    f2 = f2
    NoFP = NoFP
    NoIndex = NoIndex
    None = None
    Zeros = Zeros
    HangUpBeforeData = TRUE
    Users <- MCUsers
    FPs <- MCFPs
    SFVals <- MCSFVals
    SF <- MCSF
    ShareSize <- MCShareSize
    XDeltaSize <- MCXDeltaSize
    MinBaseSize = 4
    MinSrcSize = 2
    MaxDeltaDepth = 1
    BatchSize = 1
    ContainerSize = 8
    RecipeCacheSize = 1
    ShareFileBufLen = 8
    ShareFileHeadSize = 1
    ShareEntrySize = 1
    MaxContainers = 4
    Job <- JobHangUp
    Serial = TRUE
SPECIFICATION Spec
INVARIANT HonestUploadRestorable
