SPECIFICATION StorageSpec
CONSTANTS
    sn1 = sn1  sn2 = sn2  up1 = up1  up2 = up2  ch1 = ch1  ch2 = ch2
    StoreNodes <- MCStoreNodes
    Uploads = {up1, up2}
    Plain <- MCPlain
    ChunkSize <- MCChunkSize
    Replication = 1
    MaxFaults = 0
    MaxChallenges = 1
    NoKey = NoKey
INVARIANTS
    UploadRestores
CHECK_DEADLOCK FALSE
