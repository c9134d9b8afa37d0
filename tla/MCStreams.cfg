CONSTANTS
    StorageSize = 4
    NameSize = 1
    MaxTokens = 3
    MetadataSize = 3
    RequestSize = 2
    MaxHistory = 2
    Feeds <- MCFeeds
    Values <- MCValues
SPECIFICATION StreamSpec
INVARIANTS DecodesByReference UsageIsFinal CompleteMeansWhole FirstErrorReported
CHECK_DEADLOCK FALSE
