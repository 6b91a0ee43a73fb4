SPECIFICATION FairSpec
CONSTANTS
    MaxItems = 3
    MaxVisits = 2
    MaxRecent = 1
    Images <- MCImages
    Percents = {0, 99, 100}
INVARIANTS
    TypeOK
    OneUploadPerItem
    StatusTellsUpload
    UrlsOfListed
    FullMeansSent
PROPERTIES
    GoneStaysGone
    EveryUploadEnds
CHECK_DEADLOCK FALSE
