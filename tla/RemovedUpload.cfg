SPECIFICATION Spec
CONSTANTS
    MaxItems = 2
    MaxVisits = 1
    MaxRecent = 1
    Images <- MCImages
    Percents = {0, 99, 100}
PROPERTIES
    TrashedDuplicateOffersChoice
CHECK_DEADLOCK FALSE
