\* An upload while the first listing is under way.
SPECIFICATION Spec
CONSTANTS
    o1 = o1
    n1 = n1
    n2 = n2
    c1 = c1
    Null = Null
    Assets = {n1}
    Old = {}
    Contents = {c1}
    OldContent <- MCOldContent
    MaxCalls = 2
PROPERTIES
    UploadedStays
