\* One tab with two calls under way, and other clients.
SPECIFICATION FairSpec
CONSTANTS
    o1 = o1
    n1 = n1
    n2 = n2
    c1 = c1
    Null = Null
    Assets = {o1, n1}
    Old = {o1}
    Contents = {c1}
    OldContent <- MCOldContent
    MaxCalls = 2
INVARIANTS
    TypeOK
    NoPhantomCards
    
    NoDuplicateCards
    
    RemovedGoes
PROPERTIES
    LoadingEnds
