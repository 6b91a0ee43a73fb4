\* One failure or crash anywhere, no answer of a commit lost.
CONSTANTS
    Null = Null
    l1 = l1  l2 = l2  u1 = u1  u2 = u2  u3 = u3
    p1 = p1  p2 = p2  p3 = p3
    c1 = c1  c2 = c2  c3 = c3
    Ids = {l1, u1}
    Procs = {p1, p2}
    Contents = {c1}
    Legacy = {l1}
    LegacyContent <- MCLegacyContent
    LegacyPath <- MCLegacyPath
    MediaTypeOf <- MCTypeOf
    SizeOf <- MCSizeOf
    Kinds <- KindsFaults
    MaxDay = 1
    MaxFaults = 1
    AckLoss = FALSE
SPECIFICATION Spec
INVARIANTS TypeOK RecordedFilesExist RecordedPreviewsWhole BackfillComplete
PROPERTIES ImplementsLibrary EveryStepCounts
