\* Two tabs with two requests under way; two sessions.
SPECIFICATION Spec
CONSTANTS
    x1 = x1
    x2 = x2
    t1 = t1
    t2 = t2
    t3 = t3
    s1 = s1
    s2 = s2
    Tabs = {x1, x2}
    Nobody = Nobody
    Tokens = {t1, t2, t3}
    Slots = {s1, s2}
    MaxSessions = 2
INVARIANTS
    TypeOK
    TabKeepsSession
    LoginFormWorks
    LeftChangesNothing
    LeftReadsByLaterLogin
SYMMETRY MCSymmetry
