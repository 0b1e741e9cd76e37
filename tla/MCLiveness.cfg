CONSTANT
    CallId = {c1}
SPECIFICATION FairSpec
PROPERTIES
    Reconnects
    ReleaseEnds
    OrphanSipEnds
