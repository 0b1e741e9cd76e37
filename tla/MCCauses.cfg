CONSTANTS
    CallId = {c1}
    MscCause <- AllCauses
    PeerStatus <- AllStatuses
SPECIFICATION CausesSpec
INVARIANTS
    CauseReachesCaller
    StatusReachesMsc
