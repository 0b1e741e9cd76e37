CONSTANTS
    CallId = {c1}
    PeerSdp <- Peers
    MscSdp <- Mscs
    MscCodec = {"GSM"}
SPECIFICATION MediaSpec
INVARIANTS
    MediaTypeOK
    NewsIsFlagged
    MscHasPeerAddress
    NotLeftOnHold
