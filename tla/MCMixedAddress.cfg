CONSTANTS
    CallId = {c1}
    PeerSdp <- TwoPeers
    MscSdp <- Mscs
    MscCodec = {"GSM"}
SPECIFICATION MediaSpec
INVARIANTS
    AddressFromOneSdp
