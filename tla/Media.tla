------------------------------- MODULE Media --------------------------------
(***************************************************************************)
(* Connector with the media: the SDP and the RTP address each leg has      *)
(* received, and what was passed on to the other side.  Every action is an *)
(* action of Connector, with the outcome that Connector leaves open (known *)
(* address, usable audio, moved address) computed from the SDP received.   *)
(*                                                                         *)
(* media[c] has the fields of the two legs                                 *)
(*   sip   rx, changed (rx_sdp, rx_sdp_changed), ip, port, wanted          *)
(*   mncc  rx, changed, codec (payload_msg_type)                           *)
(* and, as ghosts, what the two parties were last told                     *)
(*   msc   the sdp, ip and port of the peer, by SETUP_REQ and RTP_ messages*)
(*   peer  the mode of the SDP sent to the peer                            *)
(***************************************************************************)
EXTENDS Connector, Sdp

CONSTANTS PeerSdp,   \* what the SIP peer may send
          MscSdp,    \* what the MSC may send, NoSdp for an MSC without SDP
          MscCodec   \* what app_media_name makes of the MSC's payload type

ASSUME SdpAssumption == NoSdp \notin PeerSdp

VARIABLE media

mvars == <<conn, reconnect, calls, fault, media>>

NoSipMedia  == [rx |-> NoSdp, changed |-> FALSE, ip |-> "none", port |-> 0, wanted |-> "none"]
NoMnccMedia == [rx |-> NoSdp, changed |-> FALSE, codec |-> "none"]
NoMsc       == [sdp |-> NoSdp, ip |-> "none", port |-> 0]
NoMedia     == [sip |-> NoSipMedia, mncc |-> NoMnccMedia, msc |-> NoMsc, peer |-> "none"]

MediaInit == Init /\ media = [c \in CallId |-> NoMedia]

\* A freed leg takes its media along.
KeepLegs(k, m) ==
    [sip  |-> IF HasSip(k)  THEN m.sip  ELSE NoSipMedia,
     peer |-> IF HasSip(k)  THEN m.peer ELSE "none",
     mncc |-> IF HasMncc(k) THEN m.mncc ELSE NoMnccMedia,
     msc  |-> IF HasMncc(k) THEN m.msc  ELSE NoMsc]

\* The handler leaves the media of call c as m, and some legs freed.
Leaves(c, m) ==
    media' = [d \in CallId |-> KeepLegs(calls'[d], IF d = c THEN m ELSE media[d])]

\* The handler does not touch the media.
NoNews == media' = [d \in CallId |-> KeepLegs(calls'[d], media[d])]

-----------------------------------------------------------------------------
(* What handlers do to the media of a call.                                *)

FromPeer(m, s) == [m EXCEPT !.sip = call_leg_rx_sdp(@, s)]
FromMscSdp(m, s) == [m EXCEPT !.mncc = call_leg_rx_sdp(@, s)]

\* send_rtp_connect: the last SDP and the address of the SIP leg, whatever the flag.
send_rtp_connect(m) ==
    [m EXCEPT !.msc = [sdp |-> m.sip.rx, ip |-> m.sip.ip, port |-> m.sip.port]]

\* The SDP of the SIP leg is forwarded if it is new (SETUP_REQ, RTP_CREATE).
ForwardNews(m) ==
    IF m.sip.changed
    THEN [m EXCEPT !.msc.sdp = m.sip.rx, !.sip.changed = FALSE]
    ELSE m

\* The peer is sent the SDP of the MNCC leg, in answer to an offer or as an offer.
TellPeer(m, mode) ==
    [m EXCEPT !.peer = sdp_create_file(m.mncc, mode),
              !.sip.wanted = WantedCodec(m.sip, m.mncc)]

-----------------------------------------------------------------------------
(* Messages of the MSC that carry an SDP.                                  *)

MediaSetup(c, s) == check_setup(c) /\ Leaves(c, FromMscSdp(media[c], s))

\* check_rtp_create; a mobile originated call is routed with the INVITE.
MediaRtpCreate(c, s, codec) ==
    LET m == FromMscSdp([media[c] EXCEPT !.mncc.codec = codec], s)
    IN  /\ check_rtp_create(c)
        /\ IF ~mncc_find_leg_not_released(calls[c]) THEN NoNews ELSE
           IF calls[c].orig = "MNCC" THEN Leaves(c, TellPeer(m, "sendrecv"))
                                     ELSE Leaves(c, m)

MediaRtpConnect(c, s, ok) ==
    /\ check_rtp_connect(c, ok)
    /\ IF mncc_find_leg_not_released(calls[c]) THEN Leaves(c, FromMscSdp(media[c], s)) ELSE NoNews

MediaCnfInd(c, s) == check_cnf_ind(c) /\ Leaves(c, ForwardNews(FromMscSdp(media[c], s)))

\* The handlers that only store the SDP.
MediaStored(c, s) ==
    /\ check_stp_cmpl_ind(c) \/ check_alrt_ind(c) \/ check_dtmf(c)
    /\ Leaves(c, FromMscSdp(media[c], s))

\* check_stp_cnf: RTP_CONNECT, then 200 OK with SDP (sip_connect_call).
MediaStpCnf(c, s) ==
    LET m == FromMscSdp(media[c], s)
    IN  /\ check_stp_cnf(c)
        /\ Leaves(c, IF HasSip(calls[c]) THEN TellPeer(send_rtp_connect(m), "sendrecv") ELSE m)

\* Mutant: sip_retrieve_call that repeats the mode of the hold.
MediaRetrieve_sendonly(c) ==
    /\ check_retrieve_ind(c)
    /\ IF HasSip(calls[c])
       THEN Leaves(c, send_rtp_connect(TellPeer(media[c], "sendonly")))
       ELSE NoNews

\* sip_hold_call; sip_retrieve_call and RTP_CONNECT.
MediaHold(c) ==
    /\ check_hold_ind(c)
    /\ IF HasSip(calls[c]) THEN Leaves(c, TellPeer(media[c], "sendonly")) ELSE NoNews
MediaRetrieve(c) ==
    /\ check_retrieve_ind(c)
    /\ IF HasSip(calls[c])
       THEN Leaves(c, send_rtp_connect(TellPeer(media[c], "sendrecv")))
       ELSE NoNews

-----------------------------------------------------------------------------
(* Events of sofia-sip that carry an SDP.                                  *)

\* 180, 183: call_progress takes the address from the SDP if the codec matches, and
\* mncc_call_leg_ring passes on whatever address the leg has.
MediaProgress(c, s) ==
    LET r == FromPeer(media[c], s)
        m == IF HasMncc(calls[c]) THEN [r EXCEPT !.sip = sdp_extract_sdp(@, s, FALSE)] ELSE r
        known == m.sip.ip # "none" /\ m.sip.port # 0
    IN  /\ nua_r_invite_progress(c, known)
        /\ Leaves(c, IF known THEN send_rtp_connect(m) ELSE m)

MediaTrying(c, s) == nua_r_invite_trying(c) /\ Leaves(c, FromPeer(media[c], s))

\* 200: stored only when it answers a re-INVITE, else extracted and passed on.
MediaOk(c, s) ==
    LET r == FromPeer(media[c], s)
        m == [r EXCEPT !.sip = sdp_extract_sdp(@, s, FALSE)]
        up == calls[c].sip \in {"CONNECTED", "HOLD"}
        audio == Extracted(r.sip, s, FALSE)
    IN  /\ nua_r_invite_ok(c, audio)
        /\ IF up \/ ~HasMncc(calls[c]) THEN Leaves(c, r) ELSE
           IF audio THEN Leaves(c, send_rtp_connect(m)) ELSE Leaves(c, m)

\* new_call, once the INVITE has passed sdp_screen_sdp: the SDP goes into SETUP_REQ.
MediaNewCall(c, s) ==
    /\ sdp_screen_sdp(s)
    /\ \/ new_call(c, "malformed") /\ NoNews
       \/ /\ new_call(c, IF Extracted(NoSipMedia, s, TRUE) THEN "routed" ELSE "no_audio")
          /\ Leaves(c, ForwardNews(FromPeer(
                 [NoMedia EXCEPT !.sip = sdp_extract_sdp(@, s, TRUE)], s)))

\* Mutant: sip_handle_reinvite that compares the IP address only.
MediaReinvite_ip_only(c, s) ==
    LET r == FromPeer(media[c], s)
        m == [r EXCEPT !.sip = sdp_extract_sdp(@, s, TRUE)]
        moved == m.sip.ip # media[c].sip.ip
    IN  /\ HasMncc(calls[c]) /\ sdp_get_sdp_mode(s) /\ s.mode # "sendonly"
        /\ Extracted(r.sip, s, TRUE)
        /\ sip_handle_reinvite(c, IF moved THEN "moved" ELSE "answered")
        /\ Leaves(c, TellPeer(IF moved THEN send_rtp_connect(m) ELSE m, "sendrecv"))

\* sip_handle_reinvite with an SDP that has an active mode other than sendonly.
MediaReinvite(c, s) ==
    LET r == FromPeer(media[c], s)
        m == [r EXCEPT !.sip = sdp_extract_sdp(@, s, TRUE)]
        moved == <<m.sip.ip, m.sip.port>> # <<media[c].sip.ip, media[c].sip.port>>
    IN  /\ HasMncc(calls[c]) /\ sdp_get_sdp_mode(s) /\ s.mode # "sendonly"
        /\ IF ~Extracted(r.sip, s, TRUE)
           THEN sip_handle_reinvite(c, "no_audio") /\ NoNews
           ELSE /\ sip_handle_reinvite(c, IF moved THEN "moved" ELSE "answered")
                /\ Leaves(c, TellPeer(IF moved THEN send_rtp_connect(m) ELSE m, "sendrecv"))

\* sip_handle_reinvite with sendonly: the peer holds the call, the MSC is not told.
MediaPeerHolds(c, s) ==
    /\ HasMncc(calls[c]) /\ s.mode = "sendonly"
    /\ sip_handle_reinvite(c, "answered")
    /\ Leaves(c, TellPeer(FromPeer(media[c], s), "recvonly"))

\* sip_handle_reinvite without SDP, or with one sdp_get_sdp_mode finds no mode in; the
\* SDP was stored by nua_callback all the same.
MediaReinviteNoMode(c, s) ==
    /\ HasMncc(calls[c]) /\ ~sdp_get_sdp_mode(s)
    /\ sip_handle_reinvite(c, "answered")
    /\ Leaves(c, TellPeer(FromPeer(media[c], s), "sendrecv"))

\* sip_handle_reinvite without other leg.
MediaReinviteAlone(c, s) ==
    /\ ~HasMncc(calls[c])
    /\ sip_handle_reinvite(c, "answered")
    /\ Leaves(c, FromPeer(media[c], s))

-----------------------------------------------------------------------------
MediaMsc(c) ==
    \/ \E s \in MscSdp : \/ MediaSetup(c, s) \/ MediaCnfInd(c, s) \/ MediaStored(c, s)
                         \/ MediaStpCnf(c, s)
                         \/ \E codec \in MscCodec : MediaRtpCreate(c, s, codec)
                         \/ \E ok \in BOOLEAN : MediaRtpConnect(c, s, ok)
    \/ MediaHold(c) \/ MediaRetrieve(c)

MediaSip(c) ==
    \E s \in PeerSdp \cup {NoSdp} :
        \/ MediaProgress(c, s)  \/ MediaTrying(c, s)    \/ MediaOk(c, s)
        \/ MediaNewCall(c, s)   \/ MediaReinvite(c, s)  \/ MediaPeerHolds(c, s)
        \/ MediaReinviteNoMode(c, s) \/ MediaReinviteAlone(c, s)

\* The events without SDP.
WithoutSdp(c) == \/ check_disc_ind(c) \/ check_rel_ind(c) \/ check_rel_cnf(c) \/ check_rej_ind(c)
                 \/ CmdTimeout(c) \/ MscDropsCall(c)
                 \/ nua_r_invite_fail(c) \/ nua_r_bye(c) \/ nua_r_cancel(c)
                 \/ nua_i_bye(c) \/ nua_i_cancel(c)

MediaNext ==
    \/ \E c \in CallId : MediaMsc(c) \/ MediaSip(c) \/ (WithoutSdp(c) /\ NoNews)
    \/ /\ \/ mncc_reconnect_ok \/ mncc_reconnect_fail \/ check_hello \/ mncc_data_bad
          \/ show_calls_sum \/ show_calls
       /\ NoNews

MediaSpec == MediaInit /\ [][MediaNext]_mvars

-----------------------------------------------------------------------------
(* Properties.                                                             *)

SdpRec == PeerSdp \cup MscSdp \cup {NoSdp}

MediaTypeOK ==
    /\ DOMAIN media = CallId
    /\ \A c \in CallId : LET m == media[c] IN
          /\ m.sip.rx \in SdpRec /\ m.mncc.rx \in SdpRec /\ m.msc.sdp \in SdpRec
          /\ m.sip.changed \in BOOLEAN
          /\ m.sip.wanted \in MscCodec \cup {"none"}
          /\ m.peer \in Mode \cup {"none"}

\* An SDP of the peer that the MSC has not been told is marked as new on the SIP leg
\* (rx_sdp_changed), however many SDPs came, went and were forwarded: otherwise the
\* next SETUP_REQ or RTP_CREATE would silently leave it out.
NewsIsFlagged ==
    \A c \in CallId :
        BothLegs(calls[c]) => media[c].msc.sdp = media[c].sip.rx \/ media[c].sip.changed

\* Once the peer has answered, the MSC sends its speech to the address the SIP leg
\* has, through re-INVITEs, progress responses to a re-INVITE, hold and retrieve.
\* Port 0 is no address: mncc_call_leg_ring does not pass it on.
MscHasPeerAddress ==
    \A c \in CallId :
        /\ BothLegs(calls[c])
        /\ calls[c].sip \in {"CONNECTED", "HOLD"}
        /\ media[c].sip.port # 0
        => media[c].msc.ip = media[c].sip.ip /\ media[c].msc.port = media[c].sip.port

\* A peer that was put on hold is told so when the call is retrieved: a connected SIP
\* leg was never last told to keep quiet by the subscriber's hold.
NotLeftOnHold ==
    \A c \in CallId : calls[c].sip = "CONNECTED" => media[c].peer # "sendonly"

-----------------------------------------------------------------------------
(* A claim of a comment that the code does not keep.                       *)

\* sip.c says of a progress response "Extract SDP for session in progress with matching
\* codec": the MSC is told the address of one SDP, never parts of two.
AddressFromOneSdp ==
    \A c \in CallId : LET t == media[c].msc IN
        t.ip # "none" => \E s \in PeerSdp : s.ip = t.ip /\ s.port = t.port
=============================================================================
