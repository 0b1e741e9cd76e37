---------------------------- MODULE MediaProofs -----------------------------
(***************************************************************************)
(* Media adds to Connector what messages carry and takes no step that      *)
(* Connector does not take, so that what ConnectorProofs shows of the legs *)
(* holds with the media as well, for every set of calls and of SDPs.       *)
(*                                                                         *)
(* The properties of the media rest on MInv: IInv, and of every call       *)
(*   Told     what the two parties were told, next to what the legs know;  *)
(*   Clean    a leg that is not there has no media, so that a new leg      *)
(*            starts without any.                                          *)
(* Told is stated of a record k, which need not be calls[c]: a handler     *)
(* establishes it for the record it has made of the call when it is about  *)
(* to finish, and Quiet says that every way to finish keeps it.            *)
(***************************************************************************)
EXTENDS Media, ConnectorProofs

Up == {"CONNECTED", "HOLD"}

\* The types of the fields that MediaTypeOK leaves open come from the SDPs.
Ip   == {s.ip : s \in PeerSdp} \cup {"none"}
Port == {s.port : s \in PeerSdp} \cup {0}
SipMedia  == [rx : SdpRec, changed : BOOLEAN, ip : Ip, port : Port, wanted : MscCodec \cup {"none"}]
MnccMedia == [rx : SdpRec, changed : BOOLEAN, codec : MscCodec \cup {"none"}]
MscMedia  == [sdp : SdpRec, ip : Ip, port : Port]
MediaRec  == [sip : SipMedia, mncc : MnccMedia, msc : MscMedia, peer : Mode \cup {"none"}]

Told(k, m) ==
    /\ m \in MediaRec
    /\ m.sip.port # 0 => m.sip.ip # "none"
    /\ m.peer = "sendonly" => k.sip = "HOLD"
    /\ k.orig = "MNCC" /\ k.mncc = "INITIAL" => m.msc = NoMsc
    /\ BothLegs(k) => m.msc.sdp = m.sip.rx \/ m.sip.changed
    /\ BothLegs(k) /\ k.sip \in Up /\ m.sip.port # 0
       => m.msc.ip = m.sip.ip /\ m.msc.port = m.sip.port

Clean(k, m) == /\ ~HasSip(k) => m.sip = NoSipMedia /\ m.peer = "none"
               /\ ~HasMncc(k) => m.mncc = NoMnccMedia /\ m.msc = NoMsc

MInv == /\ IInv
        /\ media \in [CallId -> MediaRec]
        /\ \A c \in CallId : Told(calls[c], media[c]) /\ Clean(calls[c], media[c])

\* The legs of l are those of k, or fewer, and the SIP leg of l is not further than that of k.
Quiet(k, l) ==
    /\ HasSip(l) => HasSip(k)
    /\ HasMncc(l) => HasMncc(k)
    /\ k.sip = "HOLD" => l.sip \in {"HOLD", "NONE"}
    /\ BothLegs(l) /\ l.sip \in Up => k.sip \in Up
    /\ l.orig = "MNCC" /\ l.mncc = "INITIAL" => k.orig = "MNCC" /\ k.mncc = "INITIAL"

\* The step ends a handler that has made k of call c.
Ends(c, k) == \A d \in CallId : Quiet(IF d = c THEN k ELSE calls[d], calls'[d])

-----------------------------------------------------------------------------
(* Media is a refinement of Connector.                                     *)

\* Every message of the MSC that carries an SDP is one of Connector's.
LEMMA MediaMscStep == ASSUME NEW c \in CallId, MediaMsc(c) PROVE mncc_data(c)
BY DEF MediaMsc, MediaSetup, MediaCnfInd, MediaStored, MediaStpCnf, MediaRtpCreate,
       MediaRtpConnect, MediaHold, MediaRetrieve, mncc_data

\* The outcome that Connector leaves open is one of those it allows.
LEMMA MediaSipStep == ASSUME NEW c \in CallId, MediaSip(c) PROVE nua_callback(c)
<1> PICK s \in PeerSdp \cup {NoSdp} :
        \/ MediaProgress(c, s)  \/ MediaTrying(c, s)    \/ MediaOk(c, s)
        \/ MediaNewCall(c, s)   \/ MediaReinvite(c, s)  \/ MediaPeerHolds(c, s)
        \/ MediaReinviteNoMode(c, s) \/ MediaReinviteAlone(c, s)
    BY DEF MediaSip
<1>1. CASE MediaProgress(c, s)
    BY <1>1 DEF MediaProgress, nua_callback
<1>2. CASE MediaTrying(c, s)
    BY <1>2 DEF MediaTrying, nua_callback
<1>3. CASE MediaOk(c, s)
  <2>1. Extracted(FromPeer(media[c], s).sip, s, FALSE) \in BOOLEAN
      BY DEF Extracted, FoundMap
  <2>2. QED BY <1>3, <2>1 DEF MediaOk, nua_callback
<1>4. CASE MediaNewCall(c, s)
    BY <1>4 DEF MediaNewCall, nua_callback
<1>5. CASE MediaReinvite(c, s)
    BY <1>5 DEF MediaReinvite, nua_callback
<1>6. CASE MediaPeerHolds(c, s) \/ MediaReinviteNoMode(c, s) \/ MediaReinviteAlone(c, s)
    BY <1>6 DEF MediaPeerHolds, MediaReinviteNoMode, MediaReinviteAlone, nua_callback
<1>7. QED BY <1>1, <1>2, <1>3, <1>4, <1>5, <1>6

\* Every step with media is a step of the event loop, or leaves it alone.
LEMMA MediaStep == [MediaNext]_mvars => [Next]_vars
<1> SUFFICES ASSUME [MediaNext]_mvars PROVE [Next]_vars
    OBVIOUS
<1>1. CASE UNCHANGED mvars
    BY <1>1 DEF mvars, vars
<1>2. ASSUME NEW c \in CallId, MediaMsc(c) \/ MediaSip(c) PROVE Next
    BY <1>2, MediaMscStep, MediaSipStep DEF Next
<1>3. ASSUME NEW c \in CallId, WithoutSdp(c) PROVE Next
    BY <1>3 DEF WithoutSdp, Next, mncc_data, nua_callback
<1>4. QED BY <1>1, <1>2, <1>3 DEF MediaNext, Next

\* The connector with media implements the connector without.
THEOREM MediaImplements == MediaSpec => Spec
BY MediaStep, PTL DEF MediaSpec, MediaInit, Spec

\* With media too, no release path forgets one of the two parties.
THEOREM MediaClearing == MediaSpec => []ClearedTogether
BY MediaImplements, Clearing, PTL

-----------------------------------------------------------------------------
(* What the operators on the media of a call do to each of its parts.      *)

\* A leg that is not there has media of the right type.
LEMMA NoMediaFields ==
    /\ NoMedia \in MediaRec /\ NoSipMedia \in SipMedia /\ NoMnccMedia \in MnccMedia
    /\ NoMsc \in MscMedia
    /\ NoMedia.sip = NoSipMedia /\ NoMedia.mncc = NoMnccMedia /\ NoMedia.msc = NoMsc
    /\ NoMedia.peer = "none"
    /\ NoSipMedia.rx = NoSdp /\ NoSipMedia.port = 0 /\ ~NoSipMedia.changed
    /\ NoMsc.sdp = NoSdp
BY DEF NoMedia, MediaRec, NoSipMedia, SipMedia, NoMnccMedia, MnccMedia, NoMsc, MscMedia, SdpRec,
       Ip, Port

\* An SDP of the peer is stored and flagged, or nothing happens.
LEMMA FromPeerFields ==
    ASSUME NEW m \in MediaRec, NEW s \in PeerSdp \cup {NoSdp}
    PROVE  LET l == FromPeer(m, s) IN
           /\ l \in MediaRec /\ l.mncc = m.mncc /\ l.msc = m.msc /\ l.peer = m.peer
           /\ l.sip.ip = m.sip.ip /\ l.sip.port = m.sip.port /\ l.sip.wanted = m.sip.wanted
           /\ l.sip.changed \/ l.sip = m.sip
<1> DEFINE x == call_leg_rx_sdp(m.sip, s)
           l == [m EXCEPT !.sip = x]
<1>1. /\ x \in SipMedia /\ x.ip = m.sip.ip /\ x.port = m.sip.port /\ x.wanted = m.sip.wanted
      /\ x.changed \/ x = m.sip
    BY DEF call_leg_rx_sdp, MediaRec, SipMedia, SdpRec
<1>2. FromPeer(m, s) = l
    BY DEF FromPeer
<1> HIDE DEF x
<1>3. l \in MediaRec /\ l.mncc = m.mncc /\ l.msc = m.msc /\ l.peer = m.peer /\ l.sip = x
    BY <1>1 DEF MediaRec
<1>4. QED BY <1>1, <1>2, <1>3

\* An SDP of the MSC changes the MNCC leg only.
LEMMA FromMscFields ==
    ASSUME NEW m \in MediaRec, NEW s \in MscSdp
    PROVE  LET l == FromMscSdp(m, s) IN
           l \in MediaRec /\ l.sip = m.sip /\ l.msc = m.msc /\ l.peer = m.peer
<1> DEFINE x == call_leg_rx_sdp(m.mncc, s)
           l == [m EXCEPT !.mncc = x]
<1>1. x \in MnccMedia
    BY DEF call_leg_rx_sdp, MediaRec, MnccMedia, SdpRec
<1>2. FromMscSdp(m, s) = l
    BY DEF FromMscSdp
<1> HIDE DEF x
<1>3. l \in MediaRec /\ l.sip = m.sip /\ l.msc = m.msc /\ l.peer = m.peer
    BY <1>1 DEF MediaRec
<1>4. QED BY <1>2, <1>3

\* RTP_CONNECT tells the MSC what the SIP leg has.
LEMMA SendRtpFields ==
    ASSUME NEW m \in MediaRec
    PROVE  LET l == send_rtp_connect(m) IN
           /\ l \in MediaRec /\ l.sip = m.sip /\ l.mncc = m.mncc /\ l.peer = m.peer
           /\ l.msc.sdp = m.sip.rx /\ l.msc.ip = m.sip.ip /\ l.msc.port = m.sip.port
BY DEF send_rtp_connect, MediaRec, SipMedia, MscMedia

\* SETUP_REQ and RTP_CREATE tell the MSC of a new SDP, and take its flag away.
LEMMA ForwardFields ==
    ASSUME NEW m \in MediaRec
    PROVE  LET l == ForwardNews(m) IN
           /\ l \in MediaRec /\ l.mncc = m.mncc /\ l.peer = m.peer
           /\ l.sip.ip = m.sip.ip /\ l.sip.port = m.sip.port
           /\ l.msc.ip = m.msc.ip /\ l.msc.port = m.msc.port
           /\ IF m.sip.changed THEN l.msc.sdp = l.sip.rx ELSE l = m
BY DEF ForwardNews, MediaRec, SipMedia, MscMedia

\* The peer is told the wanted mode, unless the SDP of the MSC has no media.
LEMMA TellPeerFields ==
    ASSUME NEW m \in MediaRec, NEW mode \in Mode
    PROVE  LET l == TellPeer(m, mode) IN
           /\ l \in MediaRec /\ l.mncc = m.mncc /\ l.msc = m.msc
           /\ l.peer \in {mode, "none"}
           /\ l.sip.rx = m.sip.rx /\ l.sip.changed = m.sip.changed
           /\ l.sip.ip = m.sip.ip /\ l.sip.port = m.sip.port
<1>1. WantedCodec(m.sip, m.mncc) \in MscCodec \cup {"none"}
    BY DEF WantedCodec, MediaRec, SipMedia, MnccMedia
<1>2. sdp_create_file(m.mncc, mode) \in {mode, "none"}
    BY DEF sdp_create_file
<1>3. QED BY <1>1, <1>2 DEF TellPeer, MediaRec, SipMedia

\* sdp_extract_sdp writes the address alone, or address and port.
LEMMA ExtractFields ==
    ASSUME NEW m \in MediaRec, NEW s \in PeerSdp \cup {NoSdp}, NEW any
    PROVE  LET l == [m EXCEPT !.sip = sdp_extract_sdp(@, s, any)] IN
           /\ l \in MediaRec /\ l.mncc = m.mncc /\ l.msc = m.msc /\ l.peer = m.peer
           /\ l.sip.rx = m.sip.rx /\ l.sip.changed = m.sip.changed
           /\ (m.sip.port # 0 => m.sip.ip # "none") => (l.sip.port # 0 => l.sip.ip # "none")
<1> DEFINE x == sdp_extract_sdp(m.sip, s, any)
           l == [m EXCEPT !.sip = x]
<1>0. s.ip \in Ip /\ s.port \in Port
    BY DEF Ip, Port, NoSdp
<1>1. /\ x \in SipMedia /\ x.rx = m.sip.rx /\ x.changed = m.sip.changed
      /\ (m.sip.port # 0 => m.sip.ip # "none") => (x.port # 0 => x.ip # "none")
    BY <1>0 DEF sdp_extract_sdp, Extracted, MediaRec, SipMedia
<1> HIDE DEF x
<1>2. l \in MediaRec /\ l.mncc = m.mncc /\ l.msc = m.msc /\ l.peer = m.peer /\ l.sip = x
    BY <1>1 DEF MediaRec
<1>3. QED BY <1>1, <1>2 DEF x

-----------------------------------------------------------------------------
(* How handlers end, seen from the media.                                  *)

\* Legs that are the same or gone.
LEMMA QuietLess ==
    ASSUME NEW k, NEW l, l.sip = k.sip \/ l.sip = "NONE", l.mncc = k.mncc \/ l.mncc = "NONE",
           HasMncc(l) => l.orig = k.orig
    PROVE  Quiet(k, l)
BY DEF Quiet, BothLegs, HasMncc, HasSip

\* Quiet changes add up to a quiet change.
LEMMA QuietTrans ==
    ASSUME NEW k, NEW l, NEW n, Quiet(k, l), Quiet(l, n)
    PROVE  Quiet(k, n)
BY DEF Quiet, BothLegs, HasMncc, HasSip

\* Releasing the SIP leg leaves it as it is, or frees it.
LEMMA ReleaseSipLess ==
    ASSUME NEW k \in CallRec
    PROVE  LET r == release_other_sip(k) IN
           /\ r \in CallRec /\ r.mncc = k.mncc
           /\ r.sip = k.sip \/ r.sip = "NONE"
           /\ HasMncc(k) => r.orig = k.orig
BY CancelFields, ByeFields, DropSipFields DEF release_other_sip, sip_release_call

\* app_mncc_disconnected frees the MNCC leg, and perhaps the SIP leg.
LEMMA DisconnectLess ==
    ASSUME NEW k \in CallRec
    PROVE  LET l == app_mncc_disconnected(k) IN
           /\ l.mncc = "NONE"
           /\ l.sip = k.sip \/ l.sip = "NONE"
<1> DEFINE r == release_other_sip(k)
           d == mncc_leg_release(r)
<1>1. CASE ~HasMncc(k)
    BY <1>1, MscGoneFields DEF app_mncc_disconnected, HasMncc
<1>2. CASE HasMncc(k)
  <2>1. r \in CallRec /\ (r.sip = k.sip \/ r.sip = "NONE")
      BY ReleaseSipLess
  <2> HIDE DEF r
  <2>2. d \in CallRec /\ d.mncc = "NONE" /\ d.sip = r.sip
      BY <2>1, FreeMnccFields
  <2> HIDE DEF d
  <2>3. MscGone(d).mncc = "NONE" /\ MscGone(d).sip = d.sip
      BY <2>2, MscGoneFields
  <2>4. QED BY <1>2, <2>1, <2>2, <2>3 DEF app_mncc_disconnected, d, r
<1>3. QED BY <1>1, <1>2

\* Done.
LEMMA EndsDone ==
    ASSUME IInv, NEW c \in CallId, NEW k, NEW l, Quiet(k, l), Done(c, l)
    PROVE  Ends(c, k)
<1>1. calls \in [CallId -> CallRec] /\ calls' = [calls EXCEPT ![c] = l]
    BY DEF IInv, Done
<1>2. ASSUME NEW d \in CallId, d # c PROVE Quiet(calls[d], calls'[d])
    BY <1>1, <1>2, QuietLess
<1>3. calls'[c] = l
    BY <1>1
<1>4. QED BY <1>2, <1>3 DEF Ends

\* A failed write: what the handler has done to the MNCC leg so far does not matter.
LEMMA EndsFail ==
    ASSUME IInv, NEW c \in CallId, NEW k, NEW l \in CallRec,
           HasSip(l) => HasSip(k), k.sip = "HOLD" => l.sip \in {"HOLD", "NONE"},
           WriteFails(c, l) \/ WriteFailsLegUsed(c, l)
    PROVE  Ends(c, k)
<1>1. CASE close_connection(c, l)
  <2>1. ASSUME NEW d \in CallId, d # c PROVE Quiet(calls[d], calls'[d])
    <3>1. calls[d] \in CallRec /\ calls'[d] = app_mncc_disconnected(calls[d])
        BY <1>1, <2>1 DEF IInv, close_connection
    <3>2. QED BY <3>1, DisconnectLess, QuietLess DEF HasMncc
  <2>2. Quiet(k, calls'[c])
    <3>1. calls'[c] = app_mncc_disconnected(l)
        BY <1>1 DEF close_connection
    <3>2. calls'[c].mncc = "NONE" /\ (calls'[c].sip = l.sip \/ calls'[c].sip = "NONE")
        BY <3>1, DisconnectLess
    <3>3. QED BY <3>2 DEF Quiet, BothLegs, HasMncc, HasSip
  <2>3. QED BY <2>1, <2>2 DEF Ends
<1>2. CASE Restart("use_after_free")
    BY <1>2, NoCallFields DEF Restart, Ends, Quiet, BothLegs, HasMncc, HasSip
<1>3. QED BY <1>1, <1>2 DEF WriteFails, WriteFailsLegUsed

\* mncc_call_leg_release as the last thing a handler does.
LEMMA EndsRelease ==
    ASSUME IInv, NEW c \in CallId, NEW k, NEW l \in CallRec, Quiet(k, l), release_mncc(c, l)
    PROVE  Ends(c, k)
<1> DEFINE rk == [l EXCEPT !.rel = TRUE]
           f == mncc_leg_release(l)
           n == mncc_call_leg_release(l)
<1>1. rk \in CallRec /\ rk.mncc = l.mncc /\ rk.sip = l.sip /\ rk.orig = l.orig
    BY DEF CallRec
<1> HIDE DEF rk
<1>2. Quiet(l, f)
    BY FreeMnccFields, QuietLess DEF HasMncc
<1>3. Quiet(l, n)
  <2>1. CASE l.mncc # "INITIAL"
    <3>1. Quiet(l, start_cmd_timer(rk, "REL_IND"))
        BY <1>1, StartTimerFields, QuietLess DEF Wanted
    <3>2. QED BY <2>1, <3>1 DEF mncc_call_leg_release, rk
  <2>2. CASE l.mncc = "INITIAL" /\ l.orig = "MNCC"
    <3> DEFINE a == Ask(l, "REJ_REQ")
    <3>1. a \in CallRec /\ a.sip = l.sip
        BY AskFields DEF MscRequest
    <3> HIDE DEF a
    <3>2. Quiet(l, mncc_leg_release(a))
        BY <3>1, FreeMnccFields, QuietLess DEF HasMncc
    <3>3. QED BY <2>2, <3>2 DEF mncc_call_leg_release, a
  <2>3. CASE l.mncc = "INITIAL" /\ l.orig # "MNCC"
    <3> DEFINE t == start_cmd_timer(rk, "REL_CNF")
    <3>1. t \in CallRec /\ t.mncc = l.mncc /\ t.sip = l.sip /\ t.orig = l.orig
        BY <1>1, StartTimerFields DEF Wanted
    <3> HIDE DEF t
    <3>2. Quiet(l, Ask(t, "REL_REQ"))
        BY <3>1, AskFields, QuietLess DEF MscRequest
    <3>3. QED BY <2>3, <3>2 DEF mncc_call_leg_release, t, rk
  <2>4. QED BY <2>1, <2>2, <2>3
<1> HIDE DEF f, n
<1>4. Quiet(k, f) /\ Quiet(k, n)
    BY <1>2, <1>3, QuietTrans
<1>5. HasSip(l) => HasSip(k)
    BY DEF Quiet
<1>6. k.sip = "HOLD" => l.sip \in {"HOLD", "NONE"}
    BY DEF Quiet
<1>7. Done(c, f) \/ Done(c, n) \/ WriteFails(c, l) \/ WriteFailsLegUsed(c, l)
    BY DEF release_mncc, f, n
<1>8. QED BY <1>4, <1>5, <1>6, <1>7, EndsDone, EndsFail

\* The reply to an RTP message for a leg that is gone or in release.
LEMMA EndsReject ==
    ASSUME IInv, NEW c \in CallId, NEW k, NEW l \in CallRec, Quiet(k, l), RejectRtp(c, l)
    PROVE  Ends(c, k)
<1> DEFINE a == Ask(l, "REJ_REQ")
<1>1. Quiet(l, a)
    BY AskFields, QuietLess DEF MscRequest
<1>2. Done(c, a) \/ WriteFails(c, l)
    BY DEF RejectRtp
<1> HIDE DEF a
<1>3. Quiet(k, a)
    BY <1>1, QuietTrans
<1>4. QED BY <1>2, <1>3, EndsDone, EndsFail DEF Quiet

\* A freed leg takes its media along; what is left is told.
LEMMA KeepTold ==
    ASSUME NEW k, NEW l, NEW m, Told(k, m), Quiet(k, l)
    PROVE  Told(l, KeepLegs(l, m)) /\ Clean(l, KeepLegs(l, m))
<1> DEFINE n == KeepLegs(l, m)
<1>1. /\ n.sip = IF HasSip(l) THEN m.sip ELSE NoSipMedia
      /\ n.peer = IF HasSip(l) THEN m.peer ELSE "none"
      /\ n.mncc = IF HasMncc(l) THEN m.mncc ELSE NoMnccMedia
      /\ n.msc = IF HasMncc(l) THEN m.msc ELSE NoMsc
      /\ n \in MediaRec
    BY NoMediaFields DEF KeepLegs, Told, MediaRec
<1> HIDE DEF n
<1>2. Clean(l, n)
    BY <1>1 DEF Clean
<1>3. Told(l, n)
    BY <1>1, NoMediaFields DEF Told, Quiet, BothLegs, HasMncc, HasSip
<1>4. QED BY <1>2, <1>3 DEF n

\* A handler that ends with the media of its call as m keeps the invariant.
LEMMA LeaveGood ==
    ASSUME MInv, IInv', NEW c \in CallId, NEW k, NEW m, Told(k, m), Ends(c, k), Leaves(c, m)
    PROVE  MInv'
<1>1. ASSUME NEW d \in CallId
      PROVE  Told(calls'[d], media'[d]) /\ Clean(calls'[d], media'[d])
  <2> DEFINE x == IF d = c THEN k ELSE calls[d]
             y == IF d = c THEN m ELSE media[d]
  <2>1. Told(x, y) /\ Quiet(x, calls'[d])
      BY DEF MInv, Ends
  <2>2. media'[d] = KeepLegs(calls'[d], y)
      BY DEF Leaves
  <2> HIDE DEF x, y
  <2>3. QED BY <2>1, <2>2, KeepTold
<1>2. media' \in [CallId -> MediaRec]
    BY <1>1 DEF Leaves, Told
<1>3. QED BY <1>1, <1>2 DEF MInv

\* A step that does not touch the media keeps the invariant if it is quiet.
LEMMA NoNewsGood ==
    ASSUME MInv, IInv', \A d \in CallId : Quiet(calls[d], calls'[d]), NoNews
    PROVE  MInv'
<1>1. ASSUME NEW d \in CallId
      PROVE  Told(calls'[d], media'[d]) /\ Clean(calls'[d], media'[d])
  <2>1. media'[d] = KeepLegs(calls'[d], media[d])
      BY DEF NoNews
  <2>2. QED BY <2>1, KeepTold DEF MInv
<1>2. media' \in [CallId -> MediaRec]
    BY <1>1 DEF NoNews, Told
<1>3. QED BY <1>1, <1>2 DEF MInv

-----------------------------------------------------------------------------
(* The events without SDP are quiet.                                       *)

\* The other leg is dropped and the MNCC leg released.
LEMMA EndsHangup ==
    ASSUME IInv, NEW c \in CallId, NEW k, NEW l \in CallRec, l.mncc = k.mncc, l.orig = k.orig,
           release_other_mncc(c, DropSip(l))
    PROVE  Ends(c, k)
<1> DEFINE d == DropSip(l)
<1>1. d \in CallRec /\ Quiet(k, d)
    BY DropSipFields, QuietLess DEF HasMncc
<1>2. release_mncc(c, d) \/ Done(c, d)
    BY DEF release_other_mncc
<1> HIDE DEF d
<1>3. QED BY <1>1, <1>2, EndsRelease, EndsDone

\* Nothing that happens without an SDP sets up, connects, holds or retrieves a leg.
LEMMA WithoutSdpQuiet ==
    ASSUME IInv, NEW c \in CallId, WithoutSdp(c)
    PROVE  \A d \in CallId : Quiet(calls[d], calls'[d])
<1> DEFINE v == calls[c]
           g == MscGone(v)
           rg == release_other_sip(g)
           rv == release_other_sip(v)
<1>0. v \in CallRec
    BY DEF IInv
<1>1. g \in CallRec /\ g.mncc = v.mncc /\ g.orig = v.orig /\ g.sip = v.sip
    BY <1>0, MscGoneFields
<1>2. rv \in CallRec /\ (rv.sip = v.sip \/ rv.sip = "NONE")
    BY <1>0, ReleaseSipLess
<1> HIDE DEF g
<1>3. rg \in CallRec /\ (rg.sip = v.sip \/ rg.sip = "NONE")
    BY <1>1, ReleaseSipLess
<1> HIDE DEF rg, rv
<1>4. /\ Quiet(v, g) /\ Quiet(v, mncc_leg_release(g))
      /\ Quiet(v, mncc_leg_release(rg)) /\ Quiet(v, mncc_leg_release(rv))
    BY <1>1, <1>2, <1>3, FreeMnccFields, QuietLess DEF HasMncc
<1>5. CASE check_rel_ind(c) \/ check_rel_cnf(c) \/ check_rej_ind(c) \/ CmdTimeout(c)
           \/ MscDropsCall(c)
  <2>1. \/ Done(c, mncc_leg_release(g)) \/ Done(c, mncc_leg_release(rg))
        \/ Done(c, mncc_leg_release(rv)) \/ Done(c, g)
      BY <1>5 DEF check_rel_ind, check_rel_cnf, check_rej_ind, CmdTimeout, cmd_timeout,
         MscDropsCall, g, rg, rv
  <2>2. Ends(c, v)
      BY <1>4, <2>1, EndsDone
  <2>3. QED BY <2>2 DEF Ends
<1>6. CASE check_disc_ind(c)
  <2> DEFINE t == start_cmd_timer(v, "REL_CNF")
             k == [t EXCEPT !.rel = TRUE, !.msc = "DISC"]
             a == Ask(k, "REL_REQ")
             r == release_other_sip(a)
  <2>1. Done(c, r) \/ WriteFailsLegUsed(c, k)
      BY <1>6 DEF check_disc_ind
  <2>2. t \in CallRec /\ t.mncc = v.mncc /\ t.orig = v.orig /\ t.sip = v.sip
      BY <1>0, StartTimerFields DEF Wanted
  <2> HIDE DEF t
  <2>3. k \in CallRec /\ k.mncc = v.mncc /\ k.orig = v.orig /\ k.sip = v.sip
      BY <2>2 DEF CallRec, MscState
  <2> HIDE DEF k
  <2>4. a \in CallRec /\ a.mncc = v.mncc /\ a.orig = v.orig /\ a.sip = v.sip
      BY <2>3, AskFields DEF MscRequest
  <2> HIDE DEF a
  <2>5. Quiet(v, r)
      BY <2>4, ReleaseSipLess, QuietLess DEF HasMncc
  <2> HIDE DEF r
  <2>6. Ends(c, v)
      BY <2>1, <2>3, <2>5, EndsDone, EndsFail DEF HasSip
  <2>7. QED BY <2>6 DEF Ends
<1>7. CASE nua_r_bye(c) \/ nua_r_cancel(c)
  <2>1. Quiet(v, DropSip(v))
      BY <1>0, DropSipFields, QuietLess DEF HasMncc
  <2>2. Ends(c, v)
      BY <1>7, <2>1, EndsDone DEF nua_r_bye, nua_r_cancel
  <2>3. QED BY <2>2 DEF Ends
<1>8. CASE nua_i_bye(c) \/ nua_i_cancel(c)
  <2>1. Ends(c, v)
      BY <1>0, <1>8, EndsHangup DEF nua_i_bye, nua_i_cancel
  <2>2. QED BY <2>1 DEF Ends
<1>9. CASE nua_r_invite_fail(c)
  <2> DEFINE k == Confirmed(v)
  <2>1. k \in CallRec /\ k.mncc = v.mncc /\ k.orig = v.orig
      BY <1>0 DEF Confirmed, CallRec, SipState
  <2>2. release_other_mncc(c, DropSip(k))
      BY <1>9 DEF nua_r_invite_fail
  <2> HIDE DEF k
  <2>3. Ends(c, v)
      BY <2>1, <2>2, EndsHangup
  <2>4. QED BY <2>3 DEF Ends
<1>10. QED BY <1>5, <1>6, <1>7, <1>8, <1>9 DEF WithoutSdp

\* Neither does anything that happens to the connection, nor the VTY.
LEMMA ConnectionQuiet ==
    ASSUME IInv, \/ mncc_reconnect_ok \/ mncc_reconnect_fail \/ check_hello \/ mncc_data_bad
                 \/ show_calls_sum \/ show_calls
    PROVE  \A d \in CallId : Quiet(calls[d], calls'[d])
<1>1. CASE mncc_data_bad
  <2>1. ASSUME NEW d \in CallId PROVE Quiet(calls[d], calls'[d])
    <3>1. calls[d] \in CallRec /\ calls'[d] = app_mncc_disconnected(calls[d])
        BY <1>1 DEF IInv, mncc_data_bad
    <3>2. QED BY <3>1, DisconnectLess, QuietLess DEF HasMncc
  <2>2. QED BY <2>1
<1>2. CASE UNCHANGED calls
    BY <1>2, QuietLess
<1>3. CASE Restart("null_pointer") \/ Restart("stale_name")
    BY <1>3, NoCallFields DEF Restart, Quiet, BothLegs, HasMncc, HasSip
<1>4. QED BY <1>1, <1>2, <1>3
          DEF mncc_reconnect_ok, mncc_reconnect_fail, check_hello, show_calls_sum, show_calls

-----------------------------------------------------------------------------
(* Messages of the MSC that carry an SDP.                                  *)

\* A new mobile originated call has media on neither side.
LEMMA MediaSetupGood ==
    ASSUME MInv, IInv', NEW c \in CallId, NEW s \in MscSdp, MediaSetup(c, s)
    PROVE  MInv'
<1> DEFINE v == calls[c]
           n == call_mncc_create(v)
           t == start_cmd_timer(n, "RTP_CREATE")
           k == [t EXCEPT !.msc = "SETUP"]
           m == FromMscSdp(media[c], s)
<1>0. IInv /\ v = NoCall /\ media[c] \in MediaRec /\ Clean(v, media[c])
    BY DEF MediaSetup, check_setup, MInv
<1>1. Done(c, Ask(k, "RTP_CREATE")) \/ WriteFails(c, k)
    BY DEF MediaSetup, check_setup
<1>2. t \in CallRec /\ t.orig = "MNCC" /\ t.mncc = "INITIAL" /\ t.sip = "NONE"
  <2>1. n \in CallRec /\ n.orig = "MNCC" /\ n.mncc = "INITIAL" /\ n.sip = "NONE"
      BY <1>0, NoCallFields DEF call_mncc_create, CallRec, LegType, MnccState
  <2> HIDE DEF n
  <2>2. QED BY <2>1, StartTimerFields DEF Wanted
<1> HIDE DEF t
<1>3. k \in CallRec /\ k.orig = "MNCC" /\ k.mncc = "INITIAL" /\ k.sip = "NONE"
    BY <1>2 DEF CallRec, MscState
<1> HIDE DEF k
<1>4. Ends(c, k)
  <2>1. Quiet(k, Ask(k, "RTP_CREATE"))
      BY <1>3, AskFields, QuietLess DEF MscRequest
  <2>2. QED BY <1>0, <1>1, <1>3, <2>1, EndsDone, EndsFail
<1>5. Told(k, m)
  <2>1. media[c].sip = NoSipMedia /\ media[c].peer = "none" /\ media[c].msc = NoMsc
      BY <1>0, NoCallFields DEF Clean, HasSip, HasMncc
  <2>2. m \in MediaRec /\ m.sip = NoSipMedia /\ m.peer = "none" /\ m.msc = NoMsc
      BY <1>0, <2>1, FromMscFields
  <2> HIDE DEF m
  <2>3. QED BY <1>3, <2>2, NoMediaFields DEF Told, BothLegs, HasSip
<1>6. Leaves(c, m)
    BY DEF MediaSetup
<1> HIDE DEF m
<1>7. QED BY <1>4, <1>5, <1>6, LeaveGood

\* The INVITE of a mobile originated call is sent when neither party has been told anything.
LEMMA MediaRtpCreateGood ==
    ASSUME MInv, IInv', NEW c \in CallId, NEW s \in MscSdp, NEW codec \in MscCodec,
           MediaRtpCreate(c, s, codec)
    PROVE  MInv'
<1> DEFINE v == calls[c]
           a == Answered(v, "RTP_CREATE")
           z == stop_cmd_timer(a, "RTP_CREATE")
           p == [z EXCEPT !.mncc = "PROCEEDING"]
           i == [p EXCEPT !.sip = "INITIAL", !.nh = TRUE]
           n == nua_invite(i)
           x == [media[c] EXCEPT !.mncc.codec = codec]
           m == FromMscSdp(x, s)
           w == TellPeer(m, "sendrecv")
<1>0. /\ IInv /\ Good(conn, v) /\ "RTP_CREATE" \in v.req /\ media[c] \in MediaRec
      /\ Told(v, media[c]) /\ Clean(v, media[c])
    BY DEF MediaRtpCreate, check_rtp_create, MInv, IInv
<1>1. \/ ~mncc_find_leg_not_released(a) /\ RejectRtp(c, a)
      \/ mncc_find_leg_not_released(a) /\ a.orig = "MNCC" /\ continue_mo_call(c, z)
      \/ mncc_find_leg_not_released(a) /\ a.orig = "SIP" /\ Done(c, z)
    BY DEF MediaRtpCreate, check_rtp_create
<1>2. IF ~mncc_find_leg_not_released(v) THEN NoNews ELSE
      IF v.orig = "MNCC" THEN Leaves(c, w) ELSE Leaves(c, m)
    BY DEF MediaRtpCreate
<1>3. /\ a \in CallRec /\ a.orig = v.orig /\ a.mncc = v.mncc /\ a.rel = v.rel /\ a.sip = v.sip
      /\ mncc_find_leg_not_released(a) <=> mncc_find_leg_not_released(v)
    BY <1>0, AnsweredFields DEF Good, Base, mncc_find_leg_not_released, HasMncc
<1> HIDE DEF a
<1>4. z \in CallRec /\ z.orig = v.orig /\ z.mncc = v.mncc /\ z.sip = v.sip
    BY <1>3, StopTimerFields
<1> HIDE DEF z
<1>5. x \in MediaRec /\ x.sip = media[c].sip /\ x.msc = media[c].msc /\ x.peer = media[c].peer
    BY <1>0 DEF MediaRec, MnccMedia
<1> HIDE DEF x
<1>6. m \in MediaRec /\ m.sip = media[c].sip /\ m.msc = media[c].msc /\ m.peer = media[c].peer
    BY <1>5, FromMscFields
<1> HIDE DEF m
<1>7. CASE ~mncc_find_leg_not_released(v)
  <2>1. Ends(c, v)
      BY <1>0, <1>1, <1>3, <1>7, QuietLess, EndsReject
  <2>2. QED BY <1>2, <1>7, <2>1, NoNewsGood DEF Ends
<1>8. CASE mncc_find_leg_not_released(v) /\ v.orig # "MNCC"
  <2>1. Done(c, z) /\ Leaves(c, m)
      BY <1>1, <1>2, <1>3, <1>8
  <2>2. Ends(c, v)
      BY <1>0, <1>4, <2>1, QuietLess, EndsDone
  <2>3. Told(v, m)
      BY <1>0, <1>6 DEF Told
  <2>4. QED BY <2>1, <2>2, <2>3, LeaveGood
<1>9. CASE mncc_find_leg_not_released(v) /\ v.orig = "MNCC"
  <2>1. v.mncc = "INITIAL" /\ v.sip = "NONE"
      BY <1>0, <1>9 DEF mncc_find_leg_not_released, Good, Waiting, HasMncc, HasSip
  <2>2. continue_mo_call(c, z) /\ Leaves(c, w)
      BY <1>1, <1>2, <1>3, <1>9
  <2>3. p \in CallRec /\ p.mncc = "PROCEEDING" /\ p.orig = "MNCC" /\ p.sip = "NONE"
      BY <1>4, <1>9, <2>1 DEF CallRec, MnccState
  <2>4. Done(c, n) \/ release_mncc(c, p) \/ WriteFailsLegUsed(c, z)
      BY <2>2 DEF continue_mo_call, route_to_sip, sip_create_remote_leg
  <2> HIDE DEF p
  <2>5. i \in CallRec /\ i.mncc = "PROCEEDING" /\ i.orig = "MNCC" /\ i.sip = "INITIAL"
      BY <2>3 DEF CallRec, SipState
  <2> HIDE DEF i
  <2>6. n.mncc = "PROCEEDING" /\ n.orig = "MNCC" /\ n.sip = "INITIAL"
      BY <2>5, InviteFields
  <2> HIDE DEF n
  <2>7. Ends(c, n)
    <3>1. Quiet(n, n) /\ Quiet(n, p)
        BY <2>3, <2>6, QuietLess
    <3>2. QED BY <1>0, <1>4, <2>1, <2>3, <2>4, <2>6, <3>1, EndsDone, EndsRelease, EndsFail
              DEF HasSip
  <2>8. Told(n, w)
    <3>1. media[c].sip = NoSipMedia /\ media[c].msc = NoMsc
        BY <1>0, <1>9, <2>1 DEF Told, Clean, HasSip
    <3>2. /\ w \in MediaRec /\ w.msc = NoMsc /\ w.peer \in {"sendrecv", "none"}
          /\ w.sip.rx = NoSdp /\ w.sip.port = 0
        BY <1>6, <3>1, NoMediaFields, TellPeerFields DEF Mode
    <3> HIDE DEF w
    <3>3. QED BY <2>6, <3>2, NoMediaFields DEF Told, Up
  <2> HIDE DEF w
  <2>9. QED BY <2>2, <2>7, <2>8, LeaveGood
<1>10. QED BY <1>7, <1>8, <1>9

\* An SDP of the MSC changes nothing that the two parties were told.
LEMMA StoredTold ==
    ASSUME NEW k, NEW m, Told(k, m), NEW s \in MscSdp
    PROVE  Told(k, FromMscSdp(m, s))
<1> DEFINE l == FromMscSdp(m, s)
<1>1. l \in MediaRec /\ l.sip = m.sip /\ l.msc = m.msc /\ l.peer = m.peer
    BY FromMscFields DEF Told
<1> HIDE DEF l
<1>2. Told(k, l)
    BY <1>1 DEF Told
<1>3. QED BY <1>2 DEF l

\* RTP_CONNECT that comes back stores an SDP at most.
LEMMA MediaRtpConnectGood ==
    ASSUME MInv, IInv', NEW c \in CallId, NEW s \in MscSdp, NEW ok, MediaRtpConnect(c, s, ok)
    PROVE  MInv'
<1> DEFINE v == calls[c]
           k == Answered(v, "RTP_CONNECT")
           r == release_other_sip(k)
<1>0. IInv /\ v \in CallRec /\ Told(v, media[c])
    BY DEF MInv, IInv
<1>1. RejectRtp(c, k) \/ Done(c, k) \/ release_mncc(c, r)
    BY DEF MediaRtpConnect, check_rtp_connect
<1>2. k \in CallRec /\ k.mncc = v.mncc /\ k.orig = v.orig /\ k.sip = v.sip
    BY <1>0, AnsweredFields
<1> HIDE DEF k
<1>3. r \in CallRec /\ Quiet(v, r)
    BY <1>2, ReleaseSipLess, QuietLess DEF HasMncc
<1> HIDE DEF r
<1>4. Ends(c, v)
    BY <1>0, <1>1, <1>2, <1>3, QuietLess, EndsReject, EndsDone, EndsRelease
<1>5. Leaves(c, FromMscSdp(media[c], s)) \/ NoNews
    BY DEF MediaRtpConnect
<1>6. QED BY <1>0, <1>4, <1>5, StoredTold, LeaveGood, NoNewsGood DEF Ends

\* SETUP_COMPL_IND, ALERT_IND and DTMF store an SDP.
LEMMA MediaStoredGood ==
    ASSUME MInv, IInv', NEW c \in CallId, NEW s \in MscSdp, MediaStored(c, s)
    PROVE  MInv'
<1> DEFINE v == calls[c]
           k == Answered(v, "SETUP_RSP")
           z == stop_cmd_timer(k, "SETUP_COMPL_IND")
           t == [z EXCEPT !.mncc = "CONNECTED", !.msc = "TALK"]
<1>0. IInv /\ v \in CallRec /\ Told(v, media[c]) /\ HasMncc(v)
    BY DEF MInv, IInv, MediaStored, check_stp_cmpl_ind, check_alrt_ind, check_dtmf, ForLeg
<1>1. Done(c, t) \/ Done(c, v) \/ WriteFails(c, v) \/ release_mncc(c, v)
    BY DEF MediaStored, check_stp_cmpl_ind, check_alrt_ind, check_dtmf
<1>2. k \in CallRec /\ k.orig = v.orig /\ k.sip = v.sip
    BY <1>0, AnsweredFields
<1> HIDE DEF k
<1>3. z \in CallRec /\ z.orig = v.orig /\ z.sip = v.sip
    BY <1>2, StopTimerFields
<1> HIDE DEF z
<1>4. t.orig = v.orig /\ t.sip = v.sip /\ t.mncc = "CONNECTED"
    BY <1>3 DEF CallRec
<1> HIDE DEF t
<1>5. Quiet(v, t) /\ Quiet(v, v)
    BY <1>0, <1>4, QuietLess DEF Quiet, BothLegs, HasSip
<1>6. Ends(c, v)
    BY <1>0, <1>1, <1>5, EndsDone, EndsFail, EndsRelease
<1>7. Leaves(c, FromMscSdp(media[c], s))
    BY DEF MediaStored
<1>8. QED BY <1>0, <1>6, <1>7, StoredTold, LeaveGood

\* RTP_CREATE passes on an SDP that is new.
LEMMA MediaCnfIndGood ==
    ASSUME MInv, IInv', NEW c \in CallId, NEW s \in MscSdp, MediaCnfInd(c, s)
    PROVE  MInv'
<1> DEFINE v == calls[c]
           a == Answered(v, "SETUP_REQ")
           k == start_cmd_timer(a, "RTP_CREATE")
           q == Ask(k, "RTP_CREATE")
           m == FromMscSdp(media[c], s)
           f == ForwardNews(m)
<1>0. IInv /\ Good(conn, v) /\ Told(v, media[c]) /\ HasMncc(v) /\ "SETUP_REQ" \in v.req
    BY DEF MInv, IInv, MediaCnfInd, check_cnf_ind
<1>1. v \in CallRec /\ v.orig = "SIP"
    BY <1>0 DEF Good, Base, Waiting
<1>2. a \in CallRec /\ a.orig = v.orig /\ a.mncc = v.mncc /\ a.sip = v.sip
    BY <1>1, AnsweredFields
<1>3. Done(c, q) \/ WriteFails(c, k)
    BY DEF MediaCnfInd, check_cnf_ind
<1> HIDE DEF a
<1>4. k \in CallRec /\ k.orig = v.orig /\ k.mncc = v.mncc /\ k.sip = v.sip
    BY <1>2, StartTimerFields DEF Wanted
<1> HIDE DEF k
<1>5. Quiet(v, q)
    BY <1>4, AskFields, QuietLess DEF MscRequest
<1> HIDE DEF q
<1>6. Ends(c, v)
    BY <1>0, <1>3, <1>4, <1>5, EndsDone, EndsFail DEF HasSip
<1>7. Told(v, m) /\ m \in MediaRec
    BY <1>0, StoredTold DEF Told
<1>8. Leaves(c, f)
    BY DEF MediaCnfInd
<1> HIDE DEF m
<1>9. Told(v, f)
  <2>1. /\ f \in MediaRec /\ f.peer = m.peer /\ f.sip.ip = m.sip.ip /\ f.sip.port = m.sip.port
        /\ f.msc.ip = m.msc.ip /\ f.msc.port = m.msc.port
        /\ f.msc.sdp = f.sip.rx \/ f = m
      BY <1>7, ForwardFields
  <2> HIDE DEF f
  <2>2. QED BY <1>1, <1>7, <2>1 DEF Told
<1> HIDE DEF f
<1>10. QED BY <1>6, <1>8, <1>9, LeaveGood

\* The MSC is told the address of the peer in the step that connects the SIP leg.
LEMMA MediaStpCnfGood ==
    ASSUME MInv, IInv', NEW c \in CallId, NEW s \in MscSdp, MediaStpCnf(c, s)
    PROVE  MInv'
<1> DEFINE v == calls[c]
           k == [v EXCEPT !.msc = "TALK"]
           q == Ask(k, "RTP_CONNECT")
           a == [q EXCEPT !.mncc = "CONNECTED"]
           b == sip_connect_call(a)
           m == FromMscSdp(media[c], s)
           z == send_rtp_connect(m)
           w == TellPeer(z, "sendrecv")
<1>0. IInv /\ v \in CallRec /\ Told(v, media[c]) /\ HasMncc(v) /\ v.orig = "SIP"
    BY DEF MInv, IInv, MediaStpCnf, check_stp_cnf, ForLeg
<1>1. \/ ~HasSip(k) /\ release_mncc(c, k)
      \/ HasSip(k) /\ Done(c, b)
      \/ HasSip(k) /\ WriteFailsLegUsed(c, k)
    BY DEF MediaStpCnf, check_stp_cnf
<1>2. Leaves(c, IF HasSip(v) THEN w ELSE m)
    BY DEF MediaStpCnf
<1>3. k \in CallRec /\ k.orig = v.orig /\ k.mncc = v.mncc /\ k.sip = v.sip
    BY <1>0 DEF CallRec, MscState
<1> HIDE DEF k
<1>4. Told(v, m) /\ m \in MediaRec
    BY <1>0, StoredTold DEF Told
<1> HIDE DEF m
<1>5. CASE ~HasSip(v)
  <2>1. Ends(c, v)
      BY <1>0, <1>1, <1>3, <1>5, QuietLess, EndsRelease DEF HasSip
  <2>2. QED BY <1>2, <1>4, <1>5, <2>1, LeaveGood
<1>6. CASE HasSip(v)
  <2>1. q \in CallRec /\ q.orig = v.orig
      BY <1>3, AskFields DEF MscRequest
  <2> HIDE DEF q
  <2>2. b.orig = "SIP" /\ b.sip = "CONNECTED" /\ b.mncc = "CONNECTED"
      BY <1>0, <2>1 DEF sip_connect_call, CallRec
  <2> HIDE DEF b
  <2>3. Ends(c, b)
    <3>1. Done(c, b) \/ WriteFailsLegUsed(c, k)
        BY <1>1, <1>3, <1>6 DEF HasSip
    <3>2. QED BY <1>0, <1>3, <2>2, <3>1, QuietLess, EndsDone, EndsFail DEF HasSip
  <2>4. /\ z \in MediaRec /\ z.msc.sdp = z.sip.rx /\ z.msc.ip = z.sip.ip
        /\ z.msc.port = z.sip.port /\ z.sip = m.sip
      BY <1>4, SendRtpFields
  <2> HIDE DEF z
  <2>5. /\ w \in MediaRec /\ w.msc = z.msc /\ w.peer # "sendonly"
        /\ w.sip.rx = z.sip.rx /\ w.sip.ip = z.sip.ip /\ w.sip.port = z.sip.port
      BY <2>4, TellPeerFields DEF Mode
  <2> HIDE DEF w
  <2>6. Told(b, w)
      BY <1>4, <2>2, <2>4, <2>5 DEF Told
  <2>7. QED BY <1>2, <1>6, <2>3, <2>6, LeaveGood
<1>7. QED BY <1>5, <1>6

\* The subscriber's hold reaches a SIP leg that is connected: only then does the MSC
\* take the call for answered.
LEMMA MediaHoldGood ==
    ASSUME MInv, IInv', NEW c \in CallId, MediaHold(c)
    PROVE  MInv'
<1> DEFINE v == calls[c]
           i == nua_invite(v)
           h == [i EXCEPT !.sip = "HOLD"]
           d == [h EXCEPT !.mncc = "HOLD", !.msc = "HELD"]
           w == TellPeer(media[c], "sendonly")
<1>0. IInv /\ Good(conn, v) /\ Told(v, media[c]) /\ HasMncc(v) /\ v.msc = "TALK"
    BY DEF MInv, IInv, MediaHold, check_hold_ind, ForLeg
<1>1. v \in CallRec /\ (HasSip(v) => v.sip \in Up) /\ media[c] \in MediaRec
    BY <1>0 DEF Good, Base, Synced, Talking, BothLegs, Up, Told
<1>2. \/ ~HasSip(v) /\ Done(c, v)
      \/ ~HasSip(v) /\ WriteFails(c, v)
      \/ HasSip(v) /\ Done(c, d)
      \/ HasSip(v) /\ WriteFailsLegUsed(c, h)
    BY DEF MediaHold, check_hold_ind, sip_hold_call
<1>3. IF HasSip(v) THEN Leaves(c, w) ELSE NoNews
    BY DEF MediaHold
<1>4. CASE ~HasSip(v)
  <2>1. Ends(c, v)
      BY <1>0, <1>1, <1>2, <1>4, QuietLess, EndsDone, EndsFail
  <2>2. QED BY <1>3, <1>4, <2>1, NoNewsGood DEF Ends
<1>5. CASE HasSip(v)
  <2>1. i \in CallRec
      BY <1>1, InviteFields
  <2> HIDE DEF i
  <2>2. h \in CallRec /\ h.sip = "HOLD"
      BY <2>1 DEF CallRec, SipState
  <2> HIDE DEF h
  <2>3. d.sip = "HOLD" /\ d.mncc = "HOLD"
      BY <2>2 DEF CallRec
  <2> HIDE DEF d
  <2>4. Ends(c, d)
      BY <1>0, <1>2, <1>5, <2>2, <2>3, QuietLess, EndsDone, EndsFail DEF HasSip
  <2>5. /\ w \in MediaRec /\ w.msc = media[c].msc /\ w.sip.rx = media[c].sip.rx
        /\ w.sip.changed = media[c].sip.changed /\ w.sip.ip = media[c].sip.ip
        /\ w.sip.port = media[c].sip.port
      BY <1>1, TellPeerFields DEF Mode
  <2> HIDE DEF w
  <2>6. Told(d, w)
      BY <1>0, <1>1, <1>5, <2>3, <2>5 DEF Told, BothLegs
  <2>7. QED BY <1>3, <1>5, <2>4, <2>6, LeaveGood
<1>6. QED BY <1>4, <1>5

\* The peer of a retrieved call is told to speak again, and the MSC its address.
LEMMA MediaRetrieveGood ==
    ASSUME MInv, IInv', NEW c \in CallId, MediaRetrieve(c)
    PROVE  MInv'
<1> DEFINE v == calls[c]
           k == [v EXCEPT !.msc = "TALK"]
           i == nua_invite(k)
           r == [i EXCEPT !.sip = "CONNECTED"]
           d == [r EXCEPT !.mncc = "CONNECTED"]
           q == Ask(d, "RTP_CONNECT")
           w == TellPeer(media[c], "sendrecv")
           z == send_rtp_connect(w)
<1>0. IInv /\ v \in CallRec /\ Told(v, media[c]) /\ HasMncc(v) /\ media[c] \in MediaRec
    BY DEF MInv, IInv, MediaRetrieve, check_retrieve_ind, ForLeg, Told
<1>1. \/ ~HasSip(k) /\ release_mncc(c, k)
      \/ ~HasSip(k) /\ WriteFailsLegUsed(c, k)
      \/ HasSip(k) /\ Done(c, q)
      \/ HasSip(k) /\ WriteFailsLegUsed(c, r)
    BY DEF MediaRetrieve, check_retrieve_ind, sip_retrieve_call
<1>2. IF HasSip(v) THEN Leaves(c, z) ELSE NoNews
    BY DEF MediaRetrieve
<1>3. k \in CallRec /\ k.orig = v.orig /\ k.mncc = v.mncc /\ k.sip = v.sip
    BY <1>0 DEF CallRec, MscState
<1> HIDE DEF k
<1>4. CASE ~HasSip(v)
  <2>1. Ends(c, v)
      BY <1>0, <1>1, <1>3, <1>4, QuietLess, EndsRelease, EndsFail DEF HasSip
  <2>2. QED BY <1>2, <1>4, <2>1, NoNewsGood DEF Ends
<1>5. CASE HasSip(v)
  <2>1. i \in CallRec
      BY <1>3, InviteFields
  <2> HIDE DEF i
  <2>2. r \in CallRec /\ r.sip = "CONNECTED"
      BY <2>1 DEF CallRec, SipState
  <2> HIDE DEF r
  <2>3. d \in CallRec /\ d.sip = "CONNECTED" /\ d.mncc = "CONNECTED"
      BY <2>2 DEF CallRec, MnccState
  <2> HIDE DEF d
  <2>4. q.sip = "CONNECTED" /\ q.mncc = "CONNECTED"
      BY <2>3, AskFields DEF MscRequest
  <2> HIDE DEF q
  <2>5. Ends(c, q)
    <3>1. Done(c, q) \/ WriteFailsLegUsed(c, r)
        BY <1>1, <1>3, <1>5 DEF HasSip
    <3>2. QED BY <1>0, <2>2, <2>4, <3>1, QuietLess, EndsDone, EndsFail DEF HasSip
  <2>6. /\ w \in MediaRec /\ w.peer # "sendonly" /\ w.sip.ip = media[c].sip.ip
        /\ w.sip.port = media[c].sip.port
      BY <1>0, TellPeerFields DEF Mode
  <2> HIDE DEF w
  <2>7. /\ z \in MediaRec /\ z.peer # "sendonly" /\ z.sip = w.sip
        /\ z.msc.sdp = z.sip.rx /\ z.msc.ip = z.sip.ip /\ z.msc.port = z.sip.port
      BY <2>6, SendRtpFields
  <2> HIDE DEF z
  <2>8. Told(q, z)
      BY <1>0, <2>4, <2>6, <2>7 DEF Told
  <2>9. QED BY <1>2, <1>5, <2>5, <2>8, LeaveGood
<1>6. QED BY <1>4, <1>5

-----------------------------------------------------------------------------
(* Events of sofia-sip that carry an SDP.                                  *)

\* An SDP of the peer that is stored is flagged.
LEMMA PeerTold ==
    ASSUME NEW k, NEW m, Told(k, m), NEW s \in PeerSdp \cup {NoSdp}
    PROVE  Told(k, FromPeer(m, s))
<1> DEFINE l == FromPeer(m, s)
<1>1. /\ l \in MediaRec /\ l.msc = m.msc /\ l.peer = m.peer
      /\ l.sip.ip = m.sip.ip /\ l.sip.port = m.sip.port
      /\ l.sip.changed \/ l.sip = m.sip
    BY FromPeerFields DEF Told
<1> HIDE DEF l
<1>2. Told(k, l)
    BY <1>1 DEF Told
<1>3. QED BY <1>2 DEF l

\* A leg whose dialogue is confirmed by a response.
LEMMA ConfirmedFields ==
    ASSUME NEW v \in CallRec
    PROVE  LET k == Confirmed(v) IN
           /\ k \in CallRec /\ k.mncc = v.mncc /\ k.orig = v.orig /\ k.nh = v.nh /\ k.txn = v.txn
           /\ k.sip = IF v.sip = "INITIAL" THEN "DLG_CNFD" ELSE v.sip
BY DEF Confirmed, CallRec, SipState

\* The confirmed dialogue of a leg changes nothing that was told.
LEMMA ConfirmTold ==
    ASSUME NEW v, NEW k, NEW m, Told(v, m), k.mncc = v.mncc, k.orig = v.orig,
           k.sip = IF v.sip = "INITIAL" THEN "DLG_CNFD" ELSE v.sip
    PROVE  Told(k, m)
BY DEF Told, BothLegs, HasMncc, HasSip, Up

\* 180 and 183: an address that was found is passed on, whatever the state of the leg.
LEMMA MediaProgressGood ==
    ASSUME MInv, IInv', NEW c \in CallId, NEW s \in PeerSdp \cup {NoSdp}, MediaProgress(c, s)
    PROVE  MInv'
<1> DEFINE v == calls[c]
           k == Confirmed(v)
           r == FromPeer(media[c], s)
           x == [r EXCEPT !.sip = sdp_extract_sdp(@, s, FALSE)]
           m == IF HasMncc(v) THEN x ELSE r
           known == m.sip.ip # "none" /\ m.sip.port # 0
           z == send_rtp_connect(m)
           q == Ask(k, "RTP_CONNECT")
<1>0. IInv /\ v \in CallRec /\ Told(v, media[c])
    BY DEF MInv, IInv
<1>1. IF HasMncc(k) THEN Done(c, q) \/ Done(c, k) \/ WriteFailsLegUsed(c, k) ELSE Done(c, k)
    BY DEF MediaProgress, nua_r_invite_progress, call_progress, mncc_call_leg_ring
<1>2. Leaves(c, IF known THEN z ELSE m)
    BY DEF MediaProgress
<1>3. /\ k \in CallRec /\ k.mncc = v.mncc /\ k.orig = v.orig
      /\ k.sip = IF v.sip = "INITIAL" THEN "DLG_CNFD" ELSE v.sip
    BY <1>0, ConfirmedFields
<1> HIDE DEF k
<1>4. Quiet(k, q)
    BY <1>3, AskFields, QuietLess DEF MscRequest
<1> HIDE DEF q
<1>5. Ends(c, k)
    BY <1>0, <1>1, <1>3, <1>4, QuietLess, EndsDone, EndsFail
<1>6. Told(k, r) /\ r \in MediaRec
    BY <1>0, <1>3, PeerTold, ConfirmTold DEF Told
<1> HIDE DEF r
<1>7. /\ x \in MediaRec /\ x.msc = r.msc /\ x.peer = r.peer /\ x.sip.rx = r.sip.rx
      /\ x.sip.changed = r.sip.changed
      /\ x.sip.port # 0 => x.sip.ip # "none"
    BY <1>6, ExtractFields DEF Told
<1> HIDE DEF x
<1>8. /\ m \in MediaRec /\ m.msc = r.msc /\ m.peer = r.peer /\ m.sip.rx = r.sip.rx
      /\ m.sip.changed = r.sip.changed
      /\ m.sip.port # 0 => m.sip.ip # "none"
    BY <1>6, <1>7 DEF Told
<1>9. CASE ~known
  <2>1. Told(k, m)
      BY <1>6, <1>8, <1>9 DEF Told
  <2>2. QED BY <1>2, <1>5, <1>9, <2>1, LeaveGood
<1>10. CASE known
  <2>1. v.nh
      BY DEF MediaProgress, nua_r_invite_progress, InviteAnswered
  <2>2. ~(k.orig = "MNCC" /\ k.mncc = "INITIAL")
      BY <1>0, <1>3, <2>1 DEF IInv, Good, Base, Waiting, HasMncc
  <2>3. /\ z \in MediaRec /\ z.peer = m.peer /\ z.sip = m.sip
        /\ z.msc.sdp = z.sip.rx /\ z.msc.ip = z.sip.ip /\ z.msc.port = z.sip.port
      BY <1>8, SendRtpFields
  <2> HIDE DEF z, m
  <2>4. Told(k, z)
      BY <1>6, <1>8, <2>2, <2>3 DEF Told
  <2>5. QED BY <1>2, <1>5, <1>10, <2>4, LeaveGood
<1>11. QED BY <1>9, <1>10

\* The other responses below 300 store an SDP, whether or not the transaction ends.
LEMMA MediaTryingGood ==
    ASSUME MInv, IInv', NEW c \in CallId, NEW s \in PeerSdp \cup {NoSdp}, MediaTrying(c, s)
    PROVE  MInv'
<1> DEFINE v == calls[c]
           k == Confirmed(v)
           f == [k EXCEPT !.txn = @ \ {"INVITE"}]
           r == FromPeer(media[c], s)
<1>0. /\ IInv /\ v \in CallRec /\ Told(v, media[c]) /\ Leaves(c, r)
      /\ Done(c, k) \/ Done(c, f)
    BY DEF MInv, IInv, MediaTrying, nua_r_invite_trying
<1>1. /\ k \in CallRec /\ k.mncc = v.mncc /\ k.orig = v.orig
      /\ k.sip = IF v.sip = "INITIAL" THEN "DLG_CNFD" ELSE v.sip
    BY <1>0, ConfirmedFields
<1> HIDE DEF k
<1>2. f.mncc = v.mncc /\ f.orig = v.orig /\ f.sip = k.sip
    BY <1>1 DEF CallRec
<1> HIDE DEF f
<1>3. Told(k, r) /\ Told(f, r)
    BY <1>0, <1>1, <1>2, PeerTold, ConfirmTold
<1> HIDE DEF r
<1>4. CASE Done(c, k)
  <2>1. Ends(c, k)
      BY <1>0, <1>4, QuietLess, EndsDone
  <2>2. QED BY <1>0, <1>3, <2>1, LeaveGood
<1>5. CASE Done(c, f)
  <2>1. Ends(c, f)
      BY <1>0, <1>5, QuietLess, EndsDone
  <2>2. QED BY <1>0, <1>3, <2>1, LeaveGood
<1>6. QED BY <1>0, <1>4, <1>5

\* 200: the MSC is told the address in the step that connects the SIP leg, and a leg
\* whose audio is unusable is not connected.
LEMMA MediaOkGood ==
    ASSUME MInv, IInv', NEW c \in CallId, NEW s \in PeerSdp \cup {NoSdp}, MediaOk(c, s)
    PROVE  MInv'
<1> DEFINE v == calls[c]
           k == Confirmed(v)
           f == [k EXCEPT !.txn = @ \ {"INVITE"}]
           a == [f EXCEPT !.sip = "CONNECTED"]
           n == nua_cancel(f)
           r == FromPeer(media[c], s)
           m == [r EXCEPT !.sip = sdp_extract_sdp(@, s, FALSE)]
           z == send_rtp_connect(m)
           audio == Extracted(r.sip, s, FALSE)
           up == v.sip \in Up
<1>0. /\ IInv /\ Good(conn, v) /\ v \in CallRec /\ Told(v, media[c])
      /\ v.nh /\ "INVITE" \in v.txn
    BY DEF MInv, IInv, MediaOk, nua_r_invite_ok, InviteAnswered
<1>1. IF f.sip \in Up THEN Done(c, f) ELSE call_connect(c, f, audio)
    BY DEF MediaOk, nua_r_invite_ok, Up
<1>2. IF up \/ ~HasMncc(v) THEN Leaves(c, r) ELSE
      IF audio THEN Leaves(c, z) ELSE Leaves(c, m)
    BY DEF MediaOk, Up
<1>3. /\ k \in CallRec /\ k.mncc = v.mncc /\ k.orig = v.orig
      /\ k.sip = IF v.sip = "INITIAL" THEN "DLG_CNFD" ELSE v.sip
    BY <1>0, ConfirmedFields
<1> HIDE DEF k
<1>4. /\ f \in CallRec /\ f.mncc = v.mncc /\ f.orig = v.orig
      /\ f.sip = IF v.sip = "INITIAL" THEN "DLG_CNFD" ELSE v.sip
    BY <1>3 DEF CallRec
<1> HIDE DEF f
<1>5. Told(f, r) /\ r \in MediaRec
    BY <1>0, <1>4, PeerTold, ConfirmTold DEF Told
<1> HIDE DEF r
<1>6. f.sip \in Up <=> up
    BY <1>4 DEF Up
<1>7. Quiet(f, n) /\ n \in CallRec /\ n.sip = f.sip /\ n.mncc = f.mncc /\ n.orig = f.orig
    BY <1>4, CancelFields, QuietLess
<1> HIDE DEF n
<1>8. CASE up \/ ~HasMncc(v)
  <2>1. Done(c, f) \/ Done(c, n)
      BY <1>1, <1>4, <1>6, <1>8 DEF call_connect, n, HasMncc
  <2>2. Ends(c, f)
      BY <1>0, <1>7, <2>1, QuietLess, EndsDone
  <2>3. QED BY <1>2, <1>5, <1>8, <2>2, LeaveGood
<1>9. /\ m \in MediaRec /\ m.msc = r.msc /\ m.peer = r.peer /\ m.sip.rx = r.sip.rx
      /\ m.sip.changed = r.sip.changed
      /\ m.sip.port # 0 => m.sip.ip # "none"
    BY <1>5, ExtractFields DEF Told
<1> HIDE DEF m
<1>10. CASE ~up /\ HasMncc(v) /\ ~audio
  <2>1. release_mncc(c, n)
      BY <1>1, <1>4, <1>6, <1>10 DEF call_connect, n, HasMncc
  <2>2. Ends(c, f)
      BY <1>0, <1>7, <2>1, EndsRelease
  <2>3. Told(f, m)
      BY <1>5, <1>6, <1>9, <1>10 DEF Told
  <2>4. QED BY <1>2, <1>10, <2>2, <2>3, LeaveGood
<1>11. CASE ~up /\ HasMncc(v) /\ audio
  <2> DEFINE q == Ask(a, "RTP_CONNECT")
             t == start_cmd_timer(q, "SETUP_COMPL_IND")
             e == Ask(t, "SETUP_RSP")
  <2>1. Done(c, e) \/ WriteFailsLegUsed(c, a) \/ WriteFails(c, a)
      BY <1>1, <1>4, <1>6, <1>11 DEF call_connect, mncc_call_leg_connect, HasMncc
  <2>2. a \in CallRec /\ a.mncc = v.mncc /\ a.orig = v.orig /\ a.sip = "CONNECTED"
      BY <1>4 DEF CallRec, SipState
  <2> HIDE DEF a
  <2>3. q \in CallRec /\ q.mncc = a.mncc /\ q.orig = a.orig /\ q.sip = a.sip
      BY <2>2, AskFields DEF MscRequest
  <2> HIDE DEF q
  <2>4. t \in CallRec /\ t.mncc = a.mncc /\ t.orig = a.orig /\ t.sip = a.sip
      BY <2>3, StartTimerFields DEF Wanted
  <2> HIDE DEF t
  <2>5. Quiet(a, e)
      BY <2>4, AskFields, QuietLess DEF MscRequest
  <2> HIDE DEF e
  <2>6. Ends(c, a)
      BY <1>0, <2>1, <2>2, <2>5, EndsDone, EndsFail
  <2>7. v.mncc # "INITIAL" \/ v.orig # "MNCC"
      BY <1>0, <1>11 DEF Good, Base, Waiting
  <2>8. /\ z \in MediaRec /\ z.peer = m.peer /\ z.sip = m.sip
        /\ z.msc.sdp = z.sip.rx /\ z.msc.ip = z.sip.ip /\ z.msc.port = z.sip.port
      BY <1>9, SendRtpFields
  <2> HIDE DEF z
  <2>9. z.peer # "sendonly"
      BY <1>5, <1>6, <1>9, <1>11, <2>8 DEF Told, Up
  <2>10. Told(a, z)
      BY <1>9, <2>2, <2>7, <2>8, <2>9 DEF Told
  <2>11. QED BY <1>2, <1>11, <2>6, <2>10, LeaveGood
<1>12. QED BY <1>8, <1>10, <1>11

\* The SDP of a new call goes into SETUP_REQ.
LEMMA MediaNewCallGood ==
    ASSUME MInv, IInv', NEW c \in CallId, NEW s \in PeerSdp \cup {NoSdp}, MediaNewCall(c, s)
    PROVE  MInv'
<1> DEFINE v == calls[c]
           k == call_sip_create(v)
           l == [k EXCEPT !.sip = "DLG_CNFD", !.nh = TRUE]
           d == DropSip(l)
           n == mncc_create_remote_leg(l)
           x == [NoMedia EXCEPT !.sip = sdp_extract_sdp(@, s, TRUE)]
           r == FromPeer(x, s)
           f == ForwardNews(r)
<1>0. IInv /\ v = NoCall /\ Told(v, media[c]) /\ Clean(v, media[c])
    BY DEF MInv, MediaNewCall, new_call
<1>1. \/ Done(c, k) /\ NoNews
      \/ /\ Done(c, d) \/ Done(c, n) \/ Done(c, sip_release_call(l))
            \/ WriteFails(c, sip_release_call(l))
         /\ Leaves(c, f)
    BY DEF MediaNewCall, new_call, route_to_mncc
<1>2. k \in CallRec /\ k.orig = "SIP" /\ k.sip = "INITIAL" /\ k.mncc = "NONE"
    BY <1>0, NoCallFields DEF call_sip_create, CallRec, LegType, SipState
<1> HIDE DEF k
<1>3. l \in CallRec /\ l.orig = "SIP" /\ l.sip = "DLG_CNFD" /\ l.mncc = "NONE"
    BY <1>2 DEF CallRec, SipState
<1> HIDE DEF l
<1>4. d \in CallRec /\ d.sip = "NONE" /\ d.mncc = "NONE" /\ sip_release_call(l) = d
  <2>1. d \in CallRec /\ d.sip = "NONE" /\ d.mncc = "NONE"
      BY <1>3, DropSipFields
  <2>2. QED BY <1>3, <2>1 DEF sip_release_call
<1> HIDE DEF d
<1>5. n.orig = "SIP" /\ n.sip = "DLG_CNFD" /\ n.mncc = "INITIAL"
    BY <1>3 DEF mncc_create_remote_leg, CallRec
<1> HIDE DEF n
<1>6. CASE Done(c, k) /\ NoNews
  <2>1. Ends(c, k)
      BY <1>0, <1>6, QuietLess, EndsDone
  <2>2. Leaves(c, media[c])
      BY <1>6 DEF NoNews, Leaves
  <2>3. Told(k, media[c])
    <3>1. media[c].peer = "none"
        BY <1>0, NoCallFields DEF Clean, HasSip
    <3>2. QED BY <1>0, <1>2, <3>1 DEF Told, BothLegs, HasMncc
  <2>4. QED BY <2>1, <2>2, <2>3, LeaveGood
<1>7. CASE /\ Done(c, d) \/ Done(c, n) \/ Done(c, sip_release_call(l))
              \/ WriteFails(c, sip_release_call(l))
           /\ Leaves(c, f)
  <2>1. Ends(c, n)
    <3>1. Quiet(n, d) /\ Quiet(n, n)
        BY <1>4, QuietLess DEF HasMncc
    <3>2. QED BY <1>0, <1>4, <1>5, <1>7, <3>1, EndsDone, EndsFail DEF HasSip
  <2>2. /\ x \in MediaRec /\ x.msc = NoMsc /\ x.peer = "none" /\ x.sip.rx = NoSdp
        /\ x.sip.port # 0 => x.sip.ip # "none"
    <3>1. /\ x \in MediaRec /\ x.msc = NoMedia.msc /\ x.peer = NoMedia.peer
          /\ x.sip.rx = NoMedia.sip.rx
          /\ (NoMedia.sip.port # 0 => NoMedia.sip.ip # "none")
             => (x.sip.port # 0 => x.sip.ip # "none")
      <4>1. NoMedia \in MediaRec
          BY NoMediaFields
      <4>2. QED BY <4>1, ExtractFields, Zenon
    <3> HIDE DEF x
    <3>2. QED BY <3>1, NoMediaFields
  <2> HIDE DEF x
  <2>3. /\ r \in MediaRec /\ r.msc = NoMsc /\ r.peer = "none"
        /\ r.sip.port # 0 => r.sip.ip # "none"
        /\ r.sip.changed \/ r.sip.rx = NoSdp
      BY <2>2, FromPeerFields
  <2> HIDE DEF r
  <2>4. /\ f \in MediaRec /\ f.peer = "none" /\ f.msc.sdp = f.sip.rx
        /\ f.sip.port # 0 => f.sip.ip # "none"
      BY <2>3, ForwardFields, NoMediaFields
  <2> HIDE DEF f
  <2>5. Told(n, f)
      BY <1>5, <2>4 DEF Told, Up
  <2>6. QED BY <1>7, <2>1, <2>5, LeaveGood
<1>8. QED BY <1>1, <1>6, <1>7

\* The peer is told a mode other than sendonly; nothing else changes.
LEMMA TellTold ==
    ASSUME NEW k, NEW m, Told(k, m), NEW mode \in Mode, mode # "sendonly"
    PROVE  Told(k, TellPeer(m, mode))
<1> DEFINE w == TellPeer(m, mode)
<1>1. /\ w \in MediaRec /\ w.msc = m.msc /\ w.peer # "sendonly"
      /\ w.sip.rx = m.sip.rx /\ w.sip.changed = m.sip.changed
      /\ w.sip.ip = m.sip.ip /\ w.sip.port = m.sip.port
    BY TellPeerFields DEF Told
<1> HIDE DEF w
<1>2. Told(k, w)
    BY <1>1 DEF Told
<1>3. QED BY <1>2 DEF w

\* A re-INVITE is quiet, whatever comes of it.
LEMMA ReinviteQuiet ==
    ASSUME IInv, NEW c \in CallId, NEW fate, sip_handle_reinvite(c, fate)
    PROVE  Ends(c, calls[c])
<1> DEFINE v == calls[c]
           d == DropSip(v)
           b == nua_bye(v)
           q == Ask(v, "RTP_CONNECT")
<1>1. v \in CallRec /\ v.sip \in Up
    BY DEF IInv, sip_handle_reinvite, Up
<1>2. Done(c, b) \/ Done(c, v) \/ Done(c, d) \/ Done(c, q) \/ WriteFailsLegUsed(c, v)
    BY <1>1 DEF sip_handle_reinvite, update_rtp, sip_release_call, Up
<1> HIDE DEF v
<1>3. Quiet(v, d) /\ Quiet(v, b) /\ Quiet(v, q) /\ Quiet(v, v)
    BY <1>1, DropSipFields, ByeFields, AskFields, QuietLess DEF MscRequest, HasMncc
<1> HIDE DEF d, b, q
<1>4. Ends(c, v)
    BY <1>1, <1>2, <1>3, EndsDone, EndsFail
<1>5. QED BY <1>4 DEF v

\* A re-INVITE: an address that has changed is passed on, one that has not is known.
LEMMA MediaReinviteGood ==
    ASSUME MInv, IInv', NEW c \in CallId, NEW s \in PeerSdp \cup {NoSdp}, MediaReinvite(c, s)
    PROVE  MInv'
<1> DEFINE v == calls[c]
           r == FromPeer(media[c], s)
           m == [r EXCEPT !.sip = sdp_extract_sdp(@, s, TRUE)]
           moved == <<m.sip.ip, m.sip.port>> # <<media[c].sip.ip, media[c].sip.port>>
           z == send_rtp_connect(m)
           y == IF moved THEN z ELSE m
<1>0. IInv /\ v \in CallRec /\ Good(conn, v) /\ Told(v, media[c]) /\ HasMncc(v)
    BY DEF MInv, IInv, MediaReinvite
<1>1. (\E fate : sip_handle_reinvite(c, fate)) /\ v.nh
    BY DEF MediaReinvite, sip_handle_reinvite
<1>2. Ends(c, v)
    BY <1>0, <1>1, ReinviteQuiet
<1>3. NoNews \/ Leaves(c, TellPeer(y, "sendrecv"))
    BY DEF MediaReinvite
<1>4. Told(v, r) /\ r \in MediaRec /\ r.msc = media[c].msc
    BY <1>0, PeerTold, FromPeerFields DEF Told
<1> HIDE DEF r
<1>5. /\ m \in MediaRec /\ m.msc = r.msc /\ m.peer = r.peer /\ m.sip.rx = r.sip.rx
      /\ m.sip.changed = r.sip.changed
      /\ m.sip.port # 0 => m.sip.ip # "none"
    BY <1>4, ExtractFields DEF Told
<1> HIDE DEF m
<1>6. /\ z \in MediaRec /\ z.peer = m.peer /\ z.sip = m.sip
      /\ z.msc.sdp = z.sip.rx /\ z.msc.ip = z.sip.ip /\ z.msc.port = z.sip.port
    BY <1>5, SendRtpFields
<1> HIDE DEF z
<1>7. ~(v.orig = "MNCC" /\ v.mncc = "INITIAL")
    BY <1>0, <1>1 DEF Good, Base, Waiting
<1>8. Told(v, y)
  <2>1. CASE moved
      BY <1>4, <1>5, <1>6, <1>7, <2>1 DEF Told
  <2>2. CASE ~moved
      BY <1>0, <1>4, <1>5, <1>7, <2>2 DEF Told
  <2>3. QED BY <2>1, <2>2
<1> HIDE DEF y
<1>9. QED BY <1>2, <1>3, <1>8, TellTold, LeaveGood, NoNewsGood DEF Ends, Mode

\* A re-INVITE that holds, or has no usable mode, or finds no other leg.
LEMMA MediaReinviteOther ==
    ASSUME MInv, IInv', NEW c \in CallId, NEW s \in PeerSdp \cup {NoSdp},
           MediaPeerHolds(c, s) \/ MediaReinviteNoMode(c, s) \/ MediaReinviteAlone(c, s)
    PROVE  MInv'
<1> DEFINE v == calls[c]
           r == FromPeer(media[c], s)
<1>1. Ends(c, v)
    BY ReinviteQuiet DEF MInv, MediaPeerHolds, MediaReinviteNoMode, MediaReinviteAlone
<1>2. Told(v, r)
    BY PeerTold DEF MInv
<1>3. Leaves(c, TellPeer(r, "recvonly")) \/ Leaves(c, TellPeer(r, "sendrecv")) \/ Leaves(c, r)
    BY DEF MediaPeerHolds, MediaReinviteNoMode, MediaReinviteAlone
<1> HIDE DEF r
<1>4. Told(v, TellPeer(r, "recvonly")) /\ Told(v, TellPeer(r, "sendrecv"))
    BY <1>2, TellTold DEF Mode
<1>5. QED BY <1>1, <1>2, <1>3, <1>4, LeaveGood

-----------------------------------------------------------------------------
(* The theorems about the media.                                           *)

\* The invariant holds when the process starts.
LEMMA MediaInitGood == MediaInit => MInv
<1> SUFFICES ASSUME MediaInit PROVE MInv
    OBVIOUS
<1>1. IInv /\ \A c \in CallId : calls[c] = NoCall /\ media[c] = NoMedia
    BY InitGood DEF MediaInit, Init
<1>2. Told(NoCall, NoMedia) /\ Clean(NoCall, NoMedia)
    BY NoMediaFields, NoCallFields DEF Told, Clean, BothLegs, HasMncc
<1>3. QED BY <1>1, <1>2, NoMediaFields DEF MInv, MediaInit

\* Every step with media keeps the invariant.
LEMMA MediaNextGood == MInv /\ [MediaNext]_mvars => MInv'
<1> SUFFICES ASSUME MInv, [MediaNext]_mvars PROVE MInv'
    OBVIOUS
<1>0. IInv /\ IInv'
    BY MediaStep, NextGood DEF MInv
<1>1. CASE UNCHANGED mvars
    BY <1>0, <1>1 DEF mvars, MInv
<1>2. ASSUME NEW c \in CallId, MediaMsc(c) PROVE MInv'
  <2>1. CASE MediaHold(c) \/ MediaRetrieve(c)
      BY <1>0, <2>1, MediaHoldGood, MediaRetrieveGood
  <2>2. ASSUME NEW s \in MscSdp,
               \/ MediaSetup(c, s) \/ MediaCnfInd(c, s) \/ MediaStored(c, s) \/ MediaStpCnf(c, s)
               \/ \E codec \in MscCodec : MediaRtpCreate(c, s, codec)
               \/ \E ok \in BOOLEAN : MediaRtpConnect(c, s, ok)
        PROVE  MInv'
      BY <1>0, <2>2, MediaSetupGood, MediaCnfIndGood, MediaStoredGood, MediaStpCnfGood,
         MediaRtpCreateGood, MediaRtpConnectGood
  <2>3. QED BY <1>2, <2>1, <2>2 DEF MediaMsc
<1>3. ASSUME NEW c \in CallId, MediaSip(c) PROVE MInv'
    BY <1>0, <1>3, MediaProgressGood, MediaTryingGood, MediaOkGood, MediaNewCallGood,
       MediaReinviteGood, MediaReinviteOther DEF MediaSip
<1>4. ASSUME NEW c \in CallId, WithoutSdp(c), NoNews PROVE MInv'
    BY <1>0, <1>4, WithoutSdpQuiet, NoNewsGood
<1>5. CASE /\ \/ mncc_reconnect_ok \/ mncc_reconnect_fail \/ check_hello \/ mncc_data_bad
              \/ show_calls_sum \/ show_calls
           /\ NoNews
    BY <1>0, <1>5, ConnectionQuiet, NoNewsGood
<1>6. QED BY <1>1, <1>2, <1>3, <1>4, <1>5 DEF MediaNext

\* The inductive invariant holds in every reachable state of the connector with media.
THEOREM MediaInvariance == MediaSpec => []MInv
BY MediaInitGood, MediaNextGood, PTL DEF MediaSpec

\* The media of every call keep their types, for every set of SDPs and codecs.
THEOREM MediaTypeCorrect == MediaSpec => []MediaTypeOK
<1>1. MInv => MediaTypeOK
    BY DEF MInv, MediaTypeOK, MediaRec, SipMedia, MnccMedia, MscMedia
<1>2. QED BY <1>1, MediaInvariance, PTL

\* An SDP of the peer that the MSC has not been told is flagged as new.
THEOREM NewsFlagged == MediaSpec => []NewsIsFlagged
<1>1. MInv => NewsIsFlagged
    BY DEF MInv, NewsIsFlagged, Told
<1>2. QED BY <1>1, MediaInvariance, PTL

\* Once the peer has answered the MSC has the address the SIP leg has.
THEOREM AddressKnown == MediaSpec => []MscHasPeerAddress
<1>1. MInv => MscHasPeerAddress
    BY DEF MInv, MscHasPeerAddress, Told, Up
<1>2. QED BY <1>1, MediaInvariance, PTL

\* A connected peer was not last told to keep quiet by the subscriber's hold.
THEOREM HoldRevoked == MediaSpec => []NotLeftOnHold
<1>1. MInv => NotLeftOnHold
    BY DEF MInv, NotLeftOnHold, Told
<1>2. QED BY <1>1, MediaInvariance, PTL
=============================================================================
