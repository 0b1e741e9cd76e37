--------------------------- MODULE ConnectorProofs --------------------------
(***************************************************************************)
(* The safety properties of Connector, proved for any set CallId.          *)
(*                                                                         *)
(* None of them is inductive alone.  IInv says of every call               *)
(*   Base     what holds of a call even in the middle of a handler, when a *)
(*            failed write calls app_mncc_disconnected;                    *)
(*   Cleared, Synced  how the two legs go together between handlers;       *)
(*   Waiting  which answers of the MSC may still come, and what the timer  *)
(*            waits for then;                                              *)
(*   OnConn   what the connection has to be like for an MNCC leg.          *)
(***************************************************************************)
EXTENDS Connector, TLAPS

Base(k) ==
    /\ k \in CallRec
    /\ k.orig # "NONE" <=> HasMncc(k) \/ HasSip(k)
    /\ k.txn # {} => k.nh
    /\ k.nh => HasSip(k)
    /\ BothLegs(k) => k.nh
    /\ "INVITE" \in k.txn /\ k.orig = "SIP" => k.sip \in {"CONNECTED", "HOLD"}
    /\ ~HasMncc(k) => ~k.rel /\ ~k.timer /\ (k.nh => SipClearing(k))

Cleared(k) == BothLegs(k) => (k.rel <=> SipClearing(k))

Synced(k) ==
    BothLegs(k) =>
        /\ k.orig = "SIP"  /\ k.sip \in {"CONNECTED", "HOLD"} => Talking(k)
        /\ k.orig = "MNCC" /\ k.mncc \in {"CONNECTED", "HOLD"} => Talking(k)
        /\ k.mncc = "HOLD" <=> k.sip = "HOLD"
        /\ k.msc \in {"TALK", "HELD"} => Talking(k)

Waiting(k) ==
    HasMncc(k) =>
        /\ k.rel \/ (\E m \in Supervised : m \in k.req) => k.timer
        /\ k.orig = "MNCC" /\ k.mncc = "INITIAL" => ~HasSip(k)
        /\ k.msc = "SETUP" => k.mncc \in {"INITIAL", "PROCEEDING"}
        /\ k.orig = "MNCC" /\ k.msc \in {"TALK", "HELD"} => k.mncc \in {"CONNECTED", "HOLD"}
        /\ "REL_REQ" \in k.req => k.rel
        /\ "SETUP_REQ" \in k.req => k.orig = "SIP"
        /\ "RTP_CREATE" \in k.req => k.orig = "SIP" \/ k.mncc = "INITIAL"
        /\ "SETUP_RSP" \in k.req =>
               /\ k.orig = "MNCC"
               /\ k.mncc # "INITIAL"
               /\ k.sip \in {"CONNECTED", "HOLD", "NONE"}
               /\ k.rel => k.want # "SETUP_COMPL_IND"

OnConn(cs, k) == HasMncc(k) => /\ cs # "DISCONNECTED"
                               /\ k.orig = "MNCC" => cs = "READY"

Good(cs, k) == Base(k) /\ Cleared(k) /\ Synced(k) /\ Waiting(k) /\ OnConn(cs, k)

IInv == /\ conn \in ConnState
        /\ reconnect \in BOOLEAN
        /\ fault \in Fault
        /\ reconnect <=> conn = "DISCONNECTED"
        /\ calls \in [CallId -> CallRec]
        /\ \A c \in CallId : Good(conn, calls[c])

-----------------------------------------------------------------------------
(* What the operators on a call do to each of its fields.                  *)

\* A free slot.
LEMMA NoCallFields ==
    /\ NoCall \in CallRec
    /\ NoCall.orig = "NONE" /\ NoCall.mncc = "NONE" /\ NoCall.sip = "NONE" /\ NoCall.msc = "NONE"
    /\ NoCall.rel = FALSE /\ NoCall.timer = FALSE /\ NoCall.nh = FALSE
    /\ NoCall.txn = {} /\ NoCall.req = {}
BY DEF NoCall, CallRec

\* The SIP leg and its handle are gone; the call stays listed for its MNCC leg.
LEMMA DropSipFields ==
    ASSUME NEW k \in CallRec
    PROVE  LET l == DropSip(k) IN
           /\ l \in CallRec
           /\ l.mncc = k.mncc /\ l.rel = k.rel /\ l.timer = k.timer /\ l.want = k.want
           /\ l.msc = k.msc /\ l.req = k.req
           /\ l.orig = IF HasMncc(k) THEN k.orig ELSE "NONE"
           /\ l.sip = "NONE"
           /\ ~l.nh
           /\ l.txn = {}
BY DEF DropSip, call_leg_release, nua_handle_destroy, Reap, HasMncc, HasSip, CallRec, LegType, NuaRequest

\* The MNCC leg and its timer are gone; the call stays listed for its SIP leg.
LEMMA FreeMnccFields ==
    ASSUME NEW k \in CallRec
    PROVE  LET l == mncc_leg_release(k) IN
           /\ l \in CallRec
           /\ l.sip = k.sip /\ l.nh = k.nh /\ l.txn = k.txn /\ l.msc = k.msc
           /\ l.req = k.req
           /\ l.orig = IF HasSip(k) THEN k.orig ELSE "NONE"
           /\ l.mncc = "NONE"
           /\ ~l.rel
           /\ ~l.timer
BY DEF mncc_leg_release, Reap, HasMncc, HasSip, CallRec

\* The MSC owes no answer for a call it has released.
LEMMA MscGoneFields ==
    ASSUME NEW k \in CallRec
    PROVE  LET l == MscGone(k) IN
           /\ l \in CallRec
           /\ l.orig = k.orig /\ l.mncc = k.mncc /\ l.rel = k.rel /\ l.timer = k.timer
           /\ l.want = k.want /\ l.sip = k.sip /\ l.nh = k.nh /\ l.txn = k.txn
           /\ l.msc = "NONE"
           /\ l.req = {}
BY DEF MscGone, CallRec

\* A message to the MSC may become an unanswered request.
LEMMA AskFields ==
    ASSUME NEW k \in CallRec, NEW m \in MscRequest
    PROVE  LET l == Ask(k, m) IN
           /\ l \in CallRec
           /\ l.orig = k.orig /\ l.mncc = k.mncc /\ l.rel = k.rel /\ l.timer = k.timer
           /\ l.want = k.want /\ l.sip = k.sip /\ l.nh = k.nh /\ l.txn = k.txn
           /\ l.msc = k.msc
           /\ l.req = k.req \/ l.req = k.req \cup {m}
           /\ m = "SETUP_RSP" /\ l.req # k.req => k.msc = "SETUP" /\ ~k.rel
BY DEF Ask, CallRec

\* An answer takes its request away.
LEMMA AnsweredFields ==
    ASSUME NEW k \in CallRec, NEW m
    PROVE  LET l == Answered(k, m) IN
           /\ l \in CallRec
           /\ l.orig = k.orig /\ l.mncc = k.mncc /\ l.rel = k.rel /\ l.timer = k.timer
           /\ l.want = k.want /\ l.sip = k.sip /\ l.nh = k.nh /\ l.txn = k.txn
           /\ l.msc = k.msc
           /\ l.req = k.req \ {m}
BY DEF Answered, CallRec

\* start_cmd_timer starts the timer for one response.
LEMMA StartTimerFields ==
    ASSUME NEW k \in CallRec, NEW m \in Wanted
    PROVE  LET l == start_cmd_timer(k, m) IN
           /\ l \in CallRec
           /\ l.orig = k.orig /\ l.mncc = k.mncc /\ l.rel = k.rel /\ l.sip = k.sip
           /\ l.nh = k.nh /\ l.txn = k.txn /\ l.msc = k.msc /\ l.req = k.req
           /\ l.timer
           /\ l.want = m
BY DEF start_cmd_timer, CallRec

\* stop_cmd_timer touches the timer only, and only for the wanted response.
LEMMA StopTimerFields ==
    ASSUME NEW k \in CallRec, NEW m
    PROVE  LET l == stop_cmd_timer(k, m) IN
           /\ l \in CallRec
           /\ l.orig = k.orig /\ l.mncc = k.mncc /\ l.rel = k.rel /\ l.want = k.want
           /\ l.sip = k.sip /\ l.nh = k.nh /\ l.txn = k.txn /\ l.msc = k.msc
           /\ l.req = k.req
           /\ k.want # m => l.timer = k.timer
BY DEF stop_cmd_timer, CallRec

\* nua_invite adds one client transaction.
LEMMA InviteFields ==
    ASSUME NEW k \in CallRec
    PROVE  LET l == nua_invite(k) IN
           /\ l \in CallRec
           /\ l.orig = k.orig /\ l.mncc = k.mncc /\ l.rel = k.rel /\ l.timer = k.timer
           /\ l.want = k.want /\ l.sip = k.sip /\ l.nh = k.nh /\ l.msc = k.msc
           /\ l.req = k.req
           /\ l.txn = k.txn \cup {"INVITE"}
BY DEF nua_invite, CallRec, NuaRequest

\* nua_cancel adds one client transaction.
LEMMA CancelFields ==
    ASSUME NEW k \in CallRec
    PROVE  LET l == nua_cancel(k) IN
           /\ l \in CallRec
           /\ l.orig = k.orig /\ l.mncc = k.mncc /\ l.rel = k.rel /\ l.timer = k.timer
           /\ l.want = k.want /\ l.sip = k.sip /\ l.nh = k.nh /\ l.msc = k.msc
           /\ l.req = k.req
           /\ l.txn = k.txn \cup {"CANCEL"}
BY DEF nua_cancel, CallRec, NuaRequest

\* nua_bye adds one client transaction.
LEMMA ByeFields ==
    ASSUME NEW k \in CallRec
    PROVE  LET l == nua_bye(k) IN
           /\ l \in CallRec
           /\ l.orig = k.orig /\ l.mncc = k.mncc /\ l.rel = k.rel /\ l.timer = k.timer
           /\ l.want = k.want /\ l.sip = k.sip /\ l.nh = k.nh /\ l.msc = k.msc
           /\ l.req = k.req
           /\ l.txn = k.txn \cup {"BYE"}
BY DEF nua_bye, CallRec, NuaRequest

\* Releasing the SIP leg of a call that has an MNCC leg: either it is gone, or it
\* is as before and being cleared.
LEMMA ReleaseOtherSip ==
    ASSUME NEW k, Base(k), HasMncc(k)
    PROVE  LET l == release_other_sip(k) IN
           /\ Base(l)
           /\ l.orig = k.orig /\ l.mncc = k.mncc /\ l.rel = k.rel /\ l.timer = k.timer
           /\ l.want = k.want /\ l.msc = k.msc /\ l.req = k.req
           /\ l.sip = k.sip \/ l.sip = "NONE"
           /\ l.nh => SipClearing(l)
           /\ HasSip(l) => SipClearing(l)
<1> USE DEF Base, HasMncc, HasSip, BothLegs, SipClearing
<1>1. k \in CallRec
    OBVIOUS
<1>2. CASE ~HasSip(k)
    BY <1>2 DEF release_other_sip
<1>3. CASE HasSip(k) /\ k.sip = "DLG_CNFD" /\ k.orig = "MNCC"
    BY <1>1, <1>3, CancelFields DEF release_other_sip, sip_release_call
<1>4. CASE k.sip = "INITIAL" \/ (k.sip = "DLG_CNFD" /\ k.orig # "MNCC")
    BY <1>1, <1>4, DropSipFields DEF release_other_sip, sip_release_call
<1>5. CASE k.sip \in {"CONNECTED", "HOLD"}
    BY <1>1, <1>5, ByeFields DEF release_other_sip, sip_release_call
<1>6. QED BY <1>1, <1>2, <1>3, <1>4, <1>5 DEF CallRec, SipState

\* What mncc_call_leg_release needs: as Good, with the SIP leg already on its way out.
Releasable(k) == /\ Base(k)
                 /\ HasMncc(k)
                 /\ HasSip(k) => SipClearing(k)
                 /\ Synced(k)
                 /\ Waiting(k)
                 /\ OnConn(conn, k)

-----------------------------------------------------------------------------
(* How handlers end.                                                       *)

\* A handler that leaves its call good keeps the invariant.
LEMMA DoneGood ==
    ASSUME IInv, NEW c \in CallId, NEW k, Good(conn, k), Done(c, k)
    PROVE  IInv'
BY DEF IInv, Done, Good, Base, Fault

\* Whatever a handler was doing when the connection broke, its call is good
\* after app_mncc_disconnected.
LEMMA DisconnectGood ==
    ASSUME NEW k, Base(k)
    PROVE  Good("DISCONNECTED", app_mncc_disconnected(k))
<1> USE DEF Good, Base, Cleared, Synced, Waiting, OnConn, HasMncc, HasSip, BothLegs, SipClearing
<1>1. CASE ~HasMncc(k)
    BY <1>1, MscGoneFields DEF app_mncc_disconnected
<1>2. CASE HasMncc(k)
  <2> DEFINE r == release_other_sip(k)
             d == mncc_leg_release(r)
  <2>1. Base(r) /\ (r.nh => SipClearing(r))
      BY <1>2, ReleaseOtherSip
  <2> HIDE DEF r
  <2>2. Base(d) /\ ~HasMncc(d)
      BY <2>1, FreeMnccFields
  <2> HIDE DEF d
  <2>3. Good("DISCONNECTED", MscGone(d))
      BY <2>2, MscGoneFields
  <2>4. QED BY <1>2, <2>3 DEF app_mncc_disconnected, d, r
<1>3. QED BY <1>1, <1>2

\* A write that fails in the middle of a handler keeps the invariant.
LEMMA FailGood ==
    ASSUME IInv, NEW c \in CallId, NEW k, Base(k),
           WriteFails(c, k) \/ WriteFailsLegUsed(c, k)
    PROVE  IInv'
<1>1. CASE close_connection(c, k) /\ fault' \in Fault
  <2>1. \A d \in CallId : Good("DISCONNECTED", calls'[d])
      BY <1>1, DisconnectGood DEF close_connection, IInv, Good
  <2>2. QED BY <1>1, <2>1 DEF close_connection, IInv, Good, Base, ConnState
<1>2. CASE Restart("use_after_free")
    BY <1>2 DEF Restart, IInv, NoCall, Good, Base, Cleared, Synced, Waiting, OnConn,
       HasMncc, HasSip, BothLegs, SipClearing, CallRec, ConnState, Fault
<1>3. QED BY <1>1, <1>2 DEF WriteFails, WriteFailsLegUsed, Fault

\* A handler that ends with the release of the MNCC leg keeps the invariant.
LEMMA ReleaseGood ==
    ASSUME IInv, NEW c \in CallId, NEW k, Releasable(k), release_mncc(c, k)
    PROVE  IInv'
<1> USE DEF Releasable, Good, Base, Cleared, Synced, Waiting, OnConn,
            HasMncc, HasSip, BothLegs, SipClearing, Talking
<1>1. Good(conn, mncc_leg_release(k))
    BY FreeMnccFields
<1>2. Good(conn, mncc_call_leg_release(k))
  <2> DEFINE rk == [k EXCEPT !.rel = TRUE]
  <2>1. /\ rk \in CallRec /\ rk.rel
        /\ rk.orig = k.orig /\ rk.mncc = k.mncc /\ rk.sip = k.sip /\ rk.nh = k.nh
        /\ rk.txn = k.txn /\ rk.msc = k.msc /\ rk.req = k.req
      BY DEF CallRec
  <2> HIDE DEF rk
  <2>2. CASE k.mncc # "INITIAL"
    <3>1. Good(conn, start_cmd_timer(rk, "REL_IND"))
        BY <2>1, StartTimerFields DEF Wanted
    <3>2. QED BY <2>2, <3>1 DEF mncc_call_leg_release, rk
  <2>3. CASE k.mncc = "INITIAL" /\ k.orig = "MNCC"
    <3> DEFINE a == Ask(k, "REJ_REQ")
    <3>1. Base(a) /\ (HasSip(a) => SipClearing(a))
        BY AskFields DEF MscRequest
    <3> HIDE DEF a
    <3>2. Good(conn, mncc_leg_release(a))
        BY <3>1, FreeMnccFields
    <3>3. QED BY <2>3, <3>2 DEF mncc_call_leg_release, a
  <2>4. CASE k.mncc = "INITIAL" /\ k.orig # "MNCC"
    <3> DEFINE t == start_cmd_timer(rk, "REL_CNF")
    <3>1. Good(conn, t) /\ t.rel
        BY <2>1, StartTimerFields DEF Wanted
    <3> HIDE DEF t
    <3>2. Good(conn, Ask(t, "REL_REQ"))
        BY <3>1, AskFields DEF MscRequest, Supervised
    <3>3. QED BY <2>4, <3>2 DEF mncc_call_leg_release, t, rk
  <2>5. QED BY <2>2, <2>3, <2>4
<1>3. QED BY <1>1, <1>2, DoneGood, FailGood DEF release_mncc
-----------------------------------------------------------------------------
(* Messages of the MSC.                                                    *)

\* check_setup makes a good call, or a lost connection.
LEMMA CheckSetup ==
    ASSUME IInv, NEW c \in CallId, check_setup(c)
    PROVE  IInv'
<1> USE DEF Good, Base, Cleared, Synced, Waiting, OnConn, HasMncc, HasSip, BothLegs, SipClearing
<1> DEFINE m == call_mncc_create(calls[c])
           t == start_cmd_timer(m, "RTP_CREATE")
           k == [t EXCEPT !.msc = "SETUP"]
<1>0. calls[c] = NoCall /\ conn = "READY"
    BY DEF check_setup
<1>1. /\ m \in CallRec /\ m.orig = "MNCC" /\ m.mncc = "INITIAL" /\ ~m.rel /\ m.sip = "NONE"
      /\ ~m.nh /\ m.txn = {} /\ m.req = {}
    BY <1>0, NoCallFields DEF call_mncc_create, CallRec, LegType, MnccState
<1> HIDE DEF m
<1>2. /\ t \in CallRec /\ t.orig = "MNCC" /\ t.mncc = "INITIAL" /\ ~t.rel /\ t.sip = "NONE"
      /\ ~t.nh /\ t.txn = {} /\ t.req = {} /\ t.timer
    BY <1>1, StartTimerFields DEF Wanted
<1> HIDE DEF t
<1>3. Good(conn, k) /\ k.timer /\ k.orig = "MNCC" /\ k.mncc = "INITIAL" /\ k.req = {} /\ ~k.rel
    BY <1>0, <1>2 DEF CallRec, MscState
<1> HIDE DEF k
<1>4. Good(conn, Ask(k, "RTP_CREATE"))
    BY <1>3, AskFields DEF MscRequest, Supervised
<1>5. Done(c, Ask(k, "RTP_CREATE")) \/ WriteFails(c, k)
    BY DEF check_setup, k, t, m
<1>6. QED BY <1>3, <1>4, <1>5, DoneGood, FailGood

\* The reply to an RTP message for a leg that is gone or in release.
LEMMA RejectGood ==
    ASSUME IInv, NEW c \in CallId, NEW k, Good(conn, k), RejectRtp(c, k)
    PROVE  IInv'
<1>1. Good(conn, Ask(k, "REJ_REQ"))
    BY AskFields DEF MscRequest, Supervised, Good, Base, Cleared, Synced, Waiting, OnConn,
       HasMncc, HasSip, BothLegs, SipClearing, Talking
<1>2. QED BY <1>1, DoneGood, FailGood DEF RejectRtp, Good

\* An answer of the MSC leaves the call good.
LEMMA AnsweredGood ==
    ASSUME NEW cs, NEW k, Good(cs, k), NEW m
    PROVE  Good(cs, Answered(k, m))
BY AnsweredFields DEF Good, Base, Cleared, Synced, Waiting, OnConn,
   HasMncc, HasSip, BothLegs, SipClearing, Talking

\* check_rtp_create keeps the invariant: the timer it stops is that of a leg not in release.
LEMMA CheckRtpCreate ==
    ASSUME IInv, NEW c \in CallId, check_rtp_create(c)
    PROVE  IInv'
<1> DEFINE k == Answered(calls[c], "RTP_CREATE")
           s == stop_cmd_timer(k, "RTP_CREATE")
           p == [s EXCEPT !.mncc = "PROCEEDING"]
           i == [p EXCEPT !.sip = "INITIAL", !.nh = TRUE]
<1>1. Good(conn, k)
    BY AnsweredGood DEF IInv
<1> USE DEF Good, Base, Cleared, Synced, Waiting, OnConn, HasMncc, HasSip, BothLegs, SipClearing
<1>2. \/ RejectRtp(c, k)
      \/ mncc_find_leg_not_released(k) /\ k.orig = "MNCC" /\ continue_mo_call(c, s)
      \/ mncc_find_leg_not_released(k) /\ k.orig = "SIP" /\ Done(c, s)
    BY DEF check_rtp_create
<1>3. CASE RejectRtp(c, k)
    BY <1>1, <1>3, RejectGood
<1>4. ASSUME mncc_find_leg_not_released(k)
      PROVE  Good(conn, s) /\ HasMncc(s) /\ ~s.rel /\ s.orig = k.orig
             /\ (s.orig = "MNCC" => s.mncc = "INITIAL" /\ ~HasSip(s) /\ ~s.nh /\ s.txn = {}
                                    /\ \A m \in Supervised : m \notin s.req)
  <2>1. k.orig = "MNCC" => k.mncc = "INITIAL" /\ (\A m \in Supervised : m \notin k.req)
      BY <1>4, AnsweredFields DEF check_rtp_create, mncc_find_leg_not_released, IInv, Supervised
  <2>2. \A m \in Supervised : m \notin k.req
      BY <1>4, AnsweredFields, <2>1 DEF check_rtp_create, mncc_find_leg_not_released, IInv,
         Supervised, CallRec, LegType
  <2> HIDE DEF k
  <2>3. QED BY <1>1, <1>4, <2>1, <2>2, StopTimerFields DEF mncc_find_leg_not_released, Talking
<1>5. CASE mncc_find_leg_not_released(k) /\ k.orig = "SIP" /\ Done(c, s)
    BY <1>4, <1>5, DoneGood
<1>6. CASE mncc_find_leg_not_released(k) /\ k.orig = "MNCC" /\ continue_mo_call(c, s)
  <2> HIDE DEF k
  <2>1. Good(conn, s) /\ s.orig = "MNCC" /\ HasMncc(s) /\ ~s.rel /\ ~HasSip(s) /\ ~s.nh
        /\ s.msc \notin {"TALK", "HELD"}
        /\ s.txn = {} /\ \A m \in Supervised : m \notin s.req
      BY <1>4, <1>6
  <2> HIDE DEF s
  <2>2. /\ p \in CallRec /\ p.mncc = "PROCEEDING" /\ p.orig = "MNCC" /\ p.sip = "NONE" /\ ~p.nh
        /\ p.txn = {} /\ p.rel = s.rel /\ p.req = s.req /\ p.msc = s.msc
      BY <2>1 DEF CallRec, MnccState
  <2>3. Releasable(p)
      BY <2>1, <2>2 DEF Releasable, Supervised
  <2> HIDE DEF p
  <2>4. /\ i \in CallRec /\ i.mncc = "PROCEEDING" /\ i.orig = "MNCC" /\ i.sip = "INITIAL" /\ i.nh
        /\ i.txn = {} /\ i.rel = s.rel /\ i.req = s.req /\ i.msc = s.msc
      BY <2>2 DEF CallRec, SipState
  <2> HIDE DEF i
  <2>5. Good(conn, nua_invite(i))
      BY <2>1, <2>4, InviteFields DEF Supervised
  <2>6. Done(c, nua_invite(i)) \/ release_mncc(c, p) \/ WriteFailsLegUsed(c, s)
      BY <1>6 DEF continue_mo_call, route_to_sip, sip_create_remote_leg, p, i
  <2>7. QED BY <2>1, <2>3, <2>5, <2>6, DoneGood, ReleaseGood, FailGood
<1>7. QED BY <1>2, <1>3, <1>5, <1>6

\* check_rtp_connect keeps the invariant: a failure releases both legs.
LEMMA CheckRtpConnect ==
    ASSUME IInv, NEW c \in CallId, NEW ok, check_rtp_connect(c, ok)
    PROVE  IInv'
<1> DEFINE k == Answered(calls[c], "RTP_CONNECT")
           r == release_other_sip(k)
<1>1. Good(conn, k)
    BY AnsweredGood DEF IInv
<1>2. \/ RejectRtp(c, k)
      \/ Done(c, k)
      \/ mncc_find_leg_not_released(k) /\ release_mncc(c, r)
    BY DEF check_rtp_connect
<1> HIDE DEF k
<1>3. ASSUME HasMncc(k) PROVE Releasable(r)
    BY <1>1, <1>3, ReleaseOtherSip DEF Releasable, Good, Synced, Waiting, OnConn,
       HasMncc, HasSip, BothLegs, Talking
<1> HIDE DEF r
<1>4. QED BY <1>1, <1>2, <1>3, RejectGood, DoneGood, ReleaseGood DEF mncc_find_leg_not_released

\* check_disc_ind keeps the invariant: both legs start to clear, under a running timer.
LEMMA CheckDiscInd ==
    ASSUME IInv, NEW c \in CallId, check_disc_ind(c)
    PROVE  IInv'
<1> USE DEF Good, Base, Cleared, Synced, Waiting, OnConn, HasMncc, HasSip, BothLegs, SipClearing,
            Talking
<1> DEFINE t == start_cmd_timer(calls[c], "REL_CNF")
           k == [t EXCEPT !.rel = TRUE, !.msc = "DISC"]
           a == Ask(k, "REL_REQ")
           r == release_other_sip(a)
<1>1. Good(conn, calls[c]) /\ HasMncc(calls[c])
    BY DEF IInv, check_disc_ind, ForLeg
<1>2. /\ Base(t) /\ HasMncc(t) /\ Synced(t) /\ Waiting(t) /\ OnConn(conn, t)
      /\ t.timer /\ t.want = "REL_CNF"
    BY <1>1, StartTimerFields DEF Wanted
<1> HIDE DEF t
<1>3. /\ Base(k) /\ HasMncc(k) /\ Synced(k) /\ Waiting(k) /\ OnConn(conn, k)
      /\ k.timer /\ k.want = "REL_CNF" /\ k.rel
    BY <1>2 DEF CallRec, MscState
<1> HIDE DEF k
<1>4. /\ Base(a) /\ HasMncc(a) /\ Synced(a) /\ Waiting(a) /\ OnConn(conn, a) /\ a.rel
    BY <1>3, AskFields DEF MscRequest
<1> HIDE DEF a
<1>5. Good(conn, r)
    BY <1>4, ReleaseOtherSip
<1> HIDE DEF r
<1>6. Done(c, r) \/ WriteFailsLegUsed(c, k)
    BY DEF check_disc_ind, r, a, k, t
<1>7. QED BY <1>3, <1>5, <1>6, DoneGood, FailGood

\* The MSC's release of its side leaves the call good.
LEMMA MscGoneGood ==
    ASSUME NEW cs, NEW k, Good(cs, k)
    PROVE  Good(cs, MscGone(k))
BY MscGoneFields DEF Good, Base, Cleared, Synced, Waiting, OnConn,
   HasMncc, HasSip, BothLegs, SipClearing, Talking, Supervised

\* A leg may be freed once the SIP leg is gone or being cleared.
LEMMA FreeMnccGood ==
    ASSUME NEW cs, NEW k, Base(k), HasSip(k) => SipClearing(k)
    PROVE  Good(cs, mncc_leg_release(k))
BY FreeMnccFields DEF Good, Base, Cleared, Synced, Waiting, OnConn,
   HasMncc, HasSip, BothLegs, SipClearing

\* check_rel_ind keeps the invariant: the other leg of a leg in release is clearing already.
LEMMA CheckRelInd ==
    ASSUME IInv, NEW c \in CallId, check_rel_ind(c)
    PROVE  IInv'
<1> DEFINE k == MscGone(calls[c])
           r == release_other_sip(k)
           x == IF k.rel THEN k ELSE r
<1>1. Good(conn, k) /\ HasMncc(k)
    BY MscGoneGood, MscGoneFields DEF IInv, check_rel_ind, HasMncc
<1>2. Done(c, mncc_leg_release(x))
    BY DEF check_rel_ind
<1> HIDE DEF k
<1>3. Base(x) /\ (HasSip(x) => SipClearing(x))
  <2>1. CASE k.rel
      BY <1>1, <2>1 DEF Good, Cleared, BothLegs
  <2>2. CASE ~k.rel
      BY <1>1, <2>2, ReleaseOtherSip DEF Good
  <2>3. QED BY <2>1, <2>2
<1> HIDE DEF x
<1>4. QED BY <1>2, <1>3, FreeMnccGood, DoneGood

\* check_rel_cnf keeps the invariant: REL_REQ was sent for a leg in release only.
LEMMA CheckRelCnf ==
    ASSUME IInv, NEW c \in CallId, check_rel_cnf(c)
    PROVE  IInv'
<1> DEFINE k == MscGone(calls[c])
<1>1. Good(conn, k) /\ HasMncc(k) /\ k.rel
    BY MscGoneGood, MscGoneFields DEF IInv, check_rel_cnf, HasMncc, Good, Base, Waiting
<1>2. Done(c, mncc_leg_release(k))
    BY DEF check_rel_cnf
<1> HIDE DEF k
<1>3. QED BY <1>1, <1>2, FreeMnccGood, DoneGood DEF Good, Cleared, BothLegs

\* check_rej_ind keeps the invariant.
LEMMA CheckRejInd ==
    ASSUME IInv, NEW c \in CallId, check_rej_ind(c)
    PROVE  IInv'
<1> DEFINE k == MscGone(calls[c])
           r == release_other_sip(k)
<1>1. Good(conn, k) /\ HasMncc(k)
    BY MscGoneGood, MscGoneFields DEF IInv, check_rej_ind, HasMncc
<1>2. Done(c, mncc_leg_release(r))
    BY DEF check_rej_ind
<1> HIDE DEF k
<1>3. Base(r) /\ (HasSip(r) => SipClearing(r))
    BY <1>1, ReleaseOtherSip DEF Good
<1> HIDE DEF r
<1>4. QED BY <1>2, <1>3, FreeMnccGood, DoneGood

\* check_stp_cmpl_ind keeps the invariant: a leg in release does not lose its timer.
LEMMA CheckStpCmplInd ==
    ASSUME IInv, NEW c \in CallId, check_stp_cmpl_ind(c)
    PROVE  IInv'
<1> USE DEF Good, Base, Cleared, Synced, Waiting, OnConn, HasMncc, HasSip, BothLegs, SipClearing,
            Talking
<1> DEFINE k == Answered(calls[c], "SETUP_RSP")
           s == stop_cmd_timer(k, "SETUP_COMPL_IND")
           t == [s EXCEPT !.mncc = "CONNECTED", !.msc = "TALK"]
<1>0. /\ Good(conn, calls[c]) /\ HasMncc(calls[c]) /\ calls[c].msc = "SETUP"
      /\ "SETUP_RSP" \in calls[c].req
    BY DEF IInv, check_stp_cmpl_ind, ForLeg
<1>1. /\ Good(conn, k) /\ HasMncc(k) /\ k.orig = "MNCC" /\ k.mncc = "PROCEEDING"
      /\ k.sip \in {"CONNECTED", "HOLD", "NONE"}
      /\ k.rel => k.want # "SETUP_COMPL_IND"
      /\ "RTP_CREATE" \notin k.req /\ "SETUP_RSP" \notin k.req
    BY <1>0, AnsweredGood, AnsweredFields DEF CallRec
<1> HIDE DEF k
<1>2. /\ s \in CallRec /\ Good(conn, s) /\ s.orig = "MNCC" /\ s.mncc = "PROCEEDING"
      /\ s.sip \in {"CONNECTED", "HOLD", "NONE"}
      /\ "RTP_CREATE" \notin s.req /\ "SETUP_RSP" \notin s.req
    BY <1>1, StopTimerFields DEF Supervised
<1> HIDE DEF s
<1>3. Good(conn, t)
    BY <1>2 DEF CallRec, MnccState, MscState, Supervised
<1>4. Done(c, t)
    BY DEF check_stp_cmpl_ind, t, s, k
<1> HIDE DEF t
<1>5. QED BY <1>3, <1>4, DoneGood

\* check_cnf_ind keeps the invariant: the timer is restarted, never stopped.
LEMMA CheckCnfInd ==
    ASSUME IInv, NEW c \in CallId, check_cnf_ind(c)
    PROVE  IInv'
<1> USE DEF Good, Base, Cleared, Synced, Waiting, OnConn, HasMncc, HasSip, BothLegs, SipClearing,
            Talking
<1> DEFINE a == Answered(calls[c], "SETUP_REQ")
           k == start_cmd_timer(a, "RTP_CREATE")
<1>1. Good(conn, a) /\ HasMncc(a) /\ a.orig = "SIP"
    BY AnsweredGood, AnsweredFields DEF IInv, check_cnf_ind
<1> HIDE DEF a
<1>2. Good(conn, k) /\ k.orig = "SIP" /\ k.timer
    BY <1>1, StartTimerFields DEF Wanted
<1> HIDE DEF k
<1>3. Good(conn, Ask(k, "RTP_CREATE"))
    BY <1>2, AskFields DEF MscRequest
<1>4. Done(c, Ask(k, "RTP_CREATE")) \/ WriteFails(c, k)
    BY DEF check_cnf_ind, k, a
<1>5. QED BY <1>2, <1>3, <1>4, DoneGood, FailGood

\* A call without SIP leg may release its MNCC leg.
LEMMA NoSipReleasable ==
    ASSUME NEW k, Good(conn, k), HasMncc(k), ~HasSip(k)
    PROVE  Releasable(k)
BY DEF Good, Releasable

\* check_alrt_ind keeps the invariant.
LEMMA CheckAlrtInd ==
    ASSUME IInv, NEW c \in CallId, check_alrt_ind(c)
    PROVE  IInv'
<1>1. Good(conn, calls[c]) /\ HasMncc(calls[c])
    BY DEF IInv, check_alrt_ind, ForLeg
<1>2. QED BY <1>1, NoSipReleasable, DoneGood, ReleaseGood DEF check_alrt_ind

\* RTP_CONNECT is not supervised.
LEMMA AskRtpConnect ==
    ASSUME NEW cs, NEW k, Good(cs, k)
    PROVE  Good(cs, Ask(k, "RTP_CONNECT"))
BY AskFields DEF MscRequest, Supervised, Good, Base, Cleared, Synced, Waiting, OnConn,
   HasMncc, HasSip, BothLegs, SipClearing, Talking

\* check_stp_cnf keeps the invariant: both legs are connected in one handler.
LEMMA CheckStpCnf ==
    ASSUME IInv, NEW c \in CallId, check_stp_cnf(c)
    PROVE  IInv'
<1> USE DEF Good, Base, Cleared, Synced, Waiting, OnConn, HasMncc, HasSip, BothLegs, SipClearing,
            Talking
<1> DEFINE k == [calls[c] EXCEPT !.msc = "TALK"]
           q == Ask(k, "RTP_CONNECT")
           a == [q EXCEPT !.mncc = "CONNECTED"]
           b == sip_connect_call(a)
<1>1. /\ Good(conn, calls[c]) /\ HasMncc(calls[c]) /\ calls[c].orig = "SIP"
      /\ calls[c].mncc \in {"INITIAL", "PROCEEDING"}
    BY DEF IInv, check_stp_cnf, ForLeg
<1>2. /\ k \in CallRec /\ k.orig = "SIP" /\ k.msc = "TALK" /\ k.mncc = calls[c].mncc
      /\ k.sip = calls[c].sip /\ k.nh = calls[c].nh /\ k.txn = calls[c].txn
      /\ k.rel = calls[c].rel /\ k.timer = calls[c].timer /\ k.req = calls[c].req
    BY <1>1 DEF CallRec, MscState
<1>3. \/ ~HasSip(k) /\ release_mncc(c, k)
      \/ HasSip(k) /\ Done(c, b)
      \/ HasSip(k) /\ WriteFailsLegUsed(c, k)
    BY DEF check_stp_cnf
<1> HIDE DEF k
<1>4. /\ Base(k) /\ HasMncc(k) /\ Cleared(k)
      /\ ~HasSip(k) => Good(conn, k)
    BY <1>1, <1>2
<1>5. /\ q \in CallRec /\ q.orig = "SIP" /\ q.msc = "TALK" /\ q.sip = k.sip /\ q.nh = k.nh
      /\ q.txn = k.txn /\ q.rel = k.rel /\ q.timer = k.timer
      /\ q.req = k.req \/ q.req = k.req \cup {"RTP_CONNECT"}
    BY <1>2, AskFields DEF MscRequest
<1> HIDE DEF q
<1>6. /\ b \in CallRec /\ b.orig = "SIP" /\ b.msc = "TALK" /\ b.sip = "CONNECTED"
      /\ b.mncc = "CONNECTED" /\ b.nh = k.nh /\ b.txn = k.txn /\ b.rel = k.rel
      /\ b.timer = k.timer /\ b.req = q.req
    BY <1>5 DEF sip_connect_call, CallRec, MnccState, SipState
<1> HIDE DEF b
<1>7. ASSUME HasSip(k) PROVE Good(conn, b)
    BY <1>1, <1>2, <1>4, <1>5, <1>6, <1>7 DEF Supervised
<1>8. QED BY <1>3, <1>4, <1>7, NoSipReleasable, ReleaseGood, DoneGood, FailGood

\* check_hold_ind keeps the invariant: both legs are on hold, or none.
LEMMA CheckHoldInd ==
    ASSUME IInv, NEW c \in CallId, check_hold_ind(c)
    PROVE  IInv'
<1> USE DEF Good, Base, Cleared, Synced, Waiting, OnConn, HasMncc, HasSip, BothLegs, SipClearing,
            Talking
<1> DEFINE k == calls[c]
           i == nua_invite(k)
           h == [i EXCEPT !.sip = "HOLD"]
           d == [h EXCEPT !.mncc = "HOLD", !.msc = "HELD"]
<1>1. Good(conn, k) /\ HasMncc(k) /\ k.msc = "TALK"
    BY DEF IInv, check_hold_ind, ForLeg
<1>2. \/ ~HasSip(k) /\ Done(c, k)
      \/ ~HasSip(k) /\ WriteFails(c, k)
      \/ HasSip(k) /\ Done(c, d)
      \/ HasSip(k) /\ WriteFailsLegUsed(c, h)
    BY DEF check_hold_ind, sip_hold_call
<1> HIDE DEF k
<1>3. ASSUME HasSip(k)
      PROVE  /\ i \in CallRec /\ HasMncc(i) /\ HasSip(i) /\ i.nh /\ i.orig = k.orig
             /\ i.rel = k.rel /\ i.timer = k.timer /\ i.req = k.req /\ i.want = k.want
             /\ i.mncc = k.mncc /\ (i.rel <=> SipClearing(i))
  <2>1. k \in CallRec /\ k.nh /\ (k.rel <=> SipClearing(k))
      BY <1>1, <1>3
  <2>2. SipClearing(i) <=> SipClearing(k)
      BY <2>1, InviteFields
  <2>3. QED BY <1>1, <1>3, <2>1, <2>2, InviteFields DEF HasMncc, HasSip
<1> HIDE DEF i
<1>4. ASSUME HasSip(k) PROVE Base(h)
    BY <1>1, <1>3, <1>4 DEF CallRec, SipState
<1>5. ASSUME HasSip(k) PROVE Good(conn, d)
  <2>1. /\ d \in CallRec /\ d.sip = "HOLD" /\ d.mncc = "HOLD" /\ d.msc = "HELD" /\ d.nh
        /\ d.orig = k.orig /\ d.rel = k.rel /\ d.timer = k.timer /\ d.req = k.req
        /\ d.want = k.want /\ d.txn = i.txn
      BY <1>3, <1>5 DEF CallRec, SipState, MnccState, MscState
  <2> HIDE DEF d
  <2>2. k.orig \in {"MNCC", "SIP"}
      BY <1>1 DEF CallRec, LegType
  <2>3. QED BY <1>1, <1>3, <1>5, <2>1, <2>2
<1> HIDE DEF h, d
<1>6. QED BY <1>1, <1>2, <1>4, <1>5, DoneGood, FailGood

\* check_retrieve_ind keeps the invariant: both legs leave hold.
LEMMA CheckRetrieveInd ==
    ASSUME IInv, NEW c \in CallId, check_retrieve_ind(c)
    PROVE  IInv'
<1> USE DEF Good, Base, Cleared, Synced, Waiting, OnConn, HasMncc, HasSip, BothLegs, SipClearing,
            Talking
<1> DEFINE k == [calls[c] EXCEPT !.msc = "TALK"]
           i == nua_invite(k)
           r == [i EXCEPT !.sip = "CONNECTED"]
           d == [r EXCEPT !.mncc = "CONNECTED"]
<1>1. Good(conn, calls[c]) /\ HasMncc(calls[c]) /\ calls[c].msc = "HELD"
    BY DEF IInv, check_retrieve_ind, ForLeg
<1>2. Good(conn, k) /\ HasMncc(k) /\ k.msc = "TALK"
    BY <1>1 DEF CallRec, MscState
<1>3. \/ ~HasSip(k) /\ release_mncc(c, k)
      \/ ~HasSip(k) /\ WriteFailsLegUsed(c, k)
      \/ HasSip(k) /\ Done(c, Ask(d, "RTP_CONNECT"))
      \/ HasSip(k) /\ WriteFailsLegUsed(c, r)
    BY DEF check_retrieve_ind, sip_retrieve_call
<1> HIDE DEF k
<1>4. ASSUME HasSip(k)
      PROVE  /\ i \in CallRec /\ HasMncc(i) /\ HasSip(i) /\ i.nh /\ i.orig = k.orig
             /\ i.rel = k.rel /\ i.timer = k.timer /\ i.req = k.req /\ i.want = k.want
             /\ i.mncc = k.mncc /\ i.msc = k.msc /\ (i.rel <=> SipClearing(i))
  <2>1. k \in CallRec /\ k.nh /\ (k.rel <=> SipClearing(k))
      BY <1>2, <1>4
  <2>2. SipClearing(i) <=> SipClearing(k)
      BY <2>1, InviteFields
  <2>3. QED BY <1>2, <1>4, <2>1, <2>2, InviteFields DEF HasMncc, HasSip
<1> HIDE DEF i
<1>5. ASSUME HasSip(k) PROVE Base(r)
    BY <1>2, <1>4, <1>5 DEF CallRec, SipState
<1>6. ASSUME HasSip(k) PROVE Good(conn, d)
    BY <1>2, <1>4, <1>6 DEF CallRec, LegType, SipState, MnccState
<1> HIDE DEF r, d
<1>7. QED
    BY <1>2, <1>3, <1>5, <1>6, NoSipReleasable, AskRtpConnect, ReleaseGood, DoneGood, FailGood

\* check_dtmf_start and check_dtmf_stop keep the invariant.
LEMMA CheckDtmf ==
    ASSUME IInv, NEW c \in CallId, check_dtmf(c)
    PROVE  IInv'
BY DoneGood, FailGood DEF check_dtmf, IInv, Good

\* The MSC may forget a call the connector has let go.
LEMMA MscDrops ==
    ASSUME IInv, NEW c \in CallId, MscDropsCall(c)
    PROVE  IInv'
BY MscGoneGood, DoneGood DEF MscDropsCall, IInv

\* cmd_timeout keeps the invariant: both legs are released.
LEMMA TimeoutGood ==
    ASSUME IInv, NEW c \in CallId, CmdTimeout(c)
    PROVE  IInv'
<1> DEFINE k == calls[c]
           r == release_other_sip(k)
<1>1. Good(conn, k) /\ HasMncc(k)
    BY DEF IInv, CmdTimeout, Good, Base
<1>2. Done(c, mncc_leg_release(r))
    BY DEF CmdTimeout, cmd_timeout
<1> HIDE DEF k
<1>3. Base(r) /\ (HasSip(r) => SipClearing(r))
    BY <1>1, ReleaseOtherSip DEF Good
<1> HIDE DEF r
<1>4. QED BY <1>2, <1>3, FreeMnccGood, DoneGood

-----------------------------------------------------------------------------
(* Events of sofia-sip.                                                    *)

\* Once the SIP leg is gone the MNCC leg, if any, may be released.
LEMMA DropSipGood ==
    ASSUME NEW k, Good(conn, k)
    PROVE  /\ HasMncc(k) => Releasable(DropSip(k))
           /\ Base(DropSip(k))
           /\ Good(conn, DropSip(k))
<1> USE DEF Good, Base, Cleared, Synced, Waiting, OnConn, HasMncc, HasSip, BothLegs, SipClearing
<1> DEFINE d == DropSip(k)
<1>1. /\ Base(d) /\ Cleared(d) /\ Synced(d) /\ ~HasSip(d) /\ OnConn(conn, d)
      /\ d.mncc = k.mncc
    BY DropSipFields
<1>2. Waiting(d)
    BY DropSipFields
<1> HIDE DEF d
<1>3. QED BY <1>1, <1>2 DEF d, Releasable

\* The answer to our BYE or CANCEL keeps the invariant.
LEMMA ByeGood ==
    ASSUME IInv, NEW c \in CallId, nua_r_bye(c) \/ nua_r_cancel(c)
    PROVE  IInv'
BY DropSipGood, DoneGood DEF IInv, nua_r_bye, nua_r_cancel

\* nua_callback drops the SIP leg and releases the other one.
LEMMA HangupGood ==
    ASSUME IInv, NEW c \in CallId, NEW k, Good(conn, k), release_other_mncc(c, DropSip(k))
    PROVE  IInv'
<1>1. HasMncc(DropSip(k)) <=> HasMncc(k)
    BY DropSipFields DEF Good, Base, HasMncc
<1>2. QED BY <1>1, DropSipGood, DoneGood, ReleaseGood DEF release_other_mncc

\* A 200 for an INVITE of ours.
LEMMA ConnectGood ==
    ASSUME IInv, NEW c \in CallId, NEW k, Good(conn, k), k.nh, k.orig = "MNCC",
           k.sip = "DLG_CNFD", "INVITE" \notin k.txn, NEW audio, call_connect(c, k, audio)
    PROVE  IInv'
<1> USE DEF Good, Base, Cleared, Synced, Waiting, OnConn, HasMncc, HasSip, BothLegs, SipClearing,
            Talking
<1> DEFINE n == nua_cancel(k)
           a == [k EXCEPT !.sip = "CONNECTED"]
           q == Ask(a, "RTP_CONNECT")
           t == start_cmd_timer(q, "SETUP_COMPL_IND")
           z == Ask(t, "SETUP_RSP")
<1>1. \/ ~HasMncc(k) /\ Done(c, n)
      \/ HasMncc(k) /\ release_mncc(c, n)
      \/ HasMncc(k) /\ Done(c, z)
      \/ HasMncc(k) /\ WriteFailsLegUsed(c, a)
      \/ HasMncc(k) /\ WriteFails(c, a)
    BY DEF call_connect, mncc_call_leg_connect
<1>2. ~HasMncc(k) => Good(conn, n)
    BY CancelFields
<1>3. HasMncc(k) => Releasable(n)
    BY CancelFields DEF Releasable
<1> HIDE DEF n
<1>4. ASSUME HasMncc(k)
      PROVE  /\ Good(conn, a) /\ a.mncc = k.mncc /\ a.orig = "MNCC" /\ a.sip = "CONNECTED"
             /\ a.mncc # "INITIAL" /\ "SETUP_RSP" \notin a.req /\ "RTP_CREATE" \notin a.req
  <2>1. /\ a \in CallRec /\ a.sip = "CONNECTED" /\ a.mncc = k.mncc /\ a.nh /\ a.orig = k.orig
        /\ a.rel = k.rel /\ a.timer = k.timer /\ a.req = k.req /\ a.want = k.want
        /\ a.txn = k.txn /\ a.msc = k.msc
      BY DEF CallRec, SipState
  <2> HIDE DEF a
  <2>2. QED BY <1>4, <2>1
<1> HIDE DEF a
<1>5. ASSUME HasMncc(k) PROVE Good(conn, z)
  <2>1. /\ Good(conn, q) /\ HasMncc(q) /\ q.orig = "MNCC" /\ q.sip = "CONNECTED"
        /\ q.mncc # "INITIAL" /\ "SETUP_RSP" \notin q.req /\ "RTP_CREATE" \notin q.req
    <3>1. Good(conn, q)
        BY <1>4, <1>5, AskRtpConnect
    <3>2. a \in CallRec /\ "RTP_CONNECT" \in MscRequest
        BY <1>4, <1>5 DEF MscRequest
    <3>3. QED BY <1>4, <1>5, <3>1, <3>2, AskFields
  <2> HIDE DEF q
  <2>2. /\ Good(conn, t) /\ HasMncc(t) /\ t.orig = "MNCC" /\ t.sip = "CONNECTED"
        /\ t.mncc # "INITIAL" /\ "SETUP_RSP" \notin t.req /\ t.timer
      BY <2>1, StartTimerFields DEF Wanted
  <2> HIDE DEF t
  <2>3. QED BY <2>2, AskFields DEF MscRequest
<1> HIDE DEF z
<1>6. QED BY <1>1, <1>2, <1>3, <1>4, <1>5, DoneGood, ReleaseGood, FailGood

\* Every response to an INVITE of ours keeps the invariant, also one that races our CANCEL.
LEMMA InviteResponse ==
    ASSUME IInv, NEW c \in CallId, NEW ok,
           \/ nua_r_invite_progress(c, ok) \/ nua_r_invite_trying(c)
           \/ nua_r_invite_ok(c, ok) \/ nua_r_invite_fail(c)
    PROVE  IInv'
<1> USE DEF Good, Base, Cleared, Synced, Waiting, OnConn, HasMncc, HasSip, BothLegs, SipClearing,
            Talking
<1> DEFINE v == calls[c]
           k == Confirmed(v)
           f == [k EXCEPT !.txn = @ \ {"INVITE"}]
           up == f.sip \in {"CONNECTED", "HOLD"}
<1>0. Good(conn, v) /\ v.nh /\ "INVITE" \in v.txn
    BY DEF IInv, InviteAnswered, nua_r_invite_progress, nua_r_invite_trying, nua_r_invite_ok,
       nua_r_invite_fail
<1>1. \/ call_progress(c, k, ok) \/ Done(c, k)
      \/ Done(c, f)
      \/ ~up /\ call_connect(c, f, ok)
      \/ release_other_mncc(c, DropSip(k))
    BY DEF nua_r_invite_progress, nua_r_invite_trying, nua_r_invite_ok, nua_r_invite_fail
<1> HIDE DEF v
<1>2. Good(conn, k) /\ k.nh /\ "INVITE" \in k.txn /\ k.sip # "INITIAL" /\ HasSip(k)
  <2>1. /\ k \in CallRec /\ k.mncc = v.mncc /\ k.nh = v.nh /\ k.orig = v.orig
        /\ k.rel = v.rel /\ k.timer = v.timer /\ k.req = v.req /\ k.want = v.want
        /\ k.txn = v.txn /\ k.msc = v.msc
        /\ (v.sip = "INITIAL" /\ k.sip = "DLG_CNFD") \/ (v.sip # "INITIAL" /\ k.sip = v.sip)
      BY <1>0 DEF Confirmed, CallRec, SipState
  <2> HIDE DEF k
  <2>2. QED BY <1>0, <2>1
<1> HIDE DEF k
<1>3. /\ Good(conn, f) /\ f.nh /\ f.sip = k.sip /\ f.orig = k.orig /\ "INVITE" \notin f.txn
  <2>1. /\ f \in CallRec /\ f.mncc = k.mncc /\ f.nh = k.nh /\ f.orig = k.orig
        /\ f.rel = k.rel /\ f.timer = k.timer /\ f.req = k.req /\ f.want = k.want
        /\ f.sip = k.sip /\ f.msc = k.msc /\ f.txn = k.txn \ {"INVITE"}
      BY <1>2 DEF CallRec
  <2> HIDE DEF f
  <2>2. QED BY <1>2, <2>1
<1> HIDE DEF f
<1>4. ~up => f.orig = "MNCC" /\ f.sip = "DLG_CNFD"
    BY <1>2, <1>3 DEF CallRec, SipState, LegType
<1>5. CASE call_progress(c, k, ok)
    BY <1>2, <1>5, AskRtpConnect, DoneGood, FailGood DEF call_progress, mncc_call_leg_ring
<1>6. QED BY <1>1, <1>2, <1>3, <1>4, <1>5, DoneGood, ConnectGood, HangupGood

\* new_call keeps the invariant, on every connection state and every refusal.
LEMMA NewCall ==
    ASSUME IInv, NEW c \in CallId, NEW fate, new_call(c, fate)
    PROVE  IInv'
<1> USE DEF Good, Base, Cleared, Synced, Waiting, OnConn, HasMncc, HasSip, BothLegs, SipClearing,
            Talking
<1> DEFINE k == call_sip_create(calls[c])
           l == [k EXCEPT !.sip = "DLG_CNFD", !.nh = TRUE]
           d == DropSip(l)
           m == mncc_create_remote_leg(l)
<1>0. calls[c] = NoCall
    BY DEF new_call
<1>1. /\ Good(conn, k) /\ k.orig = "SIP" /\ k.sip = "INITIAL" /\ k.mncc = "NONE"
      /\ ~k.rel /\ ~k.timer /\ k.txn = {}
  <2>1. /\ k \in CallRec /\ k.orig = "SIP" /\ k.sip = "INITIAL" /\ k.mncc = "NONE"
        /\ ~k.rel /\ ~k.timer /\ k.txn = {} /\ ~k.nh
      BY <1>0, NoCallFields DEF call_sip_create, CallRec, LegType, SipState
  <2> HIDE DEF k
  <2>2. QED BY <2>1
<1>2. \/ Done(c, k)
      \/ conn # "DISCONNECTED" /\ Done(c, m)
      \/ WriteFails(c, sip_release_call(l))
      \/ Done(c, d) \/ Done(c, sip_release_call(l))
    BY DEF new_call, route_to_mncc
<1> HIDE DEF k
<1>3. /\ l \in CallRec /\ l.orig = "SIP" /\ l.sip = "DLG_CNFD" /\ l.mncc = "NONE" /\ l.nh
      /\ ~l.rel /\ ~l.timer /\ l.txn = {}
    BY <1>1 DEF CallRec, SipState
<1> HIDE DEF l
<1>4. Good(conn, d) /\ sip_release_call(l) = d
  <2>1. Good(conn, d)
      BY <1>3, DropSipFields
  <2>2. sip_release_call(l) = d
      BY <1>3 DEF sip_release_call
  <2>3. QED BY <2>1, <2>2
<1> HIDE DEF d
<1>5. ASSUME conn # "DISCONNECTED" PROVE Good(conn, m)
  <2>1. /\ m \in CallRec /\ m.orig = "SIP" /\ m.sip = "DLG_CNFD" /\ m.mncc = "INITIAL" /\ m.nh
        /\ ~m.rel /\ ~m.timer /\ m.txn = {} /\ m.req = {"SETUP_REQ"} /\ m.msc = "SETUP"
      BY <1>3 DEF mncc_create_remote_leg, CallRec, MnccState, MscState, MscRequest
  <2> HIDE DEF m
  <2>2. QED BY <1>5, <2>1 DEF Supervised
<1> HIDE DEF m
<1>6. QED BY <1>1, <1>2, <1>4, <1>5, DoneGood, FailGood

\* sip_handle_reinvite keeps the invariant.
LEMMA Reinvite ==
    ASSUME IInv, NEW c \in CallId, NEW fate, sip_handle_reinvite(c, fate)
    PROVE  IInv'
<1> DEFINE k == calls[c]
<1>1. Good(conn, k) /\ k.nh /\ k.sip \in {"CONNECTED", "HOLD"}
    BY DEF IInv, sip_handle_reinvite
<1>2. \/ ~HasMncc(k) /\ Done(c, nua_bye(k))
      \/ Done(c, k) \/ Done(c, DropSip(k)) \/ Done(c, Ask(k, "RTP_CONNECT"))
      \/ WriteFailsLegUsed(c, k)
    BY <1>1 DEF sip_handle_reinvite, update_rtp, sip_release_call
<1> HIDE DEF k
<1>3. ~HasMncc(k) => Good(conn, nua_bye(k))
    BY <1>1, ByeFields DEF Good, Base, Cleared, Synced, Waiting, OnConn,
       HasMncc, HasSip, BothLegs, SipClearing
<1>4. QED BY <1>1, <1>2, <1>3, DropSipGood, AskRtpConnect, DoneGood, FailGood DEF Good

-----------------------------------------------------------------------------
(* The connection and the VTY.                                             *)

\* Connecting, the hello and a lost connection keep the invariant.
LEMMA ConnectionGood ==
    ASSUME IInv, mncc_reconnect_ok \/ mncc_reconnect_fail \/ check_hello \/ mncc_data_bad
    PROVE  IInv'
<1> USE DEF IInv, ConnState, Fault
<1>1. CASE mncc_reconnect_ok
    BY <1>1 DEF mncc_reconnect_ok, Good, OnConn
<1>2. CASE mncc_reconnect_fail
    BY <1>2 DEF mncc_reconnect_fail
<1>3. CASE check_hello
    BY <1>3 DEF check_hello, Good, OnConn
<1>4. CASE mncc_data_bad
  <2>1. \A d \in CallId : Good("DISCONNECTED", calls'[d])
      BY <1>4, DisconnectGood DEF mncc_data_bad, Good
  <2>2. QED BY <1>4, <2>1 DEF mncc_data_bad, Good, Base
<1>5. QED BY <1>1, <1>2, <1>3, <1>4

\* A process that starts has no calls.
LEMMA NoCallGood == \A cs : Good(cs, NoCall)
BY NoCallFields DEF Good, Base, Cleared, Synced, Waiting, OnConn,
   HasMncc, HasSip, BothLegs, SipClearing

\* show_calls and show_calls_sum keep the invariant, also when they kill the process.
LEMMA ShowCalls ==
    ASSUME IInv, show_calls_sum \/ show_calls
    PROVE  IInv'
<1>1. CASE Restart("null_pointer") \/ Restart("stale_name")
    BY <1>1, NoCallGood, NoCallFields DEF Restart, IInv, ConnState, Fault
<1>2. CASE fault' \in {"none", "stale_name"} /\ UNCHANGED <<conn, reconnect, calls>>
    BY <1>2 DEF IInv, Fault
<1>3. QED BY <1>1, <1>2 DEF show_calls_sum, show_calls

-----------------------------------------------------------------------------
(* The theorems.                                                           *)

\* The invariant holds when the process starts.
LEMMA InitGood == Init => IInv
BY NoCallGood, NoCallFields DEF Init, IInv, ConnState, Fault

\* Every step of the event loop keeps the invariant.
LEMMA NextGood == IInv /\ [Next]_vars => IInv'
<1> SUFFICES ASSUME IInv, [Next]_vars PROVE IInv'
    OBVIOUS
<1>1. CASE UNCHANGED vars
    BY <1>1 DEF vars, IInv
<1>2. CASE mncc_reconnect_ok \/ mncc_reconnect_fail \/ check_hello \/ mncc_data_bad
    BY <1>2, ConnectionGood
<1>3. CASE show_calls_sum \/ show_calls
    BY <1>3, ShowCalls
<1>4. ASSUME NEW c \in CallId, mncc_data(c) PROVE IInv'
    BY <1>4, CheckSetup, CheckRtpCreate, CheckRtpConnect, CheckDiscInd, CheckRelInd, CheckRelCnf,
       CheckRejInd, CheckStpCmplInd, CheckCnfInd, CheckAlrtInd, CheckStpCnf, CheckHoldInd,
       CheckRetrieveInd, CheckDtmf DEF mncc_data
<1>5. ASSUME NEW c \in CallId, nua_callback(c) PROVE IInv'
  <2>1. CASE nua_i_bye(c) \/ nua_i_cancel(c)
      BY <2>1, HangupGood DEF IInv, nua_i_bye, nua_i_cancel
  <2>2. QED BY <1>5, <2>1, InviteResponse, ByeGood, NewCall, Reinvite DEF nua_callback
<1>6. ASSUME NEW c \in CallId, CmdTimeout(c) \/ MscDropsCall(c) PROVE IInv'
    BY <1>6, TimeoutGood, MscDrops
<1>7. QED BY <1>1, <1>2, <1>3, <1>4, <1>5, <1>6 DEF Next

\* The inductive invariant holds in every reachable state of the event loop.
THEOREM Invariance == Spec => []IInv
BY InitGood, NextGood, PTL DEF Spec

\* Every variable and every field of every call keeps its type.
THEOREM TypeCorrect == Spec => []TypeOK
<1>1. IInv => TypeOK
    BY DEF IInv, TypeOK
<1>2. QED BY <1>1, Invariance, PTL

\* close_connection leaves no MNCC leg behind.
THEOREM ConnectionSafe == Spec => []NoLegWithoutConnection
<1>1. IInv => NoLegWithoutConnection
    BY DEF IInv, NoLegWithoutConnection, Good, OnConn
<1>2. QED BY <1>1, Invariance, PTL

\* The reconnect timer runs whenever, and only when, there is no connection.
THEOREM ReconnectSafe == Spec => []ReconnectScheduled
<1>1. IInv => ReconnectScheduled
    BY DEF IInv, ReconnectScheduled
<1>2. QED BY <1>1, Invariance, PTL

\* An MNCC leg that waits for the MSC is always supervised by cmd_timeout.
THEOREM Supervision == Spec => []WaitIsSupervised
<1>1. IInv => WaitIsSupervised
    BY DEF IInv, WaitIsSupervised, Good, Waiting
<1>2. QED BY <1>1, Invariance, PTL

\* No release path forgets one of the two parties.
THEOREM Clearing == Spec => []ClearedTogether
<1>1. IInv => ClearedTogether
    BY DEF IInv, ClearedTogether, Good, Base, Cleared, BothLegs
<1>2. QED BY <1>1, Invariance, PTL

\* A nua handle with work under way always belongs to an existing leg.
THEOREM Handles == Spec => []HandleHasLeg
<1>1. IInv => HandleHasLeg
    BY DEF IInv, HandleHasLeg, Good, Base
<1>2. QED BY <1>1, Invariance, PTL

\* The called side is answered first, for both directions of a call.
THEOREM Answering == Spec => []AnswerOrder
<1>1. IInv => AnswerOrder
    BY DEF IInv, AnswerOrder, Good, Synced
<1>2. QED BY <1>1, Invariance, PTL

\* The legs are on hold together.
THEOREM Holding == Spec => []HoldInStep
<1>1. IInv => HoldInStep
    BY DEF IInv, HoldInStep, Good, Synced
<1>2. QED BY <1>1, Invariance, PTL
=============================================================================
