-------------------------- MODULE LifecycleProofs ---------------------------
(***************************************************************************)
(* What a step of the event loop may do to a call, proved for any set      *)
(* CallId: Connector implements CallLifecycle, no handler drops a call     *)
(* behind the back of the MSC, and none frees the SIP leg and forgets the  *)
(* subscriber.  All are statements about two states; the invariant of      *)
(* ConnectorProofs says what the first one is like.                        *)
(*                                                                         *)
(* Every handler ends in one of a few ways (Done, close_connection,        *)
(* Restart, release_mncc).  All but Done leave each call idle or clearing, *)
(* whatever it was; what is left to show of a handler is that the record   *)
(* it hands to Done is a legal successor.                                  *)
(***************************************************************************)
EXTENDS ConnectorProofs

\* A call is set up only from idle, and answered only from set-up.
Ahead(k, l) == /\ Phase(l) = "setup" => Phase(k) \in {"idle", "setup"}
               /\ Phase(l) = "answered" => Phase(k) \in {"setup", "answered"}

\* What MscNotForgotten says of one call in a step that is not its timeout.
Remembered(k, l) ==
    HasMncc(k) /\ ~HasMncc(l) /\ l.msc # "NONE" => conn # "READY" \/ "REJ_REQ" \in l.req

\* What SubscriberNotForgotten says of one call in a step that is not its re-INVITE.
Told(k, l) == HasSip(k) /\ ~HasSip(l) /\ HasMncc(l) => l.rel

Legal(k, l) == Ahead(k, l) /\ Remembered(k, l) /\ Told(k, l)

\* What the theorems need of a step: a legal successor for every call, but for the
\* two handlers that may drop one leg without a word.
LegalStep ==
    \A c \in CallId :
        /\ Ahead(calls[c], calls'[c])
        /\ CmdTimeout(c) \/ Remembered(calls[c], calls'[c])
        /\ sip_handle_reinvite(c, "no_audio") \/ Told(calls[c], calls'[c])

-----------------------------------------------------------------------------
(* When a successor is legal.                                              *)

\* A call is always in one of the four phases.
LEMMA PhaseType == \A k : Phase(k) \in {"idle", "setup", "answered", "clearing"}
BY DEF Phase

\* Nothing that the phase looks at has changed.
LEMMA SameLegs ==
    ASSUME NEW k, NEW l, l.orig = k.orig, l.mncc = k.mncc, l.rel = k.rel, l.sip = k.sip
    PROVE  Legal(k, l)
<1>1. Phase(l) = Phase(k)
    BY DEF Phase, Talking, BothLegs, HasMncc, HasSip
<1>2. QED BY <1>1, PhaseType DEF Legal, Ahead, Remembered, Told, HasMncc, HasSip

\* A call whose MNCC leg is in release or gone is idle or clearing.
LEMMA EndPhase ==
    ASSUME NEW l, l.rel \/ l.mncc = "NONE"
    PROVE  Phase(l) \in {"idle", "clearing"}
BY DEF Phase, Talking, BothLegs, HasMncc

\* A call whose MNCC leg stays for its release.
LEMMA InRelease ==
    ASSUME NEW k, NEW l, l.rel, HasMncc(l)
    PROVE  Legal(k, l)
BY EndPhase DEF Legal, Ahead, Remembered, Told, HasMncc

\* A call the MSC has forgotten, too.
LEMMA BothGone ==
    ASSUME NEW k, NEW l, l.mncc = "NONE", l.msc = "NONE"
    PROVE  Legal(k, l)
BY EndPhase DEF Legal, Ahead, Remembered, Told, HasMncc

\* A call that had no MNCC leg and has none.
LEMMA StillGone ==
    ASSUME NEW k, NEW l, k.mncc = "NONE", l.mncc = "NONE"
    PROVE  Legal(k, l)
BY EndPhase DEF Legal, Ahead, Remembered, Told, HasMncc

\* A call with an MNCC leg in set-up, or none and new, as it was.
LEMMA Alive ==
    ASSUME NEW k, NEW l, HasMncc(l), Phase(k) = "setup" \/ Phase(k) = "idle",
           ~Talking(l) \/ Phase(k) = "setup", ~HasSip(k)
    PROVE  Legal(k, l)
<1>1. Phase(l) = "answered" => Talking(l)
    BY DEF Phase
<1>2. QED BY <1>1 DEF Legal, Ahead, Remembered, Told

-----------------------------------------------------------------------------
(* How handlers end.                                                       *)

\* A handler that leaves its call a legal successor takes a legal step.
LEMMA DoneLegal ==
    ASSUME IInv, NEW c \in CallId, NEW k, Legal(calls[c], k), Done(c, k)
    PROVE  LegalStep
<1>1. calls \in [CallId -> CallRec] /\ calls' = [calls EXCEPT ![c] = k]
    BY DEF IInv, Done
<1>2. \A d \in CallId : d # c => calls'[d] = calls[d]
    BY <1>1
<1>3. \A d \in CallId : Legal(calls[d], calls'[d])
    BY <1>1, <1>2, SameLegs
<1>4. QED BY <1>3 DEF LegalStep, Legal

\* After app_mncc_disconnected neither side has an MNCC call.
LEMMA DisconnectEnds ==
    ASSUME NEW k \in CallRec, Base(k)
    PROVE  LET l == app_mncc_disconnected(k) IN l.mncc = "NONE" /\ l.msc = "NONE"
<1> DEFINE r == release_other_sip(k)
           d == mncc_leg_release(r)
<1>1. CASE ~HasMncc(k)
    BY <1>1, MscGoneFields DEF app_mncc_disconnected, HasMncc
<1>2. CASE HasMncc(k)
  <2>1. r \in CallRec
      BY <1>2, ReleaseOtherSip DEF Base
  <2> HIDE DEF r
  <2>2. d \in CallRec /\ d.mncc = "NONE"
      BY <2>1, FreeMnccFields
  <2> HIDE DEF d
  <2>3. MscGone(d).mncc = "NONE" /\ MscGone(d).msc = "NONE"
      BY <2>2, MscGoneFields
  <2>4. QED BY <1>2, <2>3 DEF app_mncc_disconnected, d, r
<1>3. QED BY <1>1, <1>2

\* A write that fails in the middle of a handler is a legal step for every call.
LEMMA FailLegal ==
    ASSUME IInv, NEW c \in CallId, NEW k, Base(k),
           WriteFails(c, k) \/ WriteFailsLegUsed(c, k)
    PROVE  LegalStep
<1>1. CASE close_connection(c, k)
  <2>1. \A d \in CallId : calls'[d].mncc = "NONE" /\ calls'[d].msc = "NONE"
      BY <1>1, DisconnectEnds DEF close_connection, IInv, Good, Base
  <2>2. QED BY <2>1, BothGone DEF LegalStep, Legal
<1>2. CASE Restart("use_after_free")
    BY <1>2, BothGone, NoCallFields DEF Restart, LegalStep, Legal
<1>3. QED BY <1>1, <1>2 DEF WriteFails, WriteFailsLegUsed

\* mncc_call_leg_release: the leg stays in release, or the MSC is sent REJ_REQ.
LEMMA ReleaseLegal ==
    ASSUME IInv, NEW c \in CallId, NEW k, Base(k), HasMncc(k), release_mncc(c, k)
    PROVE  LegalStep
<1> DEFINE rk == [k EXCEPT !.rel = TRUE]
<1>0. k \in CallRec
    BY DEF Base
<1>1. rk \in CallRec /\ rk.rel /\ rk.mncc = k.mncc
    BY <1>0 DEF CallRec
<1> HIDE DEF rk
<1>2. CASE conn # "READY" /\ Done(c, mncc_leg_release(k))
  <2>1. Legal(calls[c], mncc_leg_release(k))
      BY <1>0, <1>2, FreeMnccFields, EndPhase DEF Legal, Ahead, Remembered, Told, HasMncc
  <2>2. QED BY <1>2, <2>1, DoneLegal
<1>3. CASE Done(c, mncc_call_leg_release(k))
  <2>1. CASE k.mncc # "INITIAL"
    <3>1. Legal(calls[c], start_cmd_timer(rk, "REL_IND"))
        BY <1>1, StartTimerFields, InRelease DEF Wanted, HasMncc
    <3>2. QED BY <1>3, <2>1, <3>1, DoneLegal DEF mncc_call_leg_release, rk
  <2>2. CASE k.mncc = "INITIAL" /\ k.orig = "MNCC"
    <3> DEFINE a == Ask(k, "REJ_REQ")
    <3>1. a \in CallRec /\ (a.msc # "NONE" => "REJ_REQ" \in a.req)
        BY <1>0 DEF Ask, CallRec, MscRequest
    <3> HIDE DEF a
    <3>2. Legal(calls[c], mncc_leg_release(a))
        BY <3>1, FreeMnccFields, EndPhase DEF Legal, Ahead, Remembered, Told, HasMncc
    <3>3. QED BY <1>3, <2>2, <3>2, DoneLegal DEF mncc_call_leg_release, a
  <2>3. CASE k.mncc = "INITIAL" /\ k.orig # "MNCC"
    <3> DEFINE t == start_cmd_timer(rk, "REL_CNF")
    <3>1. t \in CallRec /\ t.rel /\ t.mncc = k.mncc
        BY <1>1, StartTimerFields DEF Wanted
    <3> HIDE DEF t
    <3>2. Legal(calls[c], Ask(t, "REL_REQ"))
        BY <3>1, AskFields, InRelease DEF MscRequest, HasMncc
    <3>3. QED BY <1>3, <2>3, <3>2, DoneLegal DEF mncc_call_leg_release, t, rk
  <2>4. QED BY <2>1, <2>2, <2>3
<1>4. CASE WriteFails(c, k) \/ WriteFailsLegUsed(c, k)
    BY <1>4, FailLegal
<1>5. QED BY <1>2, <1>3, <1>4 DEF release_mncc

-----------------------------------------------------------------------------
(* Messages of the MSC.                                                    *)

\* check_setup starts from an idle slot.
LEMMA CheckSetupLegal ==
    ASSUME IInv, NEW c \in CallId, check_setup(c)
    PROVE  LegalStep
<1> DEFINE m == call_mncc_create(calls[c])
           t == start_cmd_timer(m, "RTP_CREATE")
           k == [t EXCEPT !.msc = "SETUP"]
<1>0. calls[c] = NoCall
    BY DEF check_setup
<1>1. m \in CallRec /\ m.mncc = "INITIAL" /\ m.orig = "MNCC" /\ m.sip = "NONE" /\ ~m.nh /\ m.txn = {}
    BY <1>0, NoCallFields DEF call_mncc_create, CallRec, LegType, MnccState
<1> HIDE DEF m
<1>2. t \in CallRec /\ t.mncc = "INITIAL" /\ t.orig = "MNCC" /\ t.sip = "NONE" /\ ~t.nh /\ t.txn = {}
    BY <1>1, StartTimerFields DEF Wanted
<1> HIDE DEF t
<1>3. k \in CallRec /\ k.mncc = "INITIAL" /\ k.orig = "MNCC" /\ k.sip = "NONE" /\ ~k.nh /\ k.txn = {}
    BY <1>2 DEF CallRec, MscState
<1> HIDE DEF k
<1>4. Base(k)
    BY <1>3 DEF Base, HasMncc, HasSip, BothLegs
<1>5. Legal(calls[c], Ask(k, "RTP_CREATE"))
  <2> DEFINE a == Ask(k, "RTP_CREATE")
  <2>1. a.mncc = "INITIAL"
      BY <1>3, AskFields DEF MscRequest
  <2> HIDE DEF a
  <2>2. Phase(calls[c]) = "idle"
      BY <1>0, NoCallFields DEF Phase
  <2>3. Legal(calls[c], a)
      BY <1>0, <2>1, <2>2, NoCallFields, Alive DEF HasMncc, HasSip, Talking
  <2>4. QED BY <2>3 DEF a
<1>6. Done(c, Ask(k, "RTP_CREATE")) \/ WriteFails(c, k)
    BY DEF check_setup, k, t, m
<1>7. QED BY <1>4, <1>5, <1>6, DoneLegal, FailLegal

\* The reply to an RTP message for a leg that is gone or in release changes no leg.
LEMMA RejectLegal ==
    ASSUME IInv, NEW c \in CallId, NEW k, Base(k), RejectRtp(c, k),
           k.orig = calls[c].orig, k.mncc = calls[c].mncc, k.rel = calls[c].rel,
           k.sip = calls[c].sip
    PROVE  LegalStep
<1>1. Legal(calls[c], Ask(k, "REJ_REQ"))
    BY AskFields, SameLegs DEF MscRequest, Base
<1>2. QED BY <1>1, DoneLegal, FailLegal DEF RejectRtp

\* check_rtp_create routes a call that is still in set-up, or changes no leg.
LEMMA CheckRtpCreateLegal ==
    ASSUME IInv, NEW c \in CallId, check_rtp_create(c)
    PROVE  LegalStep
<1> DEFINE v == calls[c]
           k == Answered(v, "RTP_CREATE")
           s == stop_cmd_timer(k, "RTP_CREATE")
           p == [s EXCEPT !.mncc = "PROCEEDING"]
           i == [p EXCEPT !.sip = "INITIAL", !.nh = TRUE]
<1>0. Good(conn, v) /\ "RTP_CREATE" \in v.req
    BY DEF IInv, check_rtp_create
<1>1. \/ RejectRtp(c, k)
      \/ mncc_find_leg_not_released(k) /\ k.orig = "MNCC" /\ continue_mo_call(c, s)
      \/ Done(c, s)
    BY DEF check_rtp_create
<1>2. /\ k \in CallRec /\ Base(k)
      /\ k.orig = v.orig /\ k.mncc = v.mncc /\ k.rel = v.rel /\ k.sip = v.sip
    BY <1>0, AnsweredFields, AnsweredGood DEF Good, Base
<1> HIDE DEF k
<1>3. /\ s \in CallRec
      /\ s.orig = v.orig /\ s.mncc = v.mncc /\ s.rel = v.rel /\ s.sip = v.sip
      /\ s.nh = k.nh /\ s.txn = k.txn
    BY <1>2, StopTimerFields
<1> HIDE DEF s
<1>4. CASE RejectRtp(c, k)
    BY <1>2, <1>4, RejectLegal
<1>5. CASE Done(c, s)
    BY <1>3, <1>5, SameLegs, DoneLegal
<1>6. CASE mncc_find_leg_not_released(k) /\ k.orig = "MNCC" /\ continue_mo_call(c, s)
  <2>1. v.mncc = "INITIAL" /\ v.orig = "MNCC" /\ v.sip = "NONE" /\ ~v.rel /\ Phase(v) = "setup"
      BY <1>0, <1>2, <1>6 DEF mncc_find_leg_not_released, Good, Base, Waiting, HasMncc, HasSip,
         Phase, Talking
  <2>2. Base(s)
      BY <1>2, <1>3, <2>1 DEF Base, HasMncc, HasSip, BothLegs
  <2>3. Base(p) /\ p.mncc = "PROCEEDING" /\ p \in CallRec
      BY <1>3, <2>1, <2>2 DEF Base, HasMncc, HasSip, BothLegs, CallRec, MnccState
  <2> HIDE DEF p
  <2>4. i \in CallRec /\ i.mncc = "PROCEEDING"
      BY <2>3 DEF CallRec, SipState
  <2> HIDE DEF i
  <2>5. Legal(v, nua_invite(i))
    <3> DEFINE n == nua_invite(i)
    <3>1. n.mncc = "PROCEEDING"
        BY <2>4, InviteFields
    <3> HIDE DEF n
    <3>2. Legal(v, n)
        BY <2>1, <3>1, Alive DEF HasMncc, HasSip
    <3>3. QED BY <3>2 DEF n
  <2>6. Done(c, nua_invite(i)) \/ release_mncc(c, p) \/ WriteFailsLegUsed(c, s)
      BY <1>6 DEF continue_mo_call, route_to_sip, sip_create_remote_leg, p, i
  <2>7. QED BY <2>2, <2>3, <2>5, <2>6, DoneLegal, ReleaseLegal, FailLegal DEF HasMncc
<1>7. QED BY <1>1, <1>4, <1>5, <1>6

\* check_rtp_connect changes no leg, or releases both.
LEMMA CheckRtpConnectLegal ==
    ASSUME IInv, NEW c \in CallId, NEW ok, check_rtp_connect(c, ok)
    PROVE  LegalStep
<1> DEFINE v == calls[c]
           k == Answered(v, "RTP_CONNECT")
           r == release_other_sip(k)
<1>1. \/ RejectRtp(c, k)
      \/ Done(c, k)
      \/ mncc_find_leg_not_released(k) /\ release_mncc(c, r)
    BY DEF check_rtp_connect
<1>2. /\ Base(k)
      /\ k.orig = v.orig /\ k.mncc = v.mncc /\ k.rel = v.rel /\ k.sip = v.sip
    BY AnsweredFields, AnsweredGood DEF IInv, Good, Base
<1> HIDE DEF k
<1>3. ASSUME HasMncc(k) PROVE Base(r) /\ HasMncc(r)
    BY <1>2, <1>3, ReleaseOtherSip DEF HasMncc
<1> HIDE DEF r
<1>4. QED BY <1>1, <1>2, <1>3, RejectLegal, SameLegs, DoneLegal, ReleaseLegal
          DEF mncc_find_leg_not_released

\* check_disc_ind: the call is clearing, and the MNCC leg stays.
LEMMA CheckDiscIndLegal ==
    ASSUME IInv, NEW c \in CallId, check_disc_ind(c)
    PROVE  LegalStep
<1> DEFINE t == start_cmd_timer(calls[c], "REL_CNF")
           k == [t EXCEPT !.rel = TRUE, !.msc = "DISC"]
           a == Ask(k, "REL_REQ")
           r == release_other_sip(a)
<1> USE DEF Base, HasMncc, HasSip, BothLegs, SipClearing
<1>1. Base(calls[c]) /\ HasMncc(calls[c])
    BY DEF IInv, Good, check_disc_ind, ForLeg
<1>2. Base(t) /\ HasMncc(t)
    BY <1>1, StartTimerFields DEF Wanted
<1> HIDE DEF t
<1>3. Base(k) /\ HasMncc(k) /\ k.rel
    BY <1>2 DEF CallRec, MscState
<1> HIDE DEF k
<1>4. Base(a) /\ HasMncc(a) /\ a.rel
    BY <1>3, AskFields DEF MscRequest
<1> HIDE DEF a
<1>5. r.rel /\ HasMncc(r)
    BY <1>4, ReleaseOtherSip
<1> HIDE DEF r
<1>6. Done(c, r) \/ WriteFailsLegUsed(c, k)
    BY DEF check_disc_ind, r, a, k, t
<1>7. QED BY <1>3, <1>5, <1>6, InRelease, DoneLegal, FailLegal

\* Where the MSC has released its side, the leg may be freed at once.
LEMMA MscReleased ==
    ASSUME NEW v, Base(v), HasMncc(v)
    PROVE  /\ Legal(v, mncc_leg_release(MscGone(v)))
           /\ Legal(v, mncc_leg_release(release_other_sip(MscGone(v))))
<1> DEFINE k == MscGone(v)
           r == release_other_sip(k)
<1>1. Base(k) /\ HasMncc(k) /\ k.msc = "NONE"
    BY MscGoneFields DEF Base, HasMncc, HasSip, BothLegs, SipClearing
<1> HIDE DEF k
<1>2. r \in CallRec /\ r.msc = "NONE"
    BY <1>1, ReleaseOtherSip DEF Base
<1> HIDE DEF r
<1>3. Legal(v, mncc_leg_release(k)) /\ Legal(v, mncc_leg_release(r))
    BY <1>1, <1>2, FreeMnccFields, BothGone DEF Base
<1>4. QED BY <1>3 DEF k, r

\* REL_IND, REL_CNF and REJ_IND free the leg of a call the MSC has released.
LEMMA MscReleaseLegal ==
    ASSUME IInv, NEW c \in CallId, check_rel_ind(c) \/ check_rel_cnf(c) \/ check_rej_ind(c)
    PROVE  LegalStep
<1> DEFINE v == calls[c]
<1>1. Base(v) /\ HasMncc(v)
    BY DEF IInv, Good, check_rel_ind, check_rel_cnf, check_rej_ind
<1>2. \/ Done(c, mncc_leg_release(MscGone(v)))
      \/ Done(c, mncc_leg_release(release_other_sip(MscGone(v))))
    BY DEF check_rel_ind, check_rel_cnf, check_rej_ind
<1>3. QED BY <1>1, <1>2, MscReleased, DoneLegal

\* A call with both legs that are not in release is in set-up or answered.
LEMMA UpLegal ==
    ASSUME NEW k, BothLegs(k), ~k.rel, k.orig # "NONE",
           NEW l, BothLegs(l), Talking(l) \/ ~Talking(k)
    PROVE  Legal(k, l)
<1>1. Phase(k) = IF Talking(k) THEN "answered" ELSE "setup"
    BY DEF Phase
<1>2. Talking(l) => Phase(l) # "setup"
    BY DEF Phase
<1>3. QED BY <1>1, <1>2 DEF Legal, Ahead, Remembered, Told, BothLegs

\* check_stp_cmpl_ind answers a call in set-up; a call that is being cleared stays so.
LEMMA CheckStpCmplIndLegal ==
    ASSUME IInv, NEW c \in CallId, check_stp_cmpl_ind(c)
    PROVE  LegalStep
<1> USE DEF HasMncc, HasSip, BothLegs, Talking
<1> DEFINE v == calls[c]
           k == Answered(v, "SETUP_RSP")
           s == stop_cmd_timer(k, "SETUP_COMPL_IND")
           t == [s EXCEPT !.mncc = "CONNECTED", !.msc = "TALK"]
<1>0. /\ Good(conn, v) /\ HasMncc(v) /\ v.msc = "SETUP" /\ "SETUP_RSP" \in v.req
    BY DEF IInv, check_stp_cmpl_ind, ForLeg
<1>1. v \in CallRec /\ v.orig = "MNCC" /\ v.mncc = "PROCEEDING"
    BY <1>0 DEF Good, Base, Waiting
<1>2. k \in CallRec /\ k.orig = v.orig /\ k.rel = v.rel /\ k.sip = v.sip
    BY <1>1, AnsweredFields
<1> HIDE DEF k
<1>3. s \in CallRec /\ s.orig = v.orig /\ s.rel = v.rel /\ s.sip = v.sip
    BY <1>2, StopTimerFields
<1> HIDE DEF s
<1>4. t.orig = "MNCC" /\ t.rel = v.rel /\ t.sip = v.sip /\ t.mncc = "CONNECTED"
    BY <1>1, <1>3 DEF CallRec
<1>5. Done(c, t)
    BY DEF check_stp_cmpl_ind, t, s, k
<1> HIDE DEF t, v
<1>6. Legal(v, t)
  <2>1. CASE v.rel
      BY <1>4, <2>1, InRelease
  <2>2. CASE ~v.rel /\ HasSip(v)
      BY <1>1, <1>4, <2>2, UpLegal
  <2>3. CASE ~HasSip(v)
    <3>1. Phase(t) = "clearing"
        BY <1>4, <2>3 DEF Phase
    <3>2. QED BY <1>4, <2>3, <3>1 DEF Legal, Ahead, Remembered, Told
  <2>4. QED BY <2>1, <2>2, <2>3
<1>7. QED BY <1>5, <1>6, DoneLegal DEF v

\* check_cnf_ind changes no leg.
LEMMA CheckCnfIndLegal ==
    ASSUME IInv, NEW c \in CallId, check_cnf_ind(c)
    PROVE  LegalStep
<1> DEFINE v == calls[c]
           a == Answered(v, "SETUP_REQ")
           k == start_cmd_timer(a, "RTP_CREATE")
           q == Ask(k, "RTP_CREATE")
<1>0. Base(v) /\ HasMncc(v)
    BY DEF IInv, Good, check_cnf_ind
<1>1. /\ a \in CallRec /\ a.orig = v.orig /\ a.mncc = v.mncc /\ a.rel = v.rel /\ a.sip = v.sip
      /\ a.nh = v.nh /\ a.txn = v.txn
    BY <1>0, AnsweredFields DEF Base
<1> HIDE DEF a
<1>2. /\ k \in CallRec /\ k.orig = v.orig /\ k.mncc = v.mncc /\ k.rel = v.rel /\ k.sip = v.sip
      /\ k.nh = v.nh /\ k.txn = v.txn
    BY <1>1, StartTimerFields DEF Wanted
<1>3. Done(c, q) \/ WriteFails(c, k)
    BY DEF check_cnf_ind, k, a
<1> HIDE DEF k
<1>4. q.orig = v.orig /\ q.mncc = v.mncc /\ q.rel = v.rel /\ q.sip = v.sip
    BY <1>2, AskFields DEF MscRequest
<1>5. Base(k)
    BY <1>0, <1>2 DEF Base, HasMncc, HasSip, BothLegs
<1> HIDE DEF q
<1>6. QED BY <1>3, <1>4, <1>5, SameLegs, DoneLegal, FailLegal

\* check_alrt_ind changes no leg, or releases the MNCC leg that is alone.
LEMMA CheckAlrtIndLegal ==
    ASSUME IInv, NEW c \in CallId, check_alrt_ind(c)
    PROVE  LegalStep
<1>1. Base(calls[c]) /\ HasMncc(calls[c])
    BY DEF IInv, Good, check_alrt_ind, ForLeg
<1>2. QED BY <1>1, SameLegs, DoneLegal, ReleaseLegal DEF check_alrt_ind

\* check_stp_cnf answers a call in set-up; a call that is being cleared stays so.
LEMMA CheckStpCnfLegal ==
    ASSUME IInv, NEW c \in CallId, check_stp_cnf(c)
    PROVE  LegalStep
<1> USE DEF HasMncc, HasSip, BothLegs, Talking
<1> DEFINE v == calls[c]
           k == [v EXCEPT !.msc = "TALK"]
           q == Ask(k, "RTP_CONNECT")
           a == [q EXCEPT !.mncc = "CONNECTED"]
           b == sip_connect_call(a)
<1>1. Good(conn, v) /\ HasMncc(v) /\ v.mncc \in {"INITIAL", "PROCEEDING"} /\ v.orig # "NONE"
    BY DEF IInv, check_stp_cnf, ForLeg, Good, Waiting
<1>2. /\ k \in CallRec /\ k.orig = v.orig /\ k.mncc = v.mncc /\ k.rel = v.rel /\ k.sip = v.sip
      /\ k.nh = v.nh /\ k.txn = v.txn /\ k.timer = v.timer
    BY <1>1 DEF Good, Base, CallRec, MscState
<1>3. \/ ~HasSip(k) /\ release_mncc(c, k)
      \/ HasSip(k) /\ Done(c, b)
      \/ HasSip(k) /\ WriteFailsLegUsed(c, k)
    BY DEF check_stp_cnf
<1> HIDE DEF k, v
<1>4. Base(k)
    BY <1>1, <1>2 DEF Good, Base, SipClearing
<1>5. q \in CallRec /\ q.rel = v.rel
    BY <1>2, AskFields DEF MscRequest
<1> HIDE DEF q
<1>6. b.mncc = "CONNECTED" /\ b.sip = "CONNECTED" /\ b.rel = v.rel
    BY <1>5 DEF sip_connect_call, CallRec
<1> HIDE DEF b
<1>7. ASSUME HasSip(k) PROVE Legal(v, b)
  <2>1. CASE v.rel
      BY <1>6, <2>1, InRelease
  <2>2. CASE ~v.rel
      BY <1>1, <1>2, <1>6, <1>7, <2>2, UpLegal
  <2>3. QED BY <2>1, <2>2
<1>8. QED BY <1>1, <1>2, <1>3, <1>4, <1>7, ReleaseLegal, DoneLegal, FailLegal DEF v

\* check_hold_ind and check_retrieve_ind leave an answered call answered and bring no
\* call back that is being cleared.
LEMMA HoldLegal ==
    ASSUME NEW v, Base(v), BothLegs(v),
           NEW l, Talking(l), l.rel = v.rel
    PROVE  Legal(v, l)
<1>1. CASE v.rel
    BY <1>1, InRelease DEF Talking, HasMncc
<1>2. CASE ~v.rel
    BY <1>2, UpLegal DEF Base, Talking, HasMncc, HasSip, BothLegs
<1>3. QED BY <1>1, <1>2

\* check_hold_ind: both legs go on hold, or none.
LEMMA CheckHoldIndLegal ==
    ASSUME IInv, NEW c \in CallId, check_hold_ind(c)
    PROVE  LegalStep
<1> USE DEF HasMncc, HasSip, BothLegs
<1> DEFINE k == calls[c]
           i == nua_invite(k)
           h == [i EXCEPT !.sip = "HOLD"]
           d == [h EXCEPT !.mncc = "HOLD", !.msc = "HELD"]
<1>1. Base(k) /\ HasMncc(k)
    BY DEF IInv, Good, check_hold_ind, ForLeg
<1>2. \/ ~HasSip(k) /\ Done(c, k)
      \/ ~HasSip(k) /\ WriteFails(c, k)
      \/ HasSip(k) /\ Done(c, d)
      \/ HasSip(k) /\ WriteFailsLegUsed(c, h)
    BY DEF check_hold_ind, sip_hold_call
<1>3. /\ i \in CallRec /\ i.rel = k.rel /\ i.orig = k.orig /\ i.mncc = k.mncc /\ i.nh = k.nh
      /\ i.timer = k.timer
    BY <1>1, InviteFields DEF Base
<1> HIDE DEF i
<1>4. ASSUME HasSip(k) PROVE Base(h)
    BY <1>1, <1>3, <1>4 DEF Base, CallRec, SipState
<1>5. d.mncc = "HOLD" /\ d.sip = "HOLD" /\ d.rel = k.rel
    BY <1>3 DEF CallRec
<1> HIDE DEF d, h
<1>6. ASSUME HasSip(k) PROVE Legal(k, d)
    BY <1>1, <1>5, <1>6, HoldLegal DEF Talking
<1>7. QED BY <1>1, <1>2, <1>4, <1>6, SameLegs, DoneLegal, FailLegal

\* check_retrieve_ind: both legs are connected again, or the MNCC leg is released.
LEMMA CheckRetrieveIndLegal ==
    ASSUME IInv, NEW c \in CallId, check_retrieve_ind(c)
    PROVE  LegalStep
<1> USE DEF HasMncc, HasSip, BothLegs
<1> DEFINE v == calls[c]
           k == [v EXCEPT !.msc = "TALK"]
           i == nua_invite(k)
           r == [i EXCEPT !.sip = "CONNECTED"]
           d == [r EXCEPT !.mncc = "CONNECTED"]
           q == Ask(d, "RTP_CONNECT")
<1>1. Base(v) /\ HasMncc(v)
    BY DEF IInv, Good, check_retrieve_ind, ForLeg
<1>2. /\ Base(k) /\ k.orig = v.orig /\ k.mncc = v.mncc /\ k.rel = v.rel /\ k.sip = v.sip
      /\ k.nh = v.nh
    BY <1>1 DEF Base, CallRec, MscState, SipClearing
<1>3. \/ ~HasSip(k) /\ release_mncc(c, k)
      \/ ~HasSip(k) /\ WriteFailsLegUsed(c, k)
      \/ HasSip(k) /\ Done(c, q)
      \/ HasSip(k) /\ WriteFailsLegUsed(c, r)
    BY DEF check_retrieve_ind, sip_retrieve_call
<1> HIDE DEF k
<1>4. /\ i \in CallRec /\ i.rel = v.rel /\ i.orig = v.orig /\ i.mncc = v.mncc /\ i.nh = v.nh
      /\ i.timer = k.timer
    BY <1>2, InviteFields DEF Base
<1> HIDE DEF i
<1>5. ASSUME HasSip(k) PROVE Base(r)
    BY <1>1, <1>2, <1>4, <1>5 DEF Base, CallRec, SipState
<1>6. d \in CallRec /\ d.mncc = "CONNECTED" /\ d.sip = "CONNECTED" /\ d.rel = v.rel
    BY <1>4 DEF CallRec, MnccState, SipState
<1> HIDE DEF d, r
<1>7. q.mncc = "CONNECTED" /\ q.sip = "CONNECTED" /\ q.rel = v.rel
    BY <1>6, AskFields DEF MscRequest
<1> HIDE DEF q
<1>8. ASSUME HasSip(k) PROVE Legal(v, q)
    BY <1>1, <1>2, <1>7, <1>8, HoldLegal DEF Talking
<1>9. QED BY <1>1, <1>2, <1>3, <1>5, <1>8, ReleaseLegal, DoneLegal, FailLegal

\* DTMF changes no leg.
LEMMA CheckDtmfLegal ==
    ASSUME IInv, NEW c \in CallId, check_dtmf(c)
    PROVE  LegalStep
BY SameLegs, DoneLegal, FailLegal DEF check_dtmf, IInv, Good

\* The MSC's forgetting a call changes no leg.
LEMMA MscDropsLegal ==
    ASSUME IInv, NEW c \in CallId, MscDropsCall(c)
    PROVE  LegalStep
<1>1. Legal(calls[c], MscGone(calls[c]))
    BY MscGoneFields, SameLegs DEF IInv
<1>2. QED BY <1>1, DoneLegal DEF MscDropsCall

\* cmd_timeout is the one way in which a call is dropped that the MSC may still have.
LEMMA TimeoutLegal ==
    ASSUME IInv, NEW c \in CallId, CmdTimeout(c)
    PROVE  LegalStep
<1> DEFINE k == calls[c]
           r == release_other_sip(k)
           f == mncc_leg_release(r)
<1>1. Base(k) /\ HasMncc(k) /\ k.timer
    BY DEF IInv, CmdTimeout, Good, Base
<1>2. Done(c, f)
    BY DEF CmdTimeout, cmd_timeout
<1>3. r \in CallRec
    BY <1>1, ReleaseOtherSip DEF Base
<1> HIDE DEF r
<1>4. f.mncc = "NONE"
    BY <1>3, FreeMnccFields
<1> HIDE DEF f
<1>5. Ahead(k, f) /\ Told(k, f)
    BY <1>4, EndPhase DEF Ahead, Told, HasMncc
<1>6. calls \in [CallId -> CallRec] /\ calls' = [calls EXCEPT ![c] = f]
    BY <1>2 DEF IInv, Done
<1>7. \A d \in CallId : d # c => Legal(calls[d], calls'[d])
    BY <1>6, SameLegs
<1>8. QED BY <1>5, <1>6, <1>7 DEF LegalStep, Legal, k

-----------------------------------------------------------------------------
(* Events of sofia-sip.                                                    *)

\* A call that loses its SIP leg is not in set-up or answered afterwards: a mobile
\* originated leg in initial state never had one.  The MNCC leg is left as it is.
LEMMA DropSipLegal ==
    ASSUME NEW v, Good(conn, v), HasSip(v)
    PROVE  /\ Ahead(v, DropSip(v)) /\ Remembered(v, DropSip(v))
           /\ HasMncc(v) => DropSip(v).rel = v.rel
           /\ HasMncc(DropSip(v)) => HasMncc(v)
<1> DEFINE d == DropSip(v)
<1>1. /\ d.mncc = v.mncc /\ d.sip = "NONE" /\ d.rel = v.rel
      /\ d.orig = IF HasMncc(v) THEN v.orig ELSE "NONE"
    BY DropSipFields DEF Good, Base
<1> HIDE DEF d
<1>2. HasMncc(v) => ~(v.orig = "MNCC" /\ v.mncc = "INITIAL")
    BY DEF Good, Waiting
<1>3. Phase(d) \in {"idle", "clearing"}
    BY <1>1, <1>2 DEF Phase, Talking, BothLegs, HasSip, HasMncc
<1>4. QED BY <1>1, <1>3 DEF Ahead, Remembered, HasMncc, d

\* The answer to our BYE or CANCEL ends the SIP leg; the MNCC leg is gone or in release.
LEMMA ByeLegal ==
    ASSUME IInv, NEW c \in CallId, nua_r_bye(c) \/ nua_r_cancel(c)
    PROVE  LegalStep
<1>1. Good(conn, calls[c]) /\ HasSip(calls[c])
    BY DEF IInv, nua_r_bye, nua_r_cancel, Good, Base
<1>2. HasMncc(calls[c]) => calls[c].rel
    BY <1>1 DEF nua_r_bye, nua_r_cancel, Good, Cleared, SipClearing, BothLegs
<1>3. Legal(calls[c], DropSip(calls[c]))
    BY <1>1, <1>2, DropSipLegal DEF Legal, Told
<1>4. QED BY <1>3, DoneLegal DEF nua_r_bye, nua_r_cancel

\* nua_callback drops the SIP leg and releases the other one.
LEMMA HangupLegal ==
    ASSUME IInv, NEW c \in CallId, NEW k, Good(conn, k), k.mncc = calls[c].mncc,
           release_other_mncc(c, DropSip(k))
    PROVE  LegalStep
<1> DEFINE d == DropSip(k)
<1>1. Base(d) /\ d.mncc = k.mncc
    BY DropSipGood, DropSipFields DEF Good, Base
<1>2. IF HasMncc(d) THEN release_mncc(c, d) ELSE Done(c, d)
    BY DEF release_other_mncc
<1> HIDE DEF d
<1>3. CASE HasMncc(d)
    BY <1>1, <1>2, <1>3, ReleaseLegal
<1>4. CASE ~HasMncc(d)
    BY <1>1, <1>2, <1>4, StillGone, DoneLegal DEF HasMncc
<1>5. QED BY <1>3, <1>4

\* The dialogue of a SIP leg is confirmed, or nothing happens to the legs.
LEMMA ConfirmLegal ==
    ASSUME NEW v, NEW l, l.orig = v.orig, l.mncc = v.mncc, l.rel = v.rel,
           l.sip = v.sip \/ (v.sip = "INITIAL" /\ l.sip = "DLG_CNFD")
    PROVE  Legal(v, l)
<1>1. Phase(l) = Phase(v)
    BY DEF Phase, Talking, BothLegs, HasMncc, HasSip
<1>2. QED BY <1>1, PhaseType DEF Legal, Ahead, Remembered, Told, HasMncc, HasSip

\* A 200 for an INVITE of ours does not answer the call yet, let alone one that is being
\* cleared: SETUP_COMPL_IND does.
LEMMA ConnectLegal ==
    ASSUME IInv, NEW c \in CallId, NEW k, Good(conn, k), k.nh, k.orig = "MNCC",
           k.sip = "DLG_CNFD", NEW audio, call_connect(c, k, audio),
           calls[c].mncc = k.mncc, calls[c].orig = k.orig, calls[c].rel = k.rel,
           calls[c].sip \in {"INITIAL", "DLG_CNFD"}
    PROVE  LegalStep
<1> USE DEF HasMncc, HasSip, BothLegs
<1> DEFINE n == nua_cancel(k)
           a == [k EXCEPT !.sip = "CONNECTED"]
           q == Ask(a, "RTP_CONNECT")
           t == start_cmd_timer(q, "SETUP_COMPL_IND")
           z == Ask(t, "SETUP_RSP")
<1>1. \/ ~HasMncc(k) /\ Done(c, n)
      \/ HasMncc(k) /\ release_mncc(c, n)
      \/ HasMncc(k) /\ Done(c, z)
      \/ HasMncc(k) /\ WriteFailsLegUsed(c, a)
      \/ HasMncc(k) /\ WriteFails(c, a)
    BY DEF call_connect, mncc_call_leg_connect
<1>2. Base(n) /\ n.mncc = k.mncc
    BY CancelFields DEF Good, Base, SipClearing
<1> HIDE DEF n
<1>3. /\ a \in CallRec /\ a.mncc = k.mncc /\ a.rel = k.rel /\ a.orig = k.orig /\ a.nh = k.nh
      /\ a.txn = k.txn /\ a.timer = k.timer /\ a.sip = "CONNECTED"
    BY DEF Good, Base, CallRec, SipState
<1> HIDE DEF a
<1>4. ASSUME HasMncc(k) PROVE Base(a)
    BY <1>3, <1>4 DEF Good, Base
<1>5. q \in CallRec /\ q.mncc = k.mncc /\ q.rel = k.rel /\ q.sip = "CONNECTED"
    BY <1>3, AskFields DEF MscRequest
<1> HIDE DEF q
<1>6. t \in CallRec /\ t.mncc = k.mncc /\ t.rel = k.rel /\ t.sip = "CONNECTED"
    BY <1>5, StartTimerFields DEF Wanted
<1> HIDE DEF t
<1>7. z.mncc = k.mncc /\ z.rel = k.rel /\ z.sip = "CONNECTED"
    BY <1>6, AskFields DEF MscRequest
<1> HIDE DEF z
<1>8. ASSUME HasMncc(k) PROVE Legal(calls[c], z)
  <2>1. CASE k.rel
      BY <1>7, <1>8, <2>1, InRelease
  <2>2. CASE ~k.rel
      BY <1>7, <1>8, <2>2, UpLegal DEF Talking
  <2>3. QED BY <2>1, <2>2
<1>9. QED
    BY <1>1, <1>2, <1>4, <1>8, StillGone, DoneLegal, ReleaseLegal, FailLegal

\* Every response to an INVITE of ours, also one that races our CANCEL.
LEMMA InviteResponseLegal ==
    ASSUME IInv, NEW c \in CallId, NEW ok,
           \/ nua_r_invite_progress(c, ok) \/ nua_r_invite_trying(c)
           \/ nua_r_invite_ok(c, ok) \/ nua_r_invite_fail(c)
    PROVE  LegalStep
<1> USE DEF HasMncc, HasSip, BothLegs
<1> DEFINE v == calls[c]
           k == Confirmed(v)
           q == Ask(k, "RTP_CONNECT")
           f == [k EXCEPT !.txn = @ \ {"INVITE"}]
           up == f.sip \in {"CONNECTED", "HOLD"}
<1>0. Good(conn, v) /\ v.nh /\ "INVITE" \in v.txn
    BY DEF IInv, InviteAnswered, nua_r_invite_progress, nua_r_invite_trying, nua_r_invite_ok,
       nua_r_invite_fail
<1>1. \/ call_progress(c, k, ok) \/ Done(c, k)
      \/ Done(c, f)
      \/ ~up /\ call_connect(c, f, ok)
      \/ release_other_mncc(c, DropSip(k))
    BY DEF nua_r_invite_progress, nua_r_invite_trying, nua_r_invite_ok, nua_r_invite_fail
<1> HIDE DEF v
<1>2. /\ k \in CallRec /\ k.mncc = v.mncc /\ k.nh = v.nh /\ k.orig = v.orig
      /\ k.rel = v.rel /\ k.timer = v.timer /\ k.req = v.req /\ k.want = v.want
      /\ k.txn = v.txn /\ k.msc = v.msc
      /\ (v.sip = "INITIAL" /\ k.sip = "DLG_CNFD") \/ (v.sip # "INITIAL" /\ k.sip = v.sip)
    BY <1>0 DEF Good, Base, Confirmed, CallRec, SipState
<1> HIDE DEF k
<1>3. Good(conn, k)
    BY <1>0, <1>2 DEF Good, Base, Cleared, Synced, Waiting, OnConn, SipClearing, Talking
<1>4. Legal(v, k)
    BY <1>2, ConfirmLegal
<1>5. q.orig = v.orig /\ q.mncc = v.mncc /\ q.rel = v.rel /\ q.sip = k.sip
    BY <1>2, AskFields DEF MscRequest
<1> HIDE DEF q
<1>6. Legal(v, q)
    BY <1>2, <1>5, ConfirmLegal
<1>7. /\ f \in CallRec /\ f.mncc = k.mncc /\ f.nh = k.nh /\ f.orig = k.orig
      /\ f.rel = k.rel /\ f.timer = k.timer /\ f.req = k.req /\ f.want = k.want
      /\ f.sip = k.sip /\ f.msc = k.msc /\ f.txn = k.txn \ {"INVITE"}
    BY <1>2 DEF CallRec
<1> HIDE DEF f
<1>8. Good(conn, f)
    BY <1>3, <1>7 DEF Good, Base, Cleared, Synced, Waiting, OnConn, SipClearing, Talking
<1>9. Legal(v, f)
    BY <1>2, <1>7, ConfirmLegal
<1>10. ~up => f.orig = "MNCC" /\ f.sip = "DLG_CNFD" /\ v.sip \in {"INITIAL", "DLG_CNFD"}
    BY <1>0, <1>2, <1>7 DEF Good, Base, CallRec, SipState, LegType
<1>11. CASE call_progress(c, k, ok)
    BY <1>3, <1>4, <1>6, <1>11, DoneLegal, FailLegal
       DEF call_progress, mncc_call_leg_ring, Good, q, v
<1>12. CASE ~up /\ call_connect(c, f, ok)
    BY <1>0, <1>2, <1>7, <1>8, <1>10, <1>12, ConnectLegal DEF v
<1>13. CASE release_other_mncc(c, DropSip(k))
    BY <1>2, <1>3, <1>13, HangupLegal DEF v
<1>14. QED BY <1>1, <1>4, <1>9, <1>11, <1>12, <1>13, DoneLegal DEF v

\* new_call starts from an idle slot.
LEMMA NewCallLegal ==
    ASSUME IInv, NEW c \in CallId, NEW fate, new_call(c, fate)
    PROVE  LegalStep
<1> USE DEF HasMncc, HasSip, BothLegs
<1> DEFINE k == call_sip_create(calls[c])
           l == [k EXCEPT !.sip = "DLG_CNFD", !.nh = TRUE]
           d == DropSip(l)
           m == mncc_create_remote_leg(l)
<1>0. calls[c] = NoCall /\ Phase(calls[c]) = "idle" /\ calls[c].mncc = "NONE"
    BY NoCallFields DEF new_call, Phase
<1>1. k \in CallRec /\ k.orig = "SIP" /\ k.sip = "INITIAL" /\ k.mncc = "NONE"
    BY <1>0, NoCallFields DEF call_sip_create, CallRec, LegType, SipState
<1>2. \/ Done(c, k)
      \/ Done(c, m)
      \/ WriteFails(c, sip_release_call(l))
      \/ Done(c, d) \/ Done(c, sip_release_call(l))
    BY DEF new_call, route_to_mncc
<1> HIDE DEF k
<1>3. l \in CallRec /\ l.orig = "SIP" /\ l.sip = "DLG_CNFD" /\ l.mncc = "NONE"
    BY <1>1 DEF CallRec, SipState
<1> HIDE DEF l
<1>4. d.mncc = "NONE" /\ sip_release_call(l) = d
  <2>1. d.mncc = "NONE"
      BY <1>3, DropSipFields
  <2>2. QED BY <1>3, <2>1 DEF sip_release_call
<1>5. Base(d)
  <2>1. /\ d \in CallRec /\ d.orig = "NONE" /\ d.mncc = "NONE" /\ d.sip = "NONE" /\ ~d.nh
        /\ d.txn = {} /\ d.rel = l.rel /\ d.timer = l.timer
      BY <1>3, DropSipFields
  <2>2. l.rel = FALSE /\ l.timer = FALSE
      BY <1>0, NoCallFields DEF l, k, call_sip_create, CallRec
  <2> HIDE DEF d
  <2>3. QED BY <2>1, <2>2 DEF Base
<1> HIDE DEF d
<1>6. m.mncc = "INITIAL"
    BY <1>3 DEF mncc_create_remote_leg, CallRec
<1> HIDE DEF m
<1>7. /\ Legal(calls[c], k) /\ Legal(calls[c], d)
    BY <1>0, <1>1, <1>4, StillGone
<1>8. Legal(calls[c], m)
    BY <1>0, <1>6, NoCallFields, Alive DEF Talking
<1>9. QED BY <1>2, <1>4, <1>5, <1>7, <1>8, DoneLegal, FailLegal

\* A re-INVITE changes no leg that has another one, except for an unusable SDP, which
\* frees the SIP leg.
LEMMA ReinviteLegal ==
    ASSUME IInv, NEW c \in CallId, NEW fate, sip_handle_reinvite(c, fate)
    PROVE  LegalStep
<1> DEFINE k == calls[c]
           q == Ask(k, "RTP_CONNECT")
           b == nua_bye(k)
<1>1. Good(conn, k) /\ k.nh /\ k.sip \in {"CONNECTED", "HOLD"}
    BY DEF IInv, sip_handle_reinvite
<1>2. \/ Done(c, b) \/ Done(c, k) \/ Done(c, q)
      \/ fate = "no_audio" /\ Done(c, DropSip(k))
      \/ WriteFailsLegUsed(c, k)
    BY <1>1 DEF sip_handle_reinvite, update_rtp, sip_release_call
<1> HIDE DEF k
<1>3. /\ b.orig = k.orig /\ b.mncc = k.mncc /\ b.rel = k.rel /\ b.sip = k.sip
      /\ q.orig = k.orig /\ q.mncc = k.mncc /\ q.rel = k.rel /\ q.sip = k.sip
    BY <1>1, ByeFields, AskFields DEF Good, Base, MscRequest
<1> HIDE DEF q, b
<1>4. Legal(k, b) /\ Legal(k, q) /\ Legal(k, k)
    BY <1>3, SameLegs
<1>5. CASE fate = "no_audio" /\ Done(c, DropSip(k))
  <2>1. Ahead(k, DropSip(k)) /\ Remembered(k, DropSip(k))
      BY <1>1, DropSipLegal DEF HasSip
  <2>2. calls \in [CallId -> CallRec] /\ calls' = [calls EXCEPT ![c] = DropSip(k)]
      BY <1>5 DEF IInv, Done
  <2>3. \A d \in CallId : d # c => Legal(calls[d], calls'[d])
      BY <2>2, SameLegs
  <2>4. sip_handle_reinvite(c, "no_audio")
      BY <1>5
  <2>5. QED BY <2>1, <2>2, <2>3, <2>4 DEF LegalStep, Legal, k
<1>6. QED BY <1>1, <1>2, <1>4, <1>5, DoneLegal, FailLegal DEF Good, k

-----------------------------------------------------------------------------
(* The connection and the VTY.                                             *)

\* What happens to the connection ends calls or leaves them alone.
LEMMA ConnectionLegal ==
    ASSUME IInv, mncc_reconnect_ok \/ mncc_reconnect_fail \/ check_hello \/ mncc_data_bad
    PROVE  LegalStep
<1>1. CASE mncc_data_bad
  <2>1. \A d \in CallId : calls'[d].mncc = "NONE" /\ calls'[d].msc = "NONE"
      BY <1>1, DisconnectEnds DEF mncc_data_bad, IInv, Good
  <2>2. QED BY <2>1, BothGone DEF LegalStep, Legal
<1>2. CASE UNCHANGED calls
    BY <1>2, SameLegs DEF LegalStep, Legal
<1>3. QED BY <1>1, <1>2 DEF mncc_reconnect_ok, mncc_reconnect_fail, check_hello

\* The VTY commands leave the calls alone or kill the process.
LEMMA ShowCallsLegal ==
    ASSUME IInv, show_calls_sum \/ show_calls
    PROVE  LegalStep
<1>1. CASE Restart("null_pointer") \/ Restart("stale_name")
    BY <1>1, BothGone, NoCallFields DEF Restart, LegalStep, Legal
<1>2. CASE UNCHANGED calls
    BY <1>2, SameLegs DEF LegalStep, Legal
<1>3. QED BY <1>1, <1>2 DEF show_calls_sum, show_calls

-----------------------------------------------------------------------------
(* The theorems.                                                           *)

\* Every step of the event loop takes every call to a legal successor.
LEMMA NextLegal == IInv /\ [Next]_vars => LegalStep
<1> SUFFICES ASSUME IInv, [Next]_vars PROVE LegalStep
    OBVIOUS
<1>1. CASE UNCHANGED vars
    BY <1>1, SameLegs DEF vars, LegalStep, Legal
<1>2. CASE mncc_reconnect_ok \/ mncc_reconnect_fail \/ check_hello \/ mncc_data_bad
    BY <1>2, ConnectionLegal
<1>3. CASE show_calls_sum \/ show_calls
    BY <1>3, ShowCallsLegal
<1>4. ASSUME NEW c \in CallId, mncc_data(c) PROVE LegalStep
    BY <1>4, CheckSetupLegal, CheckRtpCreateLegal, CheckRtpConnectLegal, CheckDiscIndLegal,
       MscReleaseLegal, CheckStpCmplIndLegal, CheckCnfIndLegal, CheckAlrtIndLegal,
       CheckStpCnfLegal, CheckHoldIndLegal, CheckRetrieveIndLegal, CheckDtmfLegal DEF mncc_data
<1>5. ASSUME NEW c \in CallId, nua_callback(c) PROVE LegalStep
  <2>1. CASE nua_i_bye(c) \/ nua_i_cancel(c)
      BY <2>1, HangupLegal DEF IInv, nua_i_bye, nua_i_cancel
  <2>2. QED BY <1>5, <2>1, InviteResponseLegal, ByeLegal, NewCallLegal, ReinviteLegal
            DEF nua_callback
<1>6. ASSUME NEW c \in CallId, CmdTimeout(c) \/ MscDropsCall(c) PROVE LegalStep
    BY <1>6, TimeoutLegal, MscDropsLegal
<1>7. QED BY <1>1, <1>2, <1>3, <1>4, <1>5, <1>6 DEF Next

\* The connector forgets a call the MSC still has only in the step of its timeout, after
\* REJ_REQ, or before the MSC's hello.
THEOREM MscRemembered == Spec => MscNotForgotten
<1>1. IInv /\ [Next]_vars =>
        [\A c \in CallId :
            HasMncc(calls[c]) /\ ~HasMncc(calls'[c]) /\ calls'[c].msc # "NONE"
            => CmdTimeout(c) \/ conn # "READY" \/ "REJ_REQ" \in calls'[c].req]_vars
    BY NextLegal DEF LegalStep, Remembered
<1>2. QED BY <1>1, Invariance, PTL DEF Spec, MscNotForgotten

\* Only a re-INVITE without usable audio frees the SIP leg and leaves an MNCC leg that
\* is not in release.
THEOREM SubscriberTold == Spec => SubscriberNotForgotten
<1>1. IInv /\ [Next]_vars =>
        [\A c \in CallId :
            HasSip(calls[c]) /\ ~HasSip(calls'[c]) /\ HasMncc(calls'[c])
            => calls'[c].rel \/ sip_handle_reinvite(c, "no_audio")]_vars
    BY NextLegal DEF LegalStep, Told
<1>2. QED BY <1>1, Invariance, PTL DEF Spec, SubscriberNotForgotten

\* A call starts idle.
LEMMA LifecycleInit == Init => Lifecycle!Init
BY NoCallFields DEF Init, Lifecycle!Init, Phase

\* Every step of the event loop is a step of the life cycle of every call.
LEMMA LifecycleStep ==
    IInv /\ [Next]_vars => [Lifecycle!Next]_([c \in CallId |-> Phase(calls[c])])
<1> SUFFICES ASSUME IInv, [Next]_vars PROVE Lifecycle!Next
    OBVIOUS
<1>1. ASSUME NEW c \in CallId
      PROVE  Phase(calls'[c]) \in Lifecycle!Succ[Phase(calls[c])]
  <2>1. Ahead(calls[c], calls'[c])
      BY NextLegal DEF LegalStep
  <2>2. QED BY <2>1, PhaseType DEF Ahead, Lifecycle!Succ
<1>2. QED BY <1>1, PhaseType DEF Lifecycle!Next, Lifecycle!PhaseSet

\* The connector implements the life cycle of a call: a call that is being cleared is
\* never set up or answered again.
THEOREM ImplementsLifecycle == Spec => FollowsLifecycle
BY LifecycleInit, LifecycleStep, Invariance, PTL DEF Spec, FollowsLifecycle, Lifecycle!Spec
=============================================================================
