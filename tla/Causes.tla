------------------------------- MODULE Causes -------------------------------
(***************************************************************************)
(* Connector with the reasons for which calls end.  Every action is an     *)
(* action of Connector, with the cause or status the message carries.      *)
(*                                                                         *)
(* reason[c] has the cause field of the two legs                           *)
(*   sip, mncc                                                             *)
(* and, as ghosts that outlive the legs until the slot is used again,      *)
(*   given    the first cause the MSC gave for the end of the call         *)
(*   refused  the status sip_release_call sent to the SIP caller, 0 if none*)
(*   failed   the final status the SIP peer gave, 0 if none                *)
(*   told     the cause in the last DISC_REQ or REL_REQ, "none" if none    *)
(***************************************************************************)
EXTENDS Connector, CauseMap

CONSTANTS MscCause,     \* the causes the MSC may give
          PeerStatus    \* the final statuses, 300 and above, of the SIP peer

ASSUME StatusAssumption == PeerStatus \subseteq 300 .. 699

VARIABLE reason

cvars == <<conn, reconnect, calls, fault, reason>>

NoReason == [sip |-> "unset", mncc |-> "unset", given |-> "none", refused |-> 0,
             failed |-> 0, told |-> "none"]

CausesInit == Init /\ reason = [c \in CallId |-> NoReason]

-----------------------------------------------------------------------------
(* What handlers do to the reasons.                                        *)

\* sip_release_call of a leg in state DLG_CNFD that the peer has launched: the status
\* for the leg's cause.
Refuse(s) == [s EXCEPT !.refused = cause2status(s.sip)]

\* The INVITE of the peer was answered by sip_release_call, the call going from k to l.
RefuseIfDropped(k, l, s) ==
    IF k.orig = "SIP" /\ k.sip = "DLG_CNFD" /\ ~HasSip(l) THEN Refuse(s) ELSE s

\* A freed leg takes its cause along.
KeepCauses(l, s) == [s EXCEPT !.sip  = IF HasSip(l)  THEN @ ELSE "unset",
                              !.mncc = IF HasMncc(l) THEN @ ELSE "unset"]

\* The handler leaves the reasons of call c as s; other calls are refused when the
\* connection is lost.
Leave(c, s) ==
    reason' = [d \in CallId |->
        KeepCauses(calls'[d],
                   IF d = c THEN s ELSE RefuseIfDropped(calls[d], calls'[d], reason[d]))]

\* The same for a handler that may release the SIP leg of call c.
LeaveSip(c, s) == Leave(c, RefuseIfDropped(calls[c], calls'[c], s))

\* mncc_fill_header in a DISC_REQ or REL_REQ.
mncc_fill_header(s) == [s EXCEPT !.told = s.mncc]

\* mncc_call_leg_release of the MNCC leg of k, if the message can be written.
TellMsc(k, s) ==
    IF HasMncc(k) /\ conn' = "READY" /\ (k.mncc # "INITIAL" \/ k.orig = "SIP")
    THEN mncc_fill_header(s)
    ELSE s

\* The SIP leg, if there is one, gets the cause of the MSC.
Give(s, x) == [s EXCEPT !.sip = x, !.given = IF @ = "none" THEN x ELSE @]

-----------------------------------------------------------------------------
(* Messages of the MSC that carry a cause.                                 *)

\* check_disc_ind: REL_REQ has the cause of the MNCC leg; a failed write refuses the
\* caller before the cause is stored.
DiscInd(c, x) ==
    /\ check_disc_ind(c)
    /\ LeaveSip(c, IF conn' = "READY" THEN Give(mncc_fill_header(reason[c]), x) ELSE reason[c])

\* Mutant: check_rel_ind that stores the cause after it has released the SIP leg.
RelInd_late(c, x) ==
    /\ check_rel_ind(c)
    /\ LET s == RefuseIfDropped(calls[c], calls'[c], reason[c])
       IN  Leave(c, IF calls[c].rel THEN reason[c] ELSE Give(s, x))

RelInd(c, x) ==
    check_rel_ind(c) /\ LeaveSip(c, IF calls[c].rel THEN reason[c] ELSE Give(reason[c], x))

RejInd(c, x) == check_rej_ind(c) /\ LeaveSip(c, Give(reason[c], x))

-----------------------------------------------------------------------------
(* The other ways a call ends, or one of its messages ends the other leg.  *)

\* Mutant: the MNCC leg is released before it gets its cause.
InviteFails_late(c, st) ==
    /\ nua_r_invite_fail(c)
    /\ LET t == TellMsc(calls[c], [reason[c] EXCEPT !.failed = st])
       IN  Leave(c, [t EXCEPT !.mncc = status2cause(st)])

\* nua_r_invite with 300 or above: the MNCC leg gets the cause for the status.
InviteFails(c, st) ==
    /\ nua_r_invite_fail(c)
    /\ LET s == [reason[c] EXCEPT !.failed = st]
       IN  Leave(c, IF HasMncc(calls[c])
                    THEN TellMsc(calls[c], [s EXCEPT !.mncc = status2cause(st)])
                    ELSE s)

\* nua_i_bye, nua_i_cancel.
PeerEnds(c) == (nua_i_bye(c) \/ nua_i_cancel(c)) /\ Leave(c, TellMsc(calls[c], reason[c]))

\* nua_r_invite with 200 whose audio cannot be used: the MNCC leg is released.
InviteOk(c, audio) ==
    /\ nua_r_invite_ok(c, audio)
    /\ Leave(c, IF calls[c].sip \in {"CONNECTED", "HOLD"} \/ audio
                THEN reason[c] ELSE TellMsc(calls[c], reason[c]))

\* check_rtp_connect: a failure releases both legs.
RtpConnect(c, ok) ==
    /\ check_rtp_connect(c, ok)
    /\ LeaveSip(c, IF ok \/ ~mncc_find_leg_not_released(calls[c])
                   THEN reason[c] ELSE TellMsc(calls[c], reason[c]))

\* check_rtp_create of a mobile originated call that cannot be routed.
RtpCreate(c) ==
    /\ check_rtp_create(c)
    /\ LeaveSip(c, IF calls'[c].rel /\ ~calls[c].rel THEN mncc_fill_header(reason[c]) ELSE reason[c])

\* check_alrt_ind, check_stp_cnf, check_retrieve_ind: without SIP leg the MNCC leg is
\* released.
NoOtherLeg(c) ==
    /\ check_alrt_ind(c) \/ check_stp_cnf(c) \/ check_retrieve_ind(c)
    /\ LeaveSip(c, IF HasSip(calls[c]) THEN reason[c] ELSE TellMsc(calls[c], reason[c]))

\* check_setup and new_call; an INVITE that cannot be routed is refused.
SetUp(c) == check_setup(c) /\ Leave(c, NoReason)
CallerInvites(c, fate) ==
    /\ new_call(c, fate)
    /\ Leave(c, IF fate = "routed" /\ ~HasSip(calls'[c]) THEN Refuse(NoReason) ELSE NoReason)

\* The handlers that end no leg, or the SIP leg only, or both without a word to the MSC.
NoCause(c) ==
    /\ \/ check_rel_cnf(c) \/ check_stp_cmpl_ind(c) \/ check_cnf_ind(c) \/ check_hold_ind(c)
       \/ check_dtmf(c) \/ CmdTimeout(c) \/ MscDropsCall(c)
       \/ nua_r_bye(c) \/ nua_r_cancel(c) \/ nua_r_invite_trying(c)
       \/ \E known \in BOOLEAN : nua_r_invite_progress(c, known)
       \/ \E fate \in {"answered", "no_audio", "moved"} : sip_handle_reinvite(c, fate)
    /\ LeaveSip(c, reason[c])

\* The events of the connection.
Connection ==
    /\ mncc_reconnect_ok \/ mncc_reconnect_fail \/ check_hello \/ mncc_data_bad
    /\ reason' = [d \in CallId |->
           KeepCauses(calls'[d], RefuseIfDropped(calls[d], calls'[d], reason[d]))]

\* The VTY commands may end the process, but tell nobody.
VtyShows ==
    /\ show_calls_sum \/ show_calls
    /\ reason' = [d \in CallId |-> KeepCauses(calls'[d], reason[d])]

CausesNext ==
    \/ Connection
    \/ VtyShows
    \/ \E c \in CallId :
          \/ \E x \in MscCause : DiscInd(c, x) \/ RelInd(c, x) \/ RejInd(c, x)
          \/ \E st \in PeerStatus : InviteFails(c, st)
          \/ \E ok \in BOOLEAN : InviteOk(c, ok) \/ RtpConnect(c, ok)
          \/ PeerEnds(c) \/ RtpCreate(c) \/ NoOtherLeg(c) \/ SetUp(c) \/ NoCause(c)
          \/ \E fate \in {"malformed", "no_audio", "routed"} : CallerInvites(c, fate)

CausesSpec == CausesInit /\ [][CausesNext]_cvars

-----------------------------------------------------------------------------
(* Properties.                                                             *)

\* "The map is in priority order.  The first matching entry found will be used": row i
\* is the first with v in column col, or the last row if there is none.
FirstMatch(col, v, i) ==
    /\ i = Rows \/ cause_map[i][col] = v
    /\ \A j \in 1 .. i - 1 : cause_map[j][col] # v

\* A refused SIP caller is told the first cause the MSC gave, by the first row that has
\* it, and the default of the last row when the MSC gave none (a timeout, a lost
\* connection, a call that could not be routed).
CauseReachesCaller ==
    \A c \in CallId : LET s == reason[c] IN
        s.refused # 0 =>
            \E i \in 1 .. Rows : /\ FirstMatch(2, s.given, i)
                                 /\ s.refused = cause_map[i][1]

\* When the SIP peer has refused the call, every message that clears the MNCC leg from
\* then on (DISC_REQ, also repeated, REL_REQ) has the cause for the peer's status.
StatusReachesMsc ==
    \A c \in CallId : LET s == reason[c] IN
        HasMncc(calls[c]) /\ s.failed # 0 =>
            \E i \in 1 .. Rows : /\ FirstMatch(1, s.failed, i)
                                 /\ s.told = cause_map[i][2]
=============================================================================
