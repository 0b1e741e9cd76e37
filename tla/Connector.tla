----------------------------- MODULE Connector ------------------------------
(***************************************************************************)
(* osmo-sip-connector as one event loop: every action is one event (a      *)
(* message of the MSC, a sofia-sip event, an expired timer, a VTY command) *)
(* and the whole handler that serves it.  Handlers run to completion, so   *)
(* the interleaving is that of the events.                                 *)
(*                                                                         *)
(* Any write to the MNCC socket may fail (mncc_write, mncc_rtp_write):     *)
(* close_connection then runs inside the handler and frees the legs of     *)
(* every call before the handler goes on.  Where the handler goes on to    *)
(* use a freed leg the outcome is either that it gets away with it or that *)
(* the process dies and is restarted; fault records that it happened.      *)
(*                                                                         *)
(* CallId is the bound on the calls that exist at a time (a slot is used   *)
(* again once the connector and the MSC have both forgotten the call).     *)
(***************************************************************************)
EXTENDS MnccLeg

CONSTANT CallId

VARIABLES
    conn,       \* conn.state
    reconnect,  \* the conn.reconnect timer is scheduled
    calls,      \* g_call_list
    fault       \* ghost: what the last event did to memory

vars == <<conn, reconnect, calls, fault>>

ConnState == {"DISCONNECTED", "WAIT_VERSION", "READY"}
Fault     == {"none", "use_after_free", "null_pointer", "stale_name"}

Init == /\ conn = "DISCONNECTED"
        /\ reconnect = TRUE
        /\ calls = [c \in CallId |-> NoCall]
        /\ fault = "none"

-----------------------------------------------------------------------------
(* How a handler ends.                                                     *)

\* The handler leaves call c as k.
Done(c, k) == /\ calls' = [calls EXCEPT ![c] = k]
              /\ fault' = "none"
              /\ UNCHANGED <<conn, reconnect>>

\* Mutant: close_connection that does not schedule the next attempt.
close_connection_no_retry(c, k) ==
    /\ conn' = "DISCONNECTED"
    /\ UNCHANGED reconnect
    /\ calls' = [d \in CallId |-> app_mncc_disconnected(IF d = c THEN k ELSE calls[d])]

\* close_connection, call c being k at that moment.
close_connection(c, k) ==
    /\ conn' = "DISCONNECTED"
    /\ reconnect' = TRUE
    /\ calls' = [d \in CallId |-> app_mncc_disconnected(IF d = c THEN k ELSE calls[d])]

\* External: the process is killed and its supervisor starts it again.
Restart(why) ==
    /\ conn' = "DISCONNECTED"
    /\ reconnect' = TRUE
    /\ calls' = [c \in CallId |-> NoCall]
    /\ fault' = why

\* The handler's write fails and it does not touch a leg afterwards.
WriteFails(c, k) == close_connection(c, k) /\ fault' = "none"

\* The handler's write fails and it goes on with a leg that is freed by then.
WriteFailsLegUsed(c, k) ==
    \/ close_connection(c, k) /\ fault' = "use_after_free"
    \/ Restart("use_after_free")

\* mncc_call_leg_release as the last thing a handler does.  A rejected MO leg is
\* freed after the write, whether or not the write has already freed it.
release_mncc(c, k) ==
    IF conn # "READY"
    THEN Done(c, mncc_leg_release(k))
    ELSE \/ Done(c, mncc_call_leg_release(k))
         \/ k.mncc = "INITIAL" /\ k.orig = "MNCC" /\ WriteFailsLegUsed(c, k)
         \/ ~(k.mncc = "INITIAL" /\ k.orig = "MNCC") /\ WriteFails(c, k)

\* other->release_call(other), where the other leg is an MNCC leg or gone.
release_other_mncc(c, k) == IF HasMncc(k) THEN release_mncc(c, k) ELSE Done(c, k)

-----------------------------------------------------------------------------
(* The MNCC connection.                                                    *)

\* Mutant: mncc_reconnect that gives up after one failed attempt.
mncc_reconnect_fail_once == /\ reconnect
                            /\ reconnect' = FALSE
                            /\ fault' = "none"
                            /\ UNCHANGED <<conn, calls>>

\* mncc_reconnect: the socket cannot be opened; the timer is scheduled again.
mncc_reconnect_fail == /\ reconnect
                       /\ fault' = "none"
                       /\ UNCHANGED <<conn, reconnect, calls>>

\* mncc_reconnect: connected, the MSC's hello is awaited.
mncc_reconnect_ok == /\ reconnect
                     /\ conn' = "WAIT_VERSION"
                     /\ reconnect' = FALSE
                     /\ fault' = "none"
                     /\ UNCHANGED calls

\* check_hello with the expected version.
check_hello == /\ conn = "WAIT_VERSION"
               /\ conn' = "READY"
               /\ fault' = "none"
               /\ UNCHANGED <<reconnect, calls>>

\* mncc_data: end of file, a short message, a message of the wrong size or a hello
\* of the wrong version; also a failed write of a handler that does nothing else
\* (a set-up refused with REJ_REQ).
mncc_data_bad == /\ conn # "DISCONNECTED"
                 /\ conn' = "DISCONNECTED"
                 /\ reconnect' = TRUE
                 /\ calls' = [c \in CallId |-> app_mncc_disconnected(calls[c])]
                 /\ fault' = "none"

-----------------------------------------------------------------------------
(* Messages of the MSC.  The MSC speaks after its hello, about calls it    *)
(* knows, and answers SETUP_REQ before it says anything else about a call. *)

FromMsc(k) == conn = "READY" /\ k.msc # "NONE"

\* find_leg finds the leg, and the MSC is past CALL_CONF_IND.
ForLeg(k) == FromMsc(k) /\ HasMncc(k) /\ "SETUP_REQ" \notin k.req

\* check_setup: MNCC_SETUP_IND, a mobile originated call.
check_setup(c) ==
    /\ conn = "READY"
    /\ calls[c] = NoCall
    /\ LET k == [start_cmd_timer(call_mncc_create(calls[c]), "RTP_CREATE")
                    EXCEPT !.msc = "SETUP"]
       IN  \/ Done(c, Ask(k, "RTP_CREATE"))
           \/ WriteFails(c, k)

\* The reply to an RTP message for a leg that is gone or in release.
RejectRtp(c, k) == \/ Done(c, Ask(k, "REJ_REQ"))
                   \/ WriteFails(c, k)

\* app_route_call to the SIP side: the launching leg is released if there can be no
\* SIP leg.
route_to_sip(c, k) == \/ Done(c, sip_create_remote_leg(k))
                      \/ release_mncc(c, k)

\* continue_mo_call: CALL_PROC_REQ, then app_route_call.
continue_mo_call(c, k) == \/ route_to_sip(c, [k EXCEPT !.mncc = "PROCEEDING"])
                          \/ WriteFailsLegUsed(c, k)

\* Mutant: check_rtp_create that also serves a leg in release.
check_rtp_create_in_release(c) ==
    /\ FromMsc(calls[c])
    /\ "RTP_CREATE" \in calls[c].req
    /\ LET k == Answered(calls[c], "RTP_CREATE")
           s == stop_cmd_timer(k, "RTP_CREATE")
       IN  \/ ~HasMncc(k) /\ RejectRtp(c, k)
           \/ HasMncc(k) /\ k.orig = "MNCC" /\ continue_mo_call(c, s)
           \/ HasMncc(k) /\ k.orig = "SIP" /\ Done(c, s)

\* Mutant: check_rtp_create that frees a leg in release for which it comes late.
check_rtp_create_frees(c) ==
    /\ FromMsc(calls[c])
    /\ "RTP_CREATE" \in calls[c].req
    /\ LET k == Answered(calls[c], "RTP_CREATE")
           s == stop_cmd_timer(k, "RTP_CREATE")
           found == mncc_find_leg_not_released(k)
       IN  \/ ~found /\ Done(c, IF HasMncc(k) THEN mncc_leg_release(k) ELSE k)
           \/ found /\ k.orig = "MNCC" /\ continue_mo_call(c, s)
           \/ found /\ k.orig = "SIP" /\ Done(c, s)

\* check_rtp_create: the MSC has created its RTP endpoint.
check_rtp_create(c) ==
    /\ FromMsc(calls[c])
    /\ "RTP_CREATE" \in calls[c].req
    /\ LET k == Answered(calls[c], "RTP_CREATE")
           s == stop_cmd_timer(k, "RTP_CREATE")
           found == mncc_find_leg_not_released(k)
       IN  \/ ~found /\ RejectRtp(c, k)
           \/ found /\ k.orig = "MNCC" /\ continue_mo_call(c, s)
           \/ found /\ k.orig = "SIP" /\ Done(c, s)

\* check_rtp_connect: RTP_CONNECT came back, with an address (ok) or as a failure.
check_rtp_connect(c, ok) ==
    /\ FromMsc(calls[c])
    /\ "RTP_CONNECT" \in calls[c].req
    /\ LET k == Answered(calls[c], "RTP_CONNECT")
           found == mncc_find_leg_not_released(k)
       IN  \/ ~found /\ RejectRtp(c, k)
           \/ found /\ ok /\ Done(c, k)
           \/ found /\ ~ok /\ release_mncc(c, release_other_sip(k))

\* check_disc_ind: the subscriber hangs up.
check_disc_ind(c) ==
    /\ ForLeg(calls[c])
    /\ calls[c].msc # "DISC"
    /\ LET k == [start_cmd_timer(calls[c], "REL_CNF")
                    EXCEPT !.rel = TRUE, !.msc = "DISC"]
       IN  \/ Done(c, release_other_sip(Ask(k, "REL_REQ")))
           \/ WriteFailsLegUsed(c, k)

\* Mutant: check_rel_ind that always leaves the other leg alone.
check_rel_ind_one_leg(c) ==
    /\ FromMsc(calls[c])
    /\ HasMncc(calls[c])
    /\ Done(c, mncc_leg_release(MscGone(calls[c])))

\* check_rel_ind: the MSC has released the call, on its own or after DISC_REQ.
check_rel_ind(c) ==
    /\ FromMsc(calls[c])
    /\ HasMncc(calls[c])
    /\ LET k == MscGone(calls[c])
       IN  Done(c, mncc_leg_release(IF k.rel THEN k ELSE release_other_sip(k)))

\* check_rel_cnf: the answer to REL_REQ; the other leg is not looked at.
check_rel_cnf(c) ==
    /\ FromMsc(calls[c])
    /\ HasMncc(calls[c])
    /\ "REL_REQ" \in calls[c].req
    /\ Done(c, mncc_leg_release(MscGone(calls[c])))

\* check_rej_ind: the MSC refuses the call.
check_rej_ind(c) ==
    /\ FromMsc(calls[c])
    /\ HasMncc(calls[c])
    /\ calls[c].msc = "SETUP"
    /\ Done(c, mncc_leg_release(release_other_sip(MscGone(calls[c]))))

\* check_stp_cmpl_ind: a mobile originated call is through.
check_stp_cmpl_ind(c) ==
    /\ ForLeg(calls[c])
    /\ calls[c].msc = "SETUP"
    /\ "SETUP_RSP" \in calls[c].req
    /\ Done(c, [stop_cmd_timer(Answered(calls[c], "SETUP_RSP"), "SETUP_COMPL_IND")
                   EXCEPT !.mncc = "CONNECTED", !.msc = "TALK"])

\* check_cnf_ind: CALL_CONF_IND, the answer to SETUP_REQ.
check_cnf_ind(c) ==
    /\ FromMsc(calls[c])
    /\ HasMncc(calls[c])
    /\ "SETUP_REQ" \in calls[c].req
    /\ LET k == start_cmd_timer(Answered(calls[c], "SETUP_REQ"), "RTP_CREATE")
       IN  \/ Done(c, Ask(k, "RTP_CREATE"))
           \/ WriteFails(c, k)

\* check_alrt_ind: the subscriber's phone rings; sip_ring_call sends 180.
check_alrt_ind(c) ==
    /\ ForLeg(calls[c])
    /\ calls[c].orig = "SIP"
    /\ calls[c].msc = "SETUP"
    /\ IF HasSip(calls[c]) THEN Done(c, calls[c]) ELSE release_mncc(c, calls[c])

\* Mutant: check_stp_cnf that connects the peer without moving the MNCC leg.
check_stp_cnf_no_state(c) ==
    /\ ForLeg(calls[c])
    /\ calls[c].orig = "SIP"
    /\ calls[c].msc = "SETUP"
    /\ LET k == [calls[c] EXCEPT !.msc = "TALK"]
       IN  \/ ~HasSip(k) /\ release_mncc(c, k)
           \/ HasSip(k) /\ Done(c, sip_connect_call(Ask(k, "RTP_CONNECT")))

\* check_stp_cnf: the subscriber has answered; RTP_CONNECT, SETUP_COMPL_REQ, 200 OK.
check_stp_cnf(c) ==
    /\ ForLeg(calls[c])
    /\ calls[c].orig = "SIP"
    /\ calls[c].msc = "SETUP"
    /\ LET k == [calls[c] EXCEPT !.msc = "TALK"]
           a == [Ask(k, "RTP_CONNECT") EXCEPT !.mncc = "CONNECTED"]
       IN  \/ ~HasSip(k) /\ release_mncc(c, k)
           \/ HasSip(k) /\ Done(c, sip_connect_call(a))
           \/ HasSip(k) /\ WriteFailsLegUsed(c, k)

\* check_hold_ind: re-INVITE the peer, HOLD_CNF; HOLD_REJ without a SIP leg.
check_hold_ind(c) ==
    /\ ForLeg(calls[c])
    /\ calls[c].msc = "TALK"
    /\ LET k == calls[c]
           h == sip_hold_call(k)
       IN  \/ ~HasSip(k) /\ Done(c, k)
           \/ ~HasSip(k) /\ WriteFails(c, k)
           \/ HasSip(k) /\ Done(c, [h EXCEPT !.mncc = "HOLD", !.msc = "HELD"])
           \/ HasSip(k) /\ WriteFailsLegUsed(c, h)

\* check_retrieve_ind: re-INVITE the peer, RETRIEVE_CNF, RTP_CONNECT; without a
\* SIP leg RETRIEVE_CNF and release.
check_retrieve_ind(c) ==
    /\ ForLeg(calls[c])
    /\ calls[c].msc = "HELD"
    /\ LET k == [calls[c] EXCEPT !.msc = "TALK"]
           r == sip_retrieve_call(k)
       IN  \/ ~HasSip(k) /\ release_mncc(c, k)
           \/ ~HasSip(k) /\ WriteFailsLegUsed(c, k)
           \/ HasSip(k) /\ Done(c, Ask([r EXCEPT !.mncc = "CONNECTED"], "RTP_CONNECT"))
           \/ HasSip(k) /\ WriteFailsLegUsed(c, r)

\* check_dtmf_start, check_dtmf_stop: INFO to the peer, a response to the MSC.
check_dtmf(c) ==
    /\ ForLeg(calls[c])
    /\ calls[c].msc \in {"TALK", "HELD"}
    /\ \/ Done(c, calls[c])
       \/ WriteFails(c, calls[c])

\* External (MSC): it drops a call that was rejected, or that the connector does
\* not know any more (find_leg ignores what it says about such a call).
MscDropsCall(c) ==
    /\ FromMsc(calls[c])
    /\ "REJ_REQ" \in calls[c].req \/ ~HasMncc(calls[c])
    /\ Done(c, MscGone(calls[c]))

\* cmd_timeout: five seconds without the wanted message.
CmdTimeout(c) == calls[c].timer /\ Done(c, cmd_timeout(calls[c]))

-----------------------------------------------------------------------------
(* Events of sofia-sip (nua_callback).                                     *)

\* mncc_call_leg_ring: ALERT_REQ and, if the peer's address is known, RTP_CONNECT.
mncc_call_leg_ring(c, k, known) ==
    \/ Done(c, IF known THEN Ask(k, "RTP_CONNECT") ELSE k)
    \/ WriteFailsLegUsed(c, k)

\* call_progress.
call_progress(c, k, known) ==
    IF HasMncc(k) THEN mncc_call_leg_ring(c, k, known) ELSE Done(c, k)

\* call_connect: the MNCC leg is gone, or the audio is incompatible, or the MSC is
\* told.  Of the two writes only a failing RTP_CONNECT is followed by a use of the leg.
call_connect(c, k, audio) ==
    LET a == [k EXCEPT !.sip = "CONNECTED"]
    IN  \/ ~HasMncc(k) /\ Done(c, nua_cancel(k))
        \/ HasMncc(k) /\ ~audio /\ release_mncc(c, nua_cancel(k))
        \/ HasMncc(k) /\ audio /\ Done(c, mncc_call_leg_connect(a))
        \/ HasMncc(k) /\ audio /\ WriteFailsLegUsed(c, a)
        \/ HasMncc(k) /\ audio /\ WriteFails(c, a)

(* nua_r_invite: a response to our INVITE or re-INVITE.                    *)
InviteAnswered(k) == k.nh /\ "INVITE" \in k.txn

\* The dialogue is confirmed by the first response.
Confirmed(k) == [k EXCEPT !.sip = IF @ = "INITIAL" THEN "DLG_CNFD" ELSE @]

\* 180 and 183; known: the peer's media address is.
nua_r_invite_progress(c, known) ==
    InviteAnswered(calls[c]) /\ call_progress(c, Confirmed(calls[c]), known)

\* The responses below 300 that no branch serves: the other provisional ones and, at
\* the end of the transaction, a 2xx that is not 200.
nua_r_invite_trying(c) ==
    /\ InviteAnswered(calls[c])
    /\ LET k == Confirmed(calls[c])
       IN  Done(c, k) \/ Done(c, [k EXCEPT !.txn = @ \ {"INVITE"}])

\* 200: to a re-INVITE it is only acknowledged; audio: its SDP is usable.
nua_r_invite_ok(c, audio) ==
    /\ InviteAnswered(calls[c])
    /\ LET f == [Confirmed(calls[c]) EXCEPT !.txn = @ \ {"INVITE"}]
       IN  IF f.sip \in {"CONNECTED", "HOLD"} THEN Done(c, f) ELSE call_connect(c, f, audio)

\* 300 and above.
nua_r_invite_fail(c) ==
    InviteAnswered(calls[c]) /\ release_other_mncc(c, DropSip(Confirmed(calls[c])))

\* nua_r_bye, nua_r_cancel: our BYE or CANCEL is answered.
nua_r_bye(c) == calls[c].nh /\ "BYE" \in calls[c].txn /\ Done(c, DropSip(calls[c]))
nua_r_cancel(c) == calls[c].nh /\ "CANCEL" \in calls[c].txn /\ Done(c, DropSip(calls[c]))

\* Mutant: nua_i_bye that frees the leg it was called for and no other.
nua_i_bye_one_leg(c) ==
    /\ calls[c].nh
    /\ calls[c].sip # "INITIAL"
    /\ Done(c, DropSip(calls[c]))

\* nua_i_bye: the peer hangs up.
nua_i_bye(c) ==
    /\ calls[c].nh
    /\ calls[c].sip # "INITIAL"
    /\ release_other_mncc(c, DropSip(calls[c]))

\* nua_i_cancel: the peer withdraws the INVITE we have not answered yet.
nua_i_cancel(c) ==
    /\ calls[c].nh
    /\ calls[c].orig = "SIP"
    /\ calls[c].sip = "DLG_CNFD"
    /\ release_other_mncc(c, DropSip(calls[c]))

\* app_route_call to the MNCC side: SETUP_REQ is written, or the connection breaks
\* or is not there and the launching leg is released.
route_to_mncc(c, k) ==
    \/ conn # "DISCONNECTED" /\ Done(c, mncc_create_remote_leg(k))
    \/ conn # "DISCONNECTED" /\ WriteFails(c, sip_release_call(k))
    \/ conn = "DISCONNECTED" /\ Done(c, sip_release_call(k))

\* new_call: a mobile terminated call.  An unparsable X-Global-Call-Ref or a missing
\* From or To ("malformed") leaves the new call behind; without audio it is dropped.
new_call(c, fate) ==
    /\ calls[c] = NoCall
    /\ LET k == call_sip_create(calls[c])
           l == [k EXCEPT !.sip = "DLG_CNFD", !.nh = TRUE]
       IN  \/ fate = "malformed" /\ Done(c, k)
           \/ fate = "no_audio" /\ Done(c, DropSip(l))
           \/ fate = "routed" /\ route_to_mncc(c, l)

\* update_rtp, called with either leg: RTP_CONNECT to the MSC.
update_rtp(c, k) == \/ Done(c, Ask(k, "RTP_CONNECT"))
                    \/ WriteFailsLegUsed(c, k)

\* Mutant: a re-INVITE of the party that has sent the INVITE is handled like the INVITE.
sip_handle_reinvite_as_new(c, fate) ==
    /\ calls[c].nh
    /\ calls[c].sip \in {"CONNECTED", "HOLD"}
    /\ HasMncc(calls[c])
    /\ Done(c, IF calls[c].orig = "SIP" THEN [calls[c] EXCEPT !.sip = "DLG_CNFD"] ELSE calls[c])

\* sip_handle_reinvite, for nua_i_invite and nua_i_ack with SDP on a known handle:
\* without other leg, answered without change of the media address, no audio,
\* media address changed (update_rtp).
sip_handle_reinvite(c, fate) ==
    /\ calls[c].nh
    /\ calls[c].sip \in {"CONNECTED", "HOLD"}
    /\ LET k == calls[c]
       IN  \/ ~HasMncc(k) /\ Done(c, sip_release_call(k))
           \/ HasMncc(k) /\ fate = "answered" /\ Done(c, k)
           \/ HasMncc(k) /\ fate = "no_audio" /\ Done(c, DropSip(k))
           \/ HasMncc(k) /\ fate = "moved" /\ update_rtp(c, k)

-----------------------------------------------------------------------------
\* show_calls_sum: the VTY command reads call->initial->type of every call.
show_calls_sum ==
    IF \E c \in CallId : InitialGone(calls[c])
    THEN Restart("null_pointer")
    ELSE fault' = "none" /\ UNCHANGED <<conn, reconnect, calls>>

\* show_calls: the VTY command prints call->source and call->dest, which were allocated
\* with (and are freed with) the launching leg.
show_calls ==
    IF \E c \in CallId : InitialGone(calls[c])
    THEN \/ fault' = "stale_name" /\ UNCHANGED <<conn, reconnect, calls>>
         \/ Restart("stale_name")
    ELSE fault' = "none" /\ UNCHANGED <<conn, reconnect, calls>>

-----------------------------------------------------------------------------
\* mncc_data: the dispatcher of the messages about a call.
mncc_data(c) == \/ check_setup(c)     \/ check_rtp_create(c)
                \/ check_disc_ind(c)  \/ check_rel_ind(c)      \/ check_rel_cnf(c)
                \/ check_rej_ind(c)   \/ check_stp_cmpl_ind(c) \/ check_cnf_ind(c)
                \/ check_alrt_ind(c)  \/ check_stp_cnf(c)      \/ check_hold_ind(c)
                \/ check_retrieve_ind(c) \/ check_dtmf(c)
                \/ \E ok \in BOOLEAN : check_rtp_connect(c, ok)

\* nua_callback: the dispatcher of the sofia-sip events.
nua_callback(c) ==
    \/ nua_r_bye(c) \/ nua_r_cancel(c) \/ nua_i_bye(c) \/ nua_i_cancel(c)
    \/ nua_r_invite_trying(c) \/ nua_r_invite_fail(c)
    \/ \E ok \in BOOLEAN : nua_r_invite_progress(c, ok) \/ nua_r_invite_ok(c, ok)
    \/ \E fate \in {"malformed", "no_audio", "routed"} : new_call(c, fate)
    \/ \E fate \in {"answered", "no_audio", "moved"} : sip_handle_reinvite(c, fate)

Next == \/ mncc_reconnect_ok
        \/ mncc_reconnect_fail
        \/ check_hello
        \/ mncc_data_bad
        \/ show_calls_sum
        \/ show_calls
        \/ \E c \in CallId : mncc_data(c) \/ nua_callback(c) \/ CmdTimeout(c) \/ MscDropsCall(c)

Spec == Init /\ [][Next]_vars

-----------------------------------------------------------------------------
(* Properties of one call.                                                 *)

Talking(k) == k.mncc \in {"CONNECTED", "HOLD"} /\ k.sip \in {"CONNECTED", "HOLD"}

BothLegs(k) == HasMncc(k) /\ HasSip(k)

\* The SIP leg is on its way out: the answer to a CANCEL or BYE will free it.
SipClearing(k) == "CANCEL" \in k.txn \/ "BYE" \in k.txn

\* The messages to the MSC whose answer the supervision timer waits for.
Supervised == {"RTP_CREATE", "SETUP_RSP", "REL_REQ"}

TypeOK == /\ conn \in ConnState
          /\ reconnect \in BOOLEAN
          /\ calls \in [CallId -> CallRec]
          /\ fault \in Fault

\* app_mncc_disconnected leaves no MNCC leg behind, and a mobile originated leg
\* exists only on a connection whose version was checked: a leg that survived the
\* loss of its socket would be written to with a callref the MSC does not know.
NoLegWithoutConnection ==
    \A c \in CallId : HasMncc(calls[c]) =>
        /\ conn # "DISCONNECTED"
        /\ calls[c].orig = "MNCC" => conn = "READY"

\* The reconnect timer runs exactly while there is no connection, whatever made
\* close_connection run and however often.
ReconnectScheduled == reconnect <=> conn = "DISCONNECTED"

\* An MNCC leg that waits for the MSC (it is in release, or a supervised request is
\* unanswered) has its cmd_timeout scheduled, although crossing messages restart the
\* timer for another response and late responses try to stop it.
WaitIsSupervised ==
    \A c \in CallId : LET k == calls[c] IN
        HasMncc(k) /\ (k.rel \/ \E m \in Supervised : m \in k.req) => k.timer

\* The legs are cleared together: a SIP leg whose MNCC leg is gone has a CANCEL or
\* BYE under way, and while both legs exist the MNCC leg is in release exactly when
\* the SIP leg is being cleared.  No path (REL_CNF, REL_IND, timeout, lost
\* connection, a 200 that races our CANCEL, incompatible audio) forgets a SIP peer
\* that has a handle.  Of a subscriber whose SIP leg is gone it says nothing: that is
\* the subject of SubscriberNotForgotten and NoHalfCall.
ClearedTogether ==
    \A c \in CallId : LET k == calls[c] IN
        k.nh => IF HasMncc(k) THEN k.rel <=> SipClearing(k) ELSE SipClearing(k)

\* nua events carry the leg as hmagic: a handle with work under way belongs to a
\* leg that still exists.
HandleHasLeg ==
    \A c \in CallId : LET k == calls[c] IN
        /\ k.txn # {} => k.nh
        /\ k.nh => HasSip(k)

\* The called side is answered first: the leg of a SIP caller is connected only when the
\* subscriber has answered, that of a subscriber only when the SIP peer has.
AnswerOrder ==
    \A c \in CallId : LET k == calls[c] IN
        BothLegs(k) =>
            /\ k.orig = "SIP"  /\ k.sip \in {"CONNECTED", "HOLD"} => Talking(k)
            /\ k.orig = "MNCC" /\ k.mncc \in {"CONNECTED", "HOLD"} => Talking(k)

\* Hold is seen by both legs or by none, also when HOLD_IND or RETRIEVE_IND cross
\* with the release of the call.
HoldInStep ==
    \A c \in CallId : LET k == calls[c] IN
        BothLegs(k) => (k.mncc = "HOLD" <=> k.sip = "HOLD")

\* The connector forgets a call the MSC still has only in one of three steps: it has
\* sent REJ_REQ, the supervision time ran out (the step is cmd_timeout), or the MSC has
\* not said hello (mncc_call_leg_release).  No other way out of a handler leaves the
\* MSC with a dead call, not even for a leg whose timer happens to run.
MscNotForgotten ==
    [][\A c \in CallId :
          HasMncc(calls[c]) /\ ~HasMncc(calls'[c]) /\ calls'[c].msc # "NONE"
          => CmdTimeout(c) \/ conn # "READY" \/ "REJ_REQ" \in calls'[c].req]_vars

\* No handler but that of a re-INVITE without usable audio frees the SIP leg and leaves
\* the subscriber in a call nobody clears: BYE, CANCEL, a failure response, the answers
\* to our own BYE and CANCEL and a lost connection find the MNCC leg in release, put it
\* there or free it.
SubscriberNotForgotten ==
    [][\A c \in CallId :
          HasSip(calls[c]) /\ ~HasSip(calls'[c]) /\ HasMncc(calls'[c])
          => calls'[c].rel \/ sip_handle_reinvite(c, "no_audio")]_vars

-----------------------------------------------------------------------------
(* What a call promises (CallLifecycle), and how a call shows it.  A call  *)
(* that lost one leg counts as clearing, whether the other is being        *)
(* released or, as in NoHalfCall and EveryLegReleasable, was forgotten.    *)

Phase(k) ==
    IF k.orig = "NONE" THEN "idle" ELSE
    IF ~k.rel /\ Talking(k) THEN "answered" ELSE
    IF ~k.rel /\ (BothLegs(k) \/ (k.orig = "MNCC" /\ k.mncc = "INITIAL")) THEN "setup"
    ELSE "clearing"

Lifecycle == INSTANCE CallLifecycle WITH phase <- [c \in CallId |-> Phase(calls[c])]

\* Every call follows the life cycle: a call that is being cleared never comes up
\* again, whatever late 200 OK, SETUP_CNF, SETUP_COMPL_IND or retrieve arrives.
FollowsLifecycle == Lifecycle!Spec

-----------------------------------------------------------------------------
(* Liveness.                                                               *)

\* The event loop runs expired timers, sofia-sip answers every request, if only with
\* a timeout, and one of the attempts to connect to the MSC succeeds.
Fairness == /\ WF_vars(mncc_reconnect_ok)
            /\ \A c \in CallId : /\ WF_vars(CmdTimeout(c))
                                 /\ WF_vars(nua_r_bye(c))
                                 /\ WF_vars(nua_r_cancel(c))

FairSpec == Spec /\ Fairness

\* A lost MNCC connection is tried again until it is there.
Reconnects == conn = "DISCONNECTED" ~> conn # "DISCONNECTED"

\* An MNCC leg in release is freed even if the MSC never answers.
ReleaseEnds == \A c \in CallId : calls[c].rel ~> ~calls[c].rel

\* A SIP leg whose MNCC leg is gone is freed, by the answer to CANCEL or BYE.
OrphanSipEnds ==
    \A c \in CallId :
        (calls[c].nh /\ ~HasMncc(calls[c])) ~> ~(calls[c].nh /\ ~HasMncc(calls[c]))

-----------------------------------------------------------------------------
(* Claims of comments that the code does not keep.                         *)

\* app.c says of a released leg that the call "might be gone. We may not touch call
\* beyond that point"; the handlers that run close_connection through a failed write
\* would have to respect that too.
NoUseAfterFree == fault # "use_after_free"

\* call.h says that the initial field "will always be used by the entity that has
\* launched the call": show_calls_sum may read it, and show_calls the names that belong
\* to it, as long as the call is listed.
NoStaleInitial == fault \notin {"null_pointer", "stale_name"}

\* call.h says of release_call that it is "set by the call_leg implementation and will
\* be called by the application to release the call": a listed SIP leg has been set up
\* (release_call and nua_handle are set together).
EveryLegReleasable == \A c \in CallId : HasSip(calls[c]) => calls[c].nh

\* call.h describes "a call with two legs": past its set-up an MNCC leg whose SIP leg
\* is gone is in release.
NoHalfCall ==
    \A c \in CallId : LET k == calls[c] IN
        k.mncc \in {"PROCEEDING", "CONNECTED", "HOLD"} /\ ~HasSip(k) => k.rel
=============================================================================
