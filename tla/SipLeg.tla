------------------------------- MODULE SipLeg -------------------------------
(***************************************************************************)
(* The SIP leg (sip.c): what each call-back does to the record of the call.*)
(* An operator named after a nua_ function stands for the request handed   *)
(* to sofia-sip; its answer comes back later as an action of Connector.    *)
(***************************************************************************)
EXTENDS Call

\* External (sofia-sip): no event is delivered for a destroyed handle.
nua_handle_destroy(k) == [k EXCEPT !.nh = FALSE, !.txn = {}]
nua_invite(k) == [k EXCEPT !.txn = @ \cup {"INVITE"}]
nua_cancel(k) == [k EXCEPT !.txn = @ \cup {"CANCEL"}]
nua_bye(k)    == [k EXCEPT !.txn = @ \cup {"BYE"}]

\* Mutant: The leg is freed, the handle stays bound to it.
DropSipOnly(k) == call_leg_release(k)

\* Handle and leg go away together.
DropSip(k) == call_leg_release(nua_handle_destroy(k))

\* Mutant: sip_release_call, with a connected leg forgotten instead of hung up.
sip_release_call_no_bye(k) ==
    IF k.sip = "DLG_CNFD" /\ k.orig = "MNCC" THEN nua_cancel(k) ELSE
    IF k.sip \in {"INITIAL", "DLG_CNFD"}     THEN DropSip(k)
                                             ELSE k

\* sip_release_call: drop an unconfirmed dialogue, CANCEL an INVITE of ours,
\* refuse an INVITE of the peer, BYE a connected one.
sip_release_call(k) ==
    IF k.sip = "DLG_CNFD" /\ k.orig = "MNCC" THEN nua_cancel(k) ELSE
    IF k.sip \in {"INITIAL", "DLG_CNFD"}     THEN DropSip(k)
                                             ELSE nua_bye(k)

\* other_leg->release_call(other_leg), where the other leg is a SIP leg or gone.
release_other_sip(k) == IF HasSip(k) THEN sip_release_call(k) ELSE k

\* sip_connect_call: 200 OK to the peer's INVITE.
sip_connect_call(k) == [k EXCEPT !.sip = "CONNECTED"]

\* Mutant: sip_hold_call that forgets its state change.
sip_hold_call_no_state(k) == nua_invite(k)

\* sip_hold_call, sip_retrieve_call: re-INVITE the peer.
sip_hold_call(k)     == [nua_invite(k) EXCEPT !.sip = "HOLD"]
sip_retrieve_call(k) == [nua_invite(k) EXCEPT !.sip = "CONNECTED"]

\* sip_create_remote_leg and send_invite.
sip_create_remote_leg(k) == nua_invite([k EXCEPT !.sip = "INITIAL", !.nh = TRUE])
=============================================================================
