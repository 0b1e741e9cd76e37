-------------------------------- MODULE Call --------------------------------
(***************************************************************************)
(* One call of osmo-sip-connector (call.c, call.h): two legs, one towards  *)
(* the MSC (MNCC) and one towards the SIP peer.  The leg of the type that  *)
(* launched the call is call->initial, the other one is call->remote.      *)
(*                                                                         *)
(* A call is a record:                                                     *)
(*   orig   the type of the launching leg; "NONE" when the call is not in  *)
(*          g_call_list.  The MNCC leg has dir MO, and the SIP leg dir MT, *)
(*          exactly when orig = "MNCC".                                    *)
(*   mncc   state of the MNCC leg, "NONE" when there is none               *)
(*   rel    base.in_release of the MNCC leg                                *)
(*   timer  its cmd_timeout timer is scheduled                             *)
(*   want   its rsp_wanted (kept when the timer is stopped, as in the code)*)
(*   sip    state of the SIP leg, "NONE" when there is none                *)
(*   nh     the SIP leg's nua_handle is set and not destroyed              *)
(* and, for the two external parties, what the code in src/ relies on:     *)
(*   txn    client transactions sofia-sip has not answered yet             *)
(*   msc    the call as the MSC sees it                                    *)
(*   req    messages sent to the MSC that it has not answered yet          *)
(***************************************************************************)

LegType   == {"MNCC", "SIP"}
MnccState == {"INITIAL", "PROCEEDING", "CONNECTED", "HOLD"}
SipState  == {"INITIAL", "DLG_CNFD", "CONNECTED", "HOLD"}

\* External: the requests a nua handle may have outstanding.
NuaRequest == {"INVITE", "CANCEL", "BYE"}
\* External: the life of a call in the MSC.
MscState == {"SETUP", "TALK", "HELD", "DISC"}
\* External: the messages of the connector that the MSC answers or acts on later.
MscRequest == {"SETUP_REQ", "RTP_CREATE", "RTP_CONNECT", "SETUP_RSP", "REL_REQ", "REJ_REQ"}

\* The values start_cmd_timer gives to rsp_wanted.
Wanted == {"RTP_CREATE", "SETUP_COMPL_IND", "REL_CNF", "REL_IND"}

CallRec == [orig  : LegType \cup {"NONE"},
            mncc  : MnccState \cup {"NONE"},
            rel   : BOOLEAN,
            timer : BOOLEAN,
            want  : Wanted \cup {"NONE"},
            sip   : SipState \cup {"NONE"},
            nh    : BOOLEAN,
            txn   : SUBSET NuaRequest,
            msc   : MscState \cup {"NONE"},
            req   : SUBSET MscRequest]

NoCall == [orig |-> "NONE", mncc |-> "NONE", rel |-> FALSE, timer |-> FALSE,
           want |-> "NONE", sip |-> "NONE", nh |-> FALSE, txn |-> {},
           msc |-> "NONE", req |-> {}]

HasMncc(k) == k.mncc # "NONE"
HasSip(k)  == k.sip # "NONE"

\* call->initial is NULL although the call is still listed.
InitialGone(k) == \/ k.orig = "MNCC" /\ ~HasMncc(k)
                  \/ k.orig = "SIP" /\ ~HasSip(k)

\* The end of call_leg_release: a call without legs leaves g_call_list.
Reap(k) == IF HasMncc(k) \/ HasSip(k) THEN k ELSE [k EXCEPT !.orig = "NONE"]

\* call_leg_release for the SIP leg.
call_leg_release(k) == Reap([k EXCEPT !.sip = "NONE"])

\* mncc_leg_release: the timer is deleted and the MNCC leg freed.
mncc_leg_release(k) ==
    Reap([k EXCEPT !.mncc = "NONE", !.rel = FALSE, !.timer = FALSE, !.want = "NONE"])

\* call_mncc_create: a call whose initial leg is an MNCC leg (check_setup fills it).
call_mncc_create(k) == [k EXCEPT !.orig = "MNCC", !.mncc = "INITIAL"]

\* call_sip_create: a call whose initial leg is a zeroed SIP leg without a handle.
call_sip_create(k) == [k EXCEPT !.orig = "SIP", !.sip = "INITIAL"]
=============================================================================
