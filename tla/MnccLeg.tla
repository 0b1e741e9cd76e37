------------------------------ MODULE MnccLeg -------------------------------
(***************************************************************************)
(* The MNCC leg (mncc.c): what each call-back and each message sent to the *)
(* MSC does to the record of the call, when the message can be written.    *)
(* What a failed write does is in Connector.                               *)
(***************************************************************************)
EXTENDS SipLeg

\* External (MSC): message m is on its way to the MSC.  The MSC forgets a call
\* it has released, and does not complete the set-up of a call that was told to
\* clear before the SETUP_RSP.
Ask(k, m) ==
    IF k.msc = "NONE" \/ (m = "SETUP_RSP" /\ (k.rel \/ k.msc # "SETUP"))
    THEN k
    ELSE [k EXCEPT !.req = @ \cup {m}]

\* External (MSC): the MSC has answered, or no longer answers, message m.
Answered(k, m) == [k EXCEPT !.req = @ \ {m}]
\* External (MSC): the MSC has released its side of the call.
MscGone(k) == [k EXCEPT !.msc = "NONE", !.req = {}]

start_cmd_timer(k, m) == [k EXCEPT !.want = m, !.timer = TRUE]

\* stop_cmd_timer: only the wanted response stops the timer.
stop_cmd_timer(k, m) == IF k.want = m THEN [k EXCEPT !.timer = FALSE] ELSE k

\* mncc_find_leg_not_released would find the leg of this call.
mncc_find_leg_not_released(k) == HasMncc(k) /\ ~k.rel

\* cmd_timeout: the awaited message never came.
cmd_timeout(k) == mncc_leg_release(release_other_sip(k))

\* Mutant: mncc_call_leg_release on a READY connection, the messages all written, the
\* clearing of a set-up leg not supervised.
mncc_call_leg_release_unguarded(k) ==
    IF k.mncc # "INITIAL"
    THEN [k EXCEPT !.rel = TRUE]
    ELSE IF k.orig = "MNCC"
         THEN mncc_leg_release(Ask(k, "REJ_REQ"))
         ELSE Ask(start_cmd_timer([k EXCEPT !.rel = TRUE], "REL_CNF"), "REL_REQ")

\* mncc_call_leg_release on a READY connection, the messages all written.
\* DISC_REQ is not recorded: the MSC may send REL_IND at any time anyway.
mncc_call_leg_release(k) ==
    IF k.mncc # "INITIAL"
    THEN start_cmd_timer([k EXCEPT !.rel = TRUE], "REL_IND")
    ELSE IF k.orig = "MNCC"
         THEN mncc_leg_release(Ask(k, "REJ_REQ"))
         ELSE Ask(start_cmd_timer([k EXCEPT !.rel = TRUE], "REL_CNF"), "REL_REQ")

\* mncc_call_leg_connect, both messages written.
mncc_call_leg_connect(k) ==
    Ask(start_cmd_timer(Ask(k, "RTP_CONNECT"), "SETUP_COMPL_IND"), "SETUP_RSP")

\* Mutant: app_mncc_disconnected that only releases the launching leg.
app_mncc_disconnected_initial_only(k) ==
    MscGone(IF ~HasMncc(k) THEN k
            ELSE IF k.orig = "MNCC" THEN mncc_leg_release(k) ELSE release_other_sip(k))

\* app_mncc_disconnected for one call: the connection is not READY any more, so
\* the MNCC leg is freed without a message; the MSC drops its calls on its own.
app_mncc_disconnected(k) ==
    MscGone(IF HasMncc(k) THEN mncc_leg_release(release_other_sip(k)) ELSE k)

\* Mutant: mncc_create_remote_leg with a constant of the other leg's state enum.
mncc_create_remote_leg_enum(k) ==
    [k EXCEPT !.mncc = "DLG_CNFD", !.msc = "SETUP", !.req = {"SETUP_REQ"}]

\* mncc_create_remote_leg, SETUP_REQ written: the leg has no supervision timer.
mncc_create_remote_leg(k) ==
    [k EXCEPT !.mncc = "INITIAL", !.msc = "SETUP", !.req = {"SETUP_REQ"}]
=============================================================================
