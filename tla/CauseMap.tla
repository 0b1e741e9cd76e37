------------------------------ MODULE CauseMap ------------------------------
(***************************************************************************)
(* The table between SIP statuses and GSM 04.08 causes (cause_map in       *)
(* sip.c), and the two loops that search it.  Causes are named as the      *)
(* GSM48_CC_CAUSE_ constants; "unset" is the zero of a leg without cause.  *)
(***************************************************************************)
EXTENDS Integers, Sequences

cause_map == <<
    <<200, "NORM_CALL_CLEAR">>,
    <<403, "CALL_REJECTED">>,    <<401, "CALL_REJECTED">>,   <<402, "CALL_REJECTED">>,
    <<407, "CALL_REJECTED">>,    <<603, "CALL_REJECTED">>,   <<406, "CHAN_UNACCEPT">>,
    <<404, "UNASSIGNED_NR">>,    <<485, "NO_ROUTE">>,        <<604, "NO_ROUTE">>,
    <<504, "RECOVERY_TIMER">>,   <<408, "RECOVERY_TIMER">>,  <<410, "NUMBER_CHANGED">>,
    <<416, "INVAL_TRANS_ID">>,   <<420, "INTERWORKING">>,    <<414, "INTERWORKING">>,
    <<413, "INTERWORKING">>,     <<421, "INTERWORKING">>,    <<423, "INTERWORKING">>,
    <<505, "INTERWORKING">>,     <<513, "INTERWORKING">>,    <<480, "USER_NOTRESPOND">>,
    <<503, "RESOURCE_UNAVAIL">>, <<503, "TEMP_FAILURE">>,    <<503, "SWITCH_CONG">>,
    <<400, "TEMP_FAILURE">>,     <<481, "TEMP_FAILURE">>,    <<500, "TEMP_FAILURE">>,
    <<486, "USER_BUSY">>,        <<600, "USER_BUSY">>,       <<484, "INV_NR_FORMAT">>,
    <<488, "INCOMPAT_DEST">>,    <<606, "INCOMPAT_DEST">>,   <<502, "DEST_OOO">>,
    <<503, "NETWORK_OOO">>,      <<405, "SERV_OPT_UNAVAIL">>, <<501, "SERV_OPT_UNIMPL">>,
    <<415, "SERV_OPT_UNIMPL">>,  <<406, "SERV_OPT_UNIMPL">>, <<482, "PRE_EMPTION">>,
    <<483, "PRE_EMPTION">>,      <<503, "BEARER_CA_UNAVAIL">>,
    <<480, "NORMAL_UNSPEC">> >>

Rows == Len(cause_map)

\* Mutant: the loop that ends a row too early.
Search_short(col, v) ==
    LET loop[i \in 1 .. Rows] ==
            IF i >= Rows - 1 THEN Rows ELSE IF cause_map[i][col] = v THEN i ELSE loop[i + 1]
    IN  loop[1]

\* The loop of both functions over all rows but the last, which is left to those that
\* find nothing.
Search(col, v) ==
    LET loop[i \in 1 .. Rows] ==
            IF i = Rows THEN Rows ELSE IF cause_map[i][col] = v THEN i ELSE loop[i + 1]
    IN  loop[1]

status2cause(status) == cause_map[Search(1, status)][2]
cause2status(cause)  == cause_map[Search(2, cause)][1]
=============================================================================
