------------------------------ MODULE Numbering -----------------------------
(***************************************************************************)
(* Whom a call is from and whom it is for: the numbers of SETUP_IND on     *)
(* their way into the INVITE (check_setup, continue_mo_call), and the user *)
(* parts of an INVITE on their way into SETUP_REQ (mncc_create_remote_leg).*)
(* A subscriber calls, and the called party calls back by what it was told.*)
(*                                                                         *)
(* A text is a sequence of characters, cut to the size of the buffer it is *)
(* copied to.                                                              *)
(***************************************************************************)
EXTENDS Integers, Sequences

CONSTANTS Subscriber,   \* [imsi, number] of the subscribers
          Dialled,      \* the called numbers of SETUP_IND, NoNumber without one
          NumberSize,   \* characters of gsm_mncc_number.number that can be used
          ImsiSize      \* characters of an imsi field that can be used

ASSUME SizeAssumption == NumberSize \in Nat /\ ImsiSize \in Nat \ {0}

\* What the MSC writes into a number or an IMSI: the digits of a BCD number.
Digit == {"0", "1", "2", "3", "4", "5", "6", "7", "8", "9", "*", "#", "a", "b", "c"}

ASSUME DialledAssumption == \A called \in Dialled : called.text \in Seq(Digit)
ASSUME SubscriberAssumption ==
    \A s \in Subscriber : s.number.text \in Seq(Digit) /\ s.imsi \in Seq(Digit)

VARIABLES
    use_imsi,   \* g_app.use_imsi_as_id
    mo,         \* ghost: the last SETUP_IND
    invite,     \* user parts of From and To in the INVITE for it
    setup       \* calling, called and imsi in the SETUP_REQ for the call-back

vars == <<use_imsi, mo, invite, setup>>

Type == {"UNKNOWN", "INTERNATIONAL", "NATIONAL"}

NoNumber == [type |-> "none", plan |-> "none", text |-> <<>>]
None     == [kind |-> "none"]

\* A text in a buffer that can hold n characters.
Cut(text, n) == SubSeq(text, 1, IF Len(text) < n THEN Len(text) ELSE n)

-----------------------------------------------------------------------------
(* Mobile originated.                                                      *)

\* check_setup, the number for an emergency call without one (its type is the value of
\* CALL_TYPE_MNCC, which is that of a national number; the word is one character here).
emergency_number == [type |-> "NATIONAL", plan |-> "UNKNOWN", text |-> <<"emergency">>]

\* continue_setup: a missing number has the plan of a zeroed message.
continue_setup(called) == called.plan \in {"none", "UNKNOWN", "ISDN"}

\* check_setup: what passes the screening; without calling number it does not, nor with
\* a Global Call Reference that cannot be decoded (gcr: it is absent or can be).
Screened(called, emergency, calling, gcr) ==
    /\ called # NoNumber \/ emergency
    /\ calling # NoNumber
    /\ continue_setup(called)
    /\ gcr

\* Mutant: continue_mo_call that prints every called number without prefix.
Dest_plain(called) == Cut(called.text, NumberSize)

\* continue_mo_call.
Dest(called) ==
    (IF called.type = "INTERNATIONAL" THEN <<"+">> ELSE <<>>) \o Cut(called.text, NumberSize)
Source(s) == IF use_imsi THEN Cut(s.imsi, ImsiSize) ELSE Cut(s.number.text, NumberSize)

\* check_setup, and later continue_mo_call and send_invite.
MoCall(s, called, emergency, gcr) ==
    LET leg_called == IF called = NoNumber THEN emergency_number ELSE called
    IN  /\ Screened(called, emergency, s.number, gcr)
        /\ mo' = [kind |-> "call", from |-> s, to |-> leg_called]
        /\ invite' = [kind |-> "invite", from |-> Source(s), to |-> Dest(leg_called)]
        /\ setup' = None
        /\ UNCHANGED use_imsi

\* check_setup: REJ_REQ.
MoRejected(s, called, emergency, gcr) ==
    /\ ~Screened(called, emergency, s.number, gcr)
    /\ mo' = None /\ invite' = None /\ setup' = None
    /\ UNCHANGED use_imsi

-----------------------------------------------------------------------------
(* Mobile terminated.                                                      *)

\* mncc_create_remote_leg: the calling number.
Calling(source) ==
    IF source # <<>> /\ Head(source) = "+"
    THEN [type |-> "INTERNATIONAL", text |-> Cut(Tail(source), NumberSize)]
    ELSE [type |-> "UNKNOWN", text |-> Cut(source, NumberSize)]

\* Mutant: the sizes of the buffers taken for one less.
Called_short(dest) ==
    IF use_imsi THEN [imsi |-> Cut(dest, ImsiSize - 3), text |-> <<>>]
                ELSE [imsi |-> <<>>, text |-> Cut(dest, NumberSize - 1)]

\* mncc_create_remote_leg: whom the call is for.  snprintf is given 15 bytes, one less
\* than the field has, and needs one of them for the end of the string.
Called(dest) ==
    IF use_imsi THEN [imsi |-> Cut(dest, ImsiSize - 2), text |-> <<>>]
                ELSE [imsi |-> <<>>, text |-> Cut(dest, NumberSize)]

\* The called party calls back: From and To of the INVITE are swapped.
CallBack ==
    /\ invite # None
    /\ setup' = [kind |-> "setup", calling |-> Calling(invite.to), called |-> Called(invite.from)]
    /\ UNCHANGED <<use_imsi, mo, invite>>

-----------------------------------------------------------------------------
Init == /\ use_imsi \in BOOLEAN
        /\ mo = None /\ invite = None /\ setup = None

Next == \/ CallBack
        \/ \E s \in Subscriber, called \in Dialled, emergency, gcr \in BOOLEAN :
              MoCall(s, called, emergency, gcr) \/ MoRejected(s, called, emergency, gcr)

Spec == Init /\ [][Next]_vars

-----------------------------------------------------------------------------
(* Properties.                                                             *)

\* A party that calls back is shown to the subscriber with the number that was dialled,
\* international or not, up to the longest number that fits.
ShownAsDialled ==
    setup # None =>
        /\ setup.calling.text = Cut(mo.to.text, NumberSize)
        /\ setup.calling.type = "INTERNATIONAL" <=> mo.to.type = "INTERNATIONAL"

\* The call-back is for the identity of the caller.  With numbers as identities it is the
\* number, whatever its length.  With IMSIs it is the IMSI as long as that leaves two of
\* the characters of the field unused: of fifteen digits the last one is lost.
IdentityReachesCaller ==
    setup # None =>
        /\ ~use_imsi => setup.called.text = Cut(mo.from.number.text, NumberSize)
        /\ use_imsi /\ Len(mo.from.imsi) <= ImsiSize - 2 => setup.called.imsi = mo.from.imsi
=============================================================================
